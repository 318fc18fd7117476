------------------------------- MODULE Stage2 -------------------------------
(***************************************************************************)
(* What the loader itself enters into the device tree                      *)
(* (prepare_devicetree_stage2 and its helpers, bootx.c): /chosen, its      *)
(* memory map with the ramdisk in it, and some twenty properties.  Then    *)
(* the tree is flattened, as DeviceTree has it, and the kernel looks the   *)
(* ramdisk up.                                                             *)
(*                                                                         *)
(* No result but three pointers is looked at on the way.  The heap may be  *)
(* used up at any call, and the tree that came from the XML may already    *)
(* have nodes of these names.                                              *)
(***************************************************************************)
EXTENDS DeviceTree

\* Names of properties, and values.  The other names and values do not tell
\* themselves apart.
NameProperty == 1
RAMDisk      == 2
OtherName    == 3

Chosen    == 1
MemoryMap == 2
Options   == 3
Relocated == 4      \* where the ramdisk was copied to, and its size
OtherValue == 5

CONSTANTS
    FromXml         \* the trees that may be there

\* What the XML itself may say of a ramdisk is none of the loader's values.
SaysOther(d) ==
    \A i \in DOMAIN d.nodes : \A k \in DOMAIN d.nodes[i].properties :
       d.nodes[i].properties[k].name = RAMDisk =>
          d.nodes[i].properties[k].value = OtherValue

\* They are trees as device_tree.c builds them.
ASSUME StageAssumption ==
    /\ {NameProperty, RAMDisk, OtherName} \subseteq Names
    /\ \A d \in FromXml : d \in Trees /\ Grown(d) /\ Counted(d) /\ SaysOther(d)

VARIABLES
    ramdisk,        \* whether ramdisk_base is not null
    memory_map, gChosen,
    entered         \* how many of Entries have had their turn

stageVars == <<ramdisk, memory_map, gChosen, entered>>

StageInit ==
    /\ pc = "stage2"
    /\ dt \in FromXml
    /\ stack = <<>>
    /\ buffer = <<>>
    /\ pos = 0
    /\ length = 0
    /\ ramdisk \in BOOLEAN
    /\ memory_map = NULL
    /\ gChosen = NULL
    /\ entered = 0

-----------------------------------------------------------------------------

\* The node a call of DT__AddChild returns.
Returned(d) == IF NodeRefused(d) THEN NULL ELSE Len(d.nodes) + 1

\* CreateMemoryMapNode.  A null parent is passed on, and means the root.
CreateMemoryMapNode ==
    /\ pc = "stage2"
    /\ LET d1 == WithNamed(dt, dt.rootNode, NameProperty, 7, Chosen)
           d2 == WithNamed(d1, Returned(dt), NameProperty, 11, MemoryMap)
       IN  /\ dt' = WithNamed(d2, d2.rootNode, NameProperty, 8, Options)
           /\ gChosen' = Returned(dt)
           /\ memory_map' = Returned(d1)
    /\ pc' = IF memory_map' = NULL \/ gChosen' = NULL THEN "halted"
             ELSE "enter"
    /\ UNCHANGED <<ramdisk, entered>>
    /\ UnchangedFlat

\* The calls of CreateDeviceTreeNode: for gChosen or the root, with lengths.
Entries ==
    <<<<"chosen", 16>>, <<"root", 16>>, <<"root", 13>>, <<"root", 3>>,
      <<"root", 5>>, <<"root", 6>>, <<"chosen", 4>>, <<"chosen", 4>>,
      <<"chosen", 4>>, <<"chosen", 4>>, <<"chosen", 4>>, <<"chosen", 4>>,
      <<"chosen", 4>>, <<"chosen", 4>>, <<"chosen", 8>>, <<"chosen", 8>>,
      <<"root", 12>>>>

\* The next one: a copy of the name, without which nothing is done, then
\* the property, whose refusal goes unnoticed.
CreateDeviceTreeNode ==
    /\ pc = "enter"
    /\ entered < Len(Entries)
    /\ LET call == Entries[entered + 1]
           node == IF call[1] = "root" THEN dt.rootNode ELSE gChosen
       IN  dt' = IF dt.room = 0 THEN dt
                 ELSE WithProperty([dt EXCEPT !.room = @ - 1], node,
                                   OtherName, call[2], OtherValue)
    /\ entered' = entered + 1
    /\ UNCHANGED <<pc, ramdisk, memory_map, gChosen>>
    /\ UnchangedFlat

\* Mutant: the range is entered into the parent of the memory map.
WithRangeInChosen(d) ==
    IF d.room < 2 THEN [d EXCEPT !.room = 0]
    ELSE WithProperty([d EXCEPT !.room = @ - 2], gChosen,
                      RAMDisk, 8, Relocated)

\* AllocateMemoryRange: the name is allocated first, then the range, and
\* neither is given back.
WithRange(d) ==
    IF d.room < 2 THEN [d EXCEPT !.room = 0]
    ELSE WithProperty([d EXCEPT !.room = @ - 2], memory_map,
                      RAMDisk, 8, Relocated)

\* What AllocateMemoryRange returns is not looked at either.
Relocate ==
    /\ pc = "enter"
    /\ entered = Len(Entries)
    /\ dt' = IF ramdisk THEN WithRange(dt) ELSE dt
    /\ pc' = "build"
    /\ UNCHANGED stageVars
    /\ UnchangedFlat

\* DT__FlattenDeviceTree, and the memory for it.
Flatten ==
    /\ \/ StartFlatten
       \/ FlattenProperty \/ EndProperties \/ FlattenChild \/ EndChildren
    /\ UNCHANGED stageVars

StageNext ==
    CreateMemoryMapNode \/ CreateDeviceTreeNode \/ Relocate \/ Flatten

StageSpec == StageInit /\ [][StageNext]_<<vars, stageVars>>

-----------------------------------------------------------------------------
(* Properties.                                                             *)

\* The kernel's lookups in the flattened tree: of those of a name the first
\* counts, among a node's children and among its properties.
FirstOf(seq, some) ==
    IF some = {} THEN {} ELSE {seq[CHOOSE k \in some : \A j \in some : k <= j]}

Lookup(entry, name) ==
    {p.value : p \in FirstOf(entry.properties,
                             {k \in DOMAIN entry.properties :
                                 entry.properties[k].name = name})}

ChildNamed(entry, value) ==
    FirstOf(entry.children,
            {k \in DOMAIN entry.children :
                Lookup(entry.children[k], NameProperty) = {value}})

\* What the kernel finds as /chosen/memory-map's RAMDisk.
Announced ==
    UNION {Lookup(map, RAMDisk) :
             map \in UNION {ChildNamed(chosen, MemoryMap) :
                              chosen \in ChildNamed(Entry[0], Chosen)}}

\* The heap had something left to the end, and so refused nothing.
NothingRefused == dt.room > 0

\* The kernel is told of the ramdisk that was copied, and of none if there
\* is none, whatever /chosen the XML may already have: of equal names the
\* loader's come first (bootx.c:335-339, device_tree.c:146).  If the heap was
\* used up on the way, the tree does not lead the kernel to anything else,
\* but for what the XML itself says of a ramdisk, which may be of no bytes.
\* It is the loader's tree that has a gChosen.
RamdiskAnnounced ==
    pc = "done" /\ NamesFit /\ gChosen # NULL =>
        /\ NothingRefused => Announced = IF ramdisk THEN {Relocated} ELSE {}
        /\ Announced \subseteq {Relocated, OtherValue, NULL}

\* "Enter ramdisk into /chosen/memory-map and flatten" (bootx.c:528), which
\* an assertion is about: there is no going on without it.
RamdiskEntered == pc = "done" /\ ramdisk => Announced = {Relocated}
=============================================================================
