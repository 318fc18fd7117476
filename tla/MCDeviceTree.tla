---------------------------- MODULE MCDeviceTree ----------------------------
(***************************************************************************)
(* What is done with device trees.  An execution is one of these: a client *)
(* builds any small tree and has it flattened (DeviceTree); the loader     *)
(* enters what it knows into the tree from the XML and has that flattened  *)
(* (Stage2); clients look nodes up and make them by their paths            *)
(* (DevicePaths, with a tree of its own).  tree says which.                *)
(***************************************************************************)
EXTENDS Stage2

CONSTANT LongName       \* words of one property's name

None == "none"

VARIABLES
    tree,
    at, made, asked, path, node             \* DevicePaths

flat  == <<pc, dt, stack, buffer, pos, length>>
paths == <<at, made, asked, path, node>>

-----------------------------------------------------------------------------

\* One of the names is usually as long as the field.
MCNameLen == [name \in {1, 2, 3} |-> IF name = 2 THEN LongName ELSE 1]

\* The tree the loader begins with: a root alone, or one with a /chosen and a
\* memory map of its own, in which there may be a ramdisk.  The heap's room
\* goes from nothing to more than is needed.
MCFromXml ==
    UNION {LET root   == WithNamed(EmptyTree(room + 2), NULL, 1, 2, OtherValue)
               chosen == WithNamed(root, 1, 1, 7, Chosen)
               map    == WithNamed(chosen, 2, 1, 11, MemoryMap)
               disk   == WithProperty(map, 3, RAMDisk, 8, OtherValue)
           IN  {root, map, disk} :
           room \in {4, 5, 6, 7, 10, 18, 20, 24, 28, 29, 30, 31, 32, 33, 34, 40}}

\* Paths with slashes where they should be, and more.  Names are of up to
\* two characters, one less than the limit; one begins with another.
MCPaths == {<<>>, <<"/">>, <<"a">>, <<"/", "a">>, <<"/", "a", "b">>,
            <<"a", "/", "b">>, <<"/", "a", "/", "/", "a", "b", "/">>,
            <<"b", "/", "a", "/", "b">>, <<"a", "b", "/", "a">>}

P == INSTANCE DevicePaths WITH
        kDTMaxEntryNameLength <- 3, Chars <- {"a", "b"}, Slash <- "/",
        Paths <- MCPaths, Rooms <- {0, 1, 2, 3, 5, 12},
        pc <- at, dt <- made

ASSUME P!PathAssumption

-----------------------------------------------------------------------------

NoStage == /\ ramdisk = FALSE /\ memory_map = NULL /\ gChosen = NULL
           /\ entered = 0
NoPaths == /\ at = None /\ made = None /\ asked = None /\ path = None
           /\ node = None

TreesInit ==
    \/ tree = "client" /\ Init /\ NoStage /\ NoPaths
    \/ tree = "loader" /\ StageInit /\ NoPaths
    \/ tree = "paths" /\ Init /\ NoStage /\ dt.room = 0 /\ P!Init

InClient == tree = "client" /\ UNCHANGED <<tree, stageVars, paths>>
InLoader == tree = "loader" /\ UNCHANGED <<tree, paths>>
InPaths  == tree = "paths" /\ UNCHANGED <<tree, flat, stageVars>>

Begin == InClient /\ Initialize
Child(parent, size) == InClient /\ AddChild(parent, size)
Value(of, name, size) == InClient /\ AddProperty(of, name, size)
Measure == InClient /\ StartFlatten

Stage == InLoader /\ (CreateMemoryMapNode \/ CreateDeviceTreeNode \/ Relocate)
StageMeasure == InLoader /\ pc = "build" /\ Flatten

Find(p, createIfMissing) == InPaths /\ P!Call(p, createIfMissing)
FindTurn == InPaths /\ P!Turn

\* The walk, of either tree.
Walk == /\ \/ FlattenProperty \/ EndProperties \/ FlattenChild \/ EndChildren
        /\ UNCHANGED <<tree, stageVars, paths>>

TreesNext ==
    \/ Begin
    \/ \E n \in DOMAIN dt.nodes :
          \/ \E size \in {0} \cup Lengths : Child(n, size)
          \/ \E name \in {1, 2}, size \in Lengths : Value(n, name, size)
    \/ Measure
    \/ Stage \/ StageMeasure
    \/ Walk
    \/ \E p \in MCPaths, createIfMissing \in BOOLEAN : Find(p, createIfMissing)
    \/ FindTurn

\* Fairness as in DeviceTree's FairSpec: once it flattens, it steps.
TreesSpec ==
    /\ TreesInit /\ [][TreesNext]_<<tree, flat, stageVars, paths>>
    /\ WF_<<tree, flat, stageVars, paths>>(Walk)

-----------------------------------------------------------------------------
(* The property of one kind of execution.  DeviceTree's and Stage2's are   *)
(* of all of them, there being no tree to flatten when paths are looked    *)
(* up, and nothing the loader has entered but in its own tree.             *)

\* A path names one node, and DT__FindNode finds or makes that.
FindsByPath == tree = "paths" => P!FindsByPath
=============================================================================
