----------------------------- MODULE DeviceTree -----------------------------
(***************************************************************************)
(* Building a device tree and flattening it (device_tree.c).               *)
(* DT__FlattenDeviceTree measures the tree by the counters alone, and      *)
(* later writes it, by walking the links, into memory that was reserved    *)
(* for the measured size.  Nothing but their agreement keeps the walk      *)
(* inside that memory.                                                     *)
(*                                                                         *)
(* The kernel reads the flattened form back; Entry is how it reads it.     *)
(* Buffer positions are in words of four bytes from where the reservation  *)
(* starts, lengths of values in bytes as in the code.                      *)
(***************************************************************************)
EXTENDS TreeNodes, FiniteSets

CONSTANTS
    MaxNodes,       \* bounds on what the client adds
    MaxProperties,
    Names,          \* property names: small numbers, 1 is "name"
    NameLen,        \* words a name takes with its terminator
    Lengths,        \* lengths of values
    NameWords,      \* words of a flattened property's name field
    Rooms           \* how many buffers the heap may be able to give

NodeSize     == 2              \* sizeof(DeviceTreeNode)
PropertySize == NameWords + 1  \* sizeof(DeviceTreeNodeProperty)

ASSUME TreeAssumption ==
    /\ {MaxNodes, MaxProperties} \subseteq Nat
    /\ 1 \in Names /\ Names \subseteq Nat
    /\ NameLen \in [Names -> Nat \ {0}]
    /\ Lengths \subseteq Nat
    /\ NameWords \in Nat \ {0}
    /\ Rooms \subseteq Nat

\* A property; value is a number of its own.  A node, with its lists.
Property == [name : Names, length : Nat, value : Nat]
Node     == [properties : Seq(Property), children : Seq(Nat)]

Trees == [nodes : Seq(Node), rootNode : Nat, freeNodes : Nat,
          freeProperties : Nat, room : Nat, numNodes : Nat,
          numProperties : Nat, totalPropertySize : Nat]

\* A word of the flattened tree.
Kind == {"pad", "nProperties", "nChildren", "name", "length", "data"}
Word == [kind : Kind, of : Nat, index : Nat]
Pad  == [kind |-> "pad", of |-> 0, index |-> 0]

VARIABLES
    pc,       \* what the loader is doing with the tree
    dt,       \* the nodes (in the order they were taken), pools and DTInfo
    stack,    \* FlattenNodes' frames, the innermost last
    buffer,   \* what has been written there, and behind it
    pos,      \* FlattenNodes' buffer pointer, from the reservation's start
    length    \* the size measured and reserved

vars == <<pc, dt, stack, buffer, pos, length>>

-----------------------------------------------------------------------------
(* Building.                                                               *)

Init ==
    /\ pc = "start"
    /\ dt \in {EmptyTree(room) : room \in Rooms}
    /\ stack = <<>>
    /\ buffer = <<>>
    /\ pos = 0
    /\ length = 0

UnchangedFlat == UNCHANGED <<stack, buffer, pos, length>>

\* DT__Initialize, and assert(root).
Initialize ==
    /\ pc = "start"
    /\ dt' = WithNamed(dt, NULL, 1, 2, 1)
    /\ pc' = IF dt'.rootNode = NULL THEN "halted" ELSE "build"
    /\ UnchangedFlat

\* A client adds a child to a node that it has, without a name if n is 0.
AddChild(parent, n) ==
    /\ pc = "build"
    /\ dt.numNodes < MaxNodes
    /\ dt.numProperties < MaxProperties
    /\ dt' = IF n = 0 THEN WithChild(dt, parent)
             ELSE WithNamed(dt, parent, 1, n, dt.numProperties + 1)
    /\ UNCHANGED pc
    /\ UnchangedFlat

AddProperty(node, name, n) ==
    /\ pc = "build"
    /\ dt.numProperties < MaxProperties
    /\ dt' = WithProperty(dt, node, name, n, dt.numProperties + 1)
    /\ UNCHANGED pc
    /\ UnchangedFlat

-----------------------------------------------------------------------------
(* Flattening.                                                             *)

\* Mutant: the values are forgotten.
TotalSizeHeaders(d) == d.numNodes * NodeSize + d.numProperties * PropertySize

TotalSize(d) == d.numNodes * NodeSize + d.numProperties * PropertySize
                  + d.totalPropertySize

\* FlattenNodes entered for a node: its two counts go to word at, and its
\* properties are next.  child is 0 until the children's turn.
Frame(node, at) == [node |-> node, at |-> at, prop |-> 1, child |-> 0]

Top == stack[Len(stack)]

TopNode == dt.nodes[Top.node]

\* DT__FlattenDeviceTree to measure, memory_region_reserve, and then
\* DT__FlattenDeviceTree again, which clears the memory and starts the walk.
StartFlatten ==
    /\ pc = "build"
    /\ pc' = "flatten"
    /\ length' = TotalSize(dt)
    /\ stack' = <<Frame(dt.rootNode, 0)>>
    /\ pos' = NodeSize
    /\ UNCHANGED <<dt, buffer>>

Cell(kind, of, index) == [kind |-> kind, of |-> of, index |-> index]

Put(b, x, cell) == [y \in DOMAIN b \cup {x} |-> IF y = x THEN cell ELSE b[y]]

\* A property written at position x: the name is copied whole, however long
\* it is, then comes the length, then the value.
PropertyAt(b, x, p) ==
    LET name == x .. (x + NameLen[p.name] - 1)
        data == (x + PropertySize)
                   .. (x + PropertySize + RoundToLong(p.length) - 1)
    IN  [y \in DOMAIN b \cup name \cup {x + NameWords} \cup data |->
            IF y \in data THEN Cell("data", p.value, y - (x + PropertySize))
            ELSE IF y = x + NameWords THEN Cell("length", p.length, 0)
            ELSE IF y \in name THEN Cell("name", p.name, y - x)
            ELSE b[y]]

\* One turn of the loop over the properties.
FlattenProperty ==
    /\ pc = "flatten"
    /\ stack # <<>>
    /\ Top.prop <= Len(TopNode.properties)
    /\ LET p == TopNode.properties[Top.prop] IN
       /\ buffer' = PropertyAt(buffer, pos, p)
       /\ pos' = pos + PropertySize + RoundToLong(p.length)
    /\ stack' = [stack EXCEPT ![Len(stack)].prop = @ + 1]
    /\ UNCHANGED <<pc, dt, length>>

EndProperties ==
    /\ pc = "flatten"
    /\ stack # <<>>
    /\ Top.child = 0
    /\ Top.prop > Len(TopNode.properties)
    /\ buffer' = Put(buffer, Top.at, Cell("nProperties", Top.prop - 1, 0))
    /\ stack' = [stack EXCEPT ![Len(stack)].child = 1]
    /\ UNCHANGED <<pc, dt, pos, length>>

\* Mutant: the child's counts are put where its parent's properties end.
PushNoRoom(child) == Append(stack, Frame(child, pos - NodeSize))

Push(child) == Append(stack, Frame(child, pos))

\* The recursive call for the next child...
FlattenChild ==
    /\ pc = "flatten"
    /\ stack # <<>>
    /\ Top.child \in 1 .. Len(TopNode.children)
    /\ stack' = [Push(TopNode.children[Top.child])
                    EXCEPT ![Len(stack)].child = @ + 1]
    /\ pos' = pos + NodeSize
    /\ UNCHANGED <<pc, dt, buffer, length>>

\* Mutant: the last child is never left.
EndChildrenStays ==
    /\ pc = "flatten"
    /\ stack # <<>>
    /\ Top.child > Len(TopNode.children)
    /\ buffer' = Put(buffer, Top.at + 1, Cell("nChildren", Top.child - 1, 0))
    /\ UNCHANGED <<pc, dt, stack, pos, length>>

\* ... and the return from it.
EndChildren ==
    /\ pc = "flatten"
    /\ stack # <<>>
    /\ Top.child > Len(TopNode.children)
    /\ buffer' = Put(buffer, Top.at + 1, Cell("nChildren", Top.child - 1, 0))
    /\ stack' = SubSeq(stack, 1, Len(stack) - 1)
    /\ pc' = IF Len(stack) = 1 THEN "done" ELSE "flatten"
    /\ UNCHANGED <<dt, pos, length>>

Next ==
    \/ Initialize
    \/ \E node \in DOMAIN dt.nodes :
          \/ \E n \in {0} \cup Lengths : AddChild(node, n)
          \/ \E name \in Names, n \in Lengths : AddProperty(node, name, n)
    \/ StartFlatten
    \/ FlattenProperty \/ EndProperties \/ FlattenChild \/ EndChildren

Spec == Init /\ [][Next]_vars

\* The loader steps; how long it builds is up to its input.
FairSpec ==
    /\ Spec
    /\ WF_vars(FlattenProperty \/ EndProperties \/ FlattenChild \/ EndChildren)

-----------------------------------------------------------------------------
(* Properties.                                                             *)

\* The types of the variables.  At "stage2" and "enter" it is the loader's
\* own tree, in Stage2.
TypeOK ==
    /\ pc \in {"start", "stage2", "enter", "build", "halted", "flatten", "done"}
    /\ dt \in Trees
    /\ stack \in Seq([node : Nat, at : Nat, prop : Nat, child : Nat])
    /\ DOMAIN buffer \subseteq Nat /\ buffer \in [DOMAIN buffer -> Word]
    /\ pos \in Nat
    /\ length \in Nat

\* The names are short enough for the field they are copied to.
NamesFit == \A name \in Names : NameLen[name] <= NameWords

Flattening == pc \in {"flatten", "done"}

\* FlattenNodes stays in the memory that was measured: as far as it has
\* come, and wherever it has put a property's name, length and value.
StaysInside ==
    Flattening =>
        /\ pos <= length
        /\ NamesFit => \A x \in DOMAIN buffer : x < length

\* The size measured is "the buffer size needed" (device_tree.c:259),
\* whatever the names: nothing is written beyond it.
BufferSizeNeeded == Flattening => \A x \in DOMAIN buffer : x < length

\* At the end, FlattenNodes has come exactly as far as the counts of
\* DT__FlattenDeviceTree said it would.
MeasuredIsWritten == pc = "done" => pos = length

\* DT__FlattenDeviceTree measures by the counters that every addition kept,
\* and FlattenNodes writes by walking the links: the walk stays inside what
\* was measured and reserved, and fills it.
FitsMeasured == StaysInside /\ MeasuredIsWritten

\* A word of the memory, which was cleared before.
Read(x) == IF x \in DOMAIN buffer THEN buffer[x] ELSE Pad

\* What the kernel reads at position x of the flattened tree, which it gets
\* through by the counts and the lengths it finds.
NameAt(x) ==
    LET found == {name \in Names : \A k \in 0 .. (NameLen[name] - 1) :
                                      Read(x + k) = Cell("name", name, k)}
    IN  IF found = {} THEN NULL ELSE CHOOSE name \in found : TRUE

ValueAt(x, words) ==
    IF words > 0 /\ \A k \in 0 .. (words - 1) :
                       Read(x + k) = Cell("data", Read(x).of, k)
    THEN Read(x).of ELSE NULL

\* Where the properties start, and past the last one the first child.
Starts(x) ==
    LET start[k \in Nat] ==
          IF k = 0 THEN x + NodeSize
          ELSE start[k - 1] + PropertySize
                 + RoundToLong(Read(start[k - 1] + NameWords).of)
    IN  start

EndOf[x \in Nat] ==
    LET child[k \in Nat] == IF k = 0 THEN Starts(x)[Read(x).of]
                            ELSE EndOf[child[k - 1]]
    IN  child[Read(x + 1).of]

Entry[x \in Nat] ==
    LET child[k \in Nat] == IF k = 0 THEN Starts(x)[Read(x).of]
                            ELSE EndOf[child[k - 1]]
    IN  [properties |->
            [k \in 1 .. Read(x).of |->
                LET at == Starts(x)[k - 1]
                    n  == Read(at + NameWords).of
                IN  [name |-> NameAt(at), length |-> n,
                     value |-> ValueAt(at + PropertySize, RoundToLong(n))]],
         children |-> [k \in 1 .. Read(x + 1).of |-> Entry[child[k - 1]]]]

\* The same of the tree in memory, from a node on.
Tree[node \in DOMAIN dt.nodes] ==
    [properties |->
        [k \in DOMAIN dt.nodes[node].properties |->
            LET p == dt.nodes[node].properties[k]
            IN  [p EXCEPT !.value = IF p.length = 0 THEN NULL ELSE @]],
     children |-> [k \in DOMAIN dt.nodes[node].children |->
                      Tree[dt.nodes[node].children[k]]]]

\* What the kernel reads out of the flattened tree is the tree that was
\* built, and the tree ends where it should (FlattenNodes, 223-254).
ReadsBack ==
    pc = "done" /\ NamesFit =>
        /\ Entry[0] = Tree[dt.rootNode]
        /\ EndOf[0] = length

SumOver(f) ==
    LET sum[k \in 0 .. Len(f)] == IF k = 0 THEN 0 ELSE sum[k - 1] + f[k]
    IN  sum[Len(f)]

\* Where a child stands: its parent and its place among the children.
Places(d) ==
    UNION {{<<p, k>> : k \in DOMAIN d.nodes[p].children} : p \in DOMAIN d.nodes}

\* A tree's counts are of the nodes and properties there are, and each node
\* but the root is the child of one node.
Counted(d) ==
    LET nodes == DOMAIN d.nodes IN
    /\ d.numNodes = Len(d.nodes)
    /\ d.numProperties = SumOver([i \in nodes |-> Len(d.nodes[i].properties)])
    /\ d.totalPropertySize =
         SumOver([i \in nodes |->
            SumOver([k \in DOMAIN d.nodes[i].properties |->
                        RoundToLong(d.nodes[i].properties[k].length)])])
    /\ \A i \in nodes :
          Cardinality({e \in Places(d) : d.nodes[e[1]].children[e[2]] = i})
             = IF i = d.rootNode THEN 0 ELSE 1

\* The root was the first node, and every other one came after its parent.
Grown(d) ==
    /\ d.rootNode = 1 /\ 1 \in DOMAIN d.nodes
    /\ \A e \in Places(d) :
          d.nodes[e[1]].children[e[2]] \in (e[1] + 1) .. Len(d.nodes)

\* DTInfo counts the nodes and properties there are, whatever was refused
\* (device_tree.c:73-111, 120-156).
CountsHold == Counted(dt)

\* FlattenNodes comes to its end, however the nodes are nested.
FlattenEnds == pc = "flatten" ~> pc = "done"
=============================================================================
