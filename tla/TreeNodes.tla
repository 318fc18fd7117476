----------------------------- MODULE TreeNodes -----------------------------
(***************************************************************************)
(* The device tree in memory (device_tree.c): nodes and properties come    *)
(* from pools that malloc refills a buffer at a time, are linked into a    *)
(* tree, and are counted in DTInfo.  The tree is a record that the         *)
(* operators here make another one of; DeviceTree and Xml have it in their *)
(* state.                                                                  *)
(*                                                                         *)
(* room stands for the heap: how many more calls of malloc it can serve.   *)
(***************************************************************************)
EXTENDS Integers, Sequences

CONSTANT PerBuffer      \* nodes, or properties, in kAllocSize bytes

ASSUME PerBufferAssumption == PerBuffer \in Nat \ {0, 1}

NULL == 0

\* In words of four bytes, like all sizes here but a value's length.
RoundToLong(length) == (length + 3) \div 4

EmptyTree(room) ==
    [nodes |-> <<>>, rootNode |-> NULL, freeNodes |-> 0, freeProperties |-> 0,
     room |-> room, numNodes |-> 0, numProperties |-> 0,
     totalPropertySize |-> 0]

\* The first element of each buffer only records the buffer.
Refilled(count) == IF count = 0 THEN PerBuffer - 1 ELSE count

\* A call that needs a new buffer and gets none returns a null pointer, and
\* has no effect.  Mutant: the null pointer is not noticed.
NeverRefused(d) == FALSE

NodeRefused(d)     == d.freeNodes = 0 /\ d.room = 0
PropertyRefused(d) == d.freeProperties = 0 /\ d.room = 0

\* DT__AddProperty: the property comes last among the node's.
WithProperty(d, node, name, n, value) ==
    IF PropertyRefused(d) THEN d
    ELSE [d EXCEPT
            !.room = IF d.freeProperties = 0 THEN @ - 1 ELSE @,
            !.freeProperties = Refilled(@) - 1,
            !.nodes[node].properties =
                Append(@, [name |-> name, length |-> n, value |-> value]),
            !.numProperties = @ + 1,
            !.totalPropertySize = @ + RoundToLong(n)]

\* Mutant: the children there were are dropped.
WithNodeAlone(d, parent) ==
    LET node == Len(d.nodes) + 1
        taken == [d EXCEPT
                    !.room = IF d.freeNodes = 0 THEN @ - 1 ELSE @,
                    !.freeNodes = Refilled(@) - 1,
                    !.nodes = Append(@, [properties |-> <<>>,
                                         children |-> <<>>]),
                    !.numNodes = @ + 1]
    IN  IF parent = NULL THEN [taken EXCEPT !.rootNode = node]
        ELSE [taken EXCEPT !.nodes[parent].children = <<node>>]

\* DT__AddChild, given a free node: the node comes first among its parent's
\* children; without a parent it is the root.
WithNode(d, parent) ==
    LET node == Len(d.nodes) + 1
        taken == [d EXCEPT
                    !.room = IF d.freeNodes = 0 THEN @ - 1 ELSE @,
                    !.freeNodes = Refilled(@) - 1,
                    !.nodes = Append(@, [properties |-> <<>>,
                                         children |-> <<>>]),
                    !.numNodes = @ + 1]
    IN  IF parent = NULL THEN [taken EXCEPT !.rootNode = node]
        ELSE [taken EXCEPT !.nodes[parent].children = <<node>> \o @]

\* DT__AddChild of a node with a name: value, of n bytes, becomes its property
\* "name", which the caller's names call name.
WithNamed(d, parent, name, n, value) ==
    IF NodeRefused(d) THEN d
    ELSE LET e == WithNode(d, parent)
         IN  WithProperty(e, Len(e.nodes), name, n, value)

\* And of one without.
WithChild(d, parent) == IF NodeRefused(d) THEN d ELSE WithNode(d, parent)
=============================================================================
