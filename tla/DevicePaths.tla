---------------------------- MODULE DevicePaths ----------------------------
(***************************************************************************)
(* DT__FindNode (device_tree.c): the node at a path, entry by entry from   *)
(* the root, made on the way if that is asked for.  A path is a sequence   *)
(* of characters; each entry is copied to a buffer of its own before it is *)
(* compared with the children's names.                                     *)
(*                                                                         *)
(* Clients call it one after the other, and the heap may be used up.       *)
(***************************************************************************)
EXTENDS TreeNodes, FiniteSets, SequencesExt

CONSTANTS
    kDTMaxEntryNameLength,
    Chars, Slash,         \* the characters of names, and "/"
    Paths,                \* the paths asked for
    Rooms                 \* how many buffers the heap may be able to give

\* What the constants are assumed to be.
PathAssumption ==
    /\ kDTMaxEntryNameLength \in Nat \ {0, 1}
    /\ Slash \notin Chars
    /\ Paths \subseteq Seq(Chars \cup {Slash})
    /\ Rooms \subseteq Nat

NodesBound == 6           \* bounds what the clients make

VARIABLES
    pc,
    dt,       \* the nodes, pools and DTInfo
    asked,    \* the arguments of the last call
    path,     \* what is left of the path
    node

vars == <<pc, dt, asked, path, node>>

Init ==
    /\ pc = "idle"
    /\ dt \in {WithNamed(EmptyTree(room + 2), NULL, "name", 2, <<Slash>>) :
                  room \in Rooms}
    /\ asked = [path |-> <<>>, createIfMissing |-> FALSE]
    /\ path = <<>>
    /\ node = dt.rootNode

Call(p, createIfMissing) ==
    /\ pc = "idle"
    /\ createIfMissing => dt.numNodes < NodesBound
    /\ pc' = "find"
    /\ asked' = [path |-> p, createIfMissing |-> createIfMissing]
    /\ path' = p
    /\ node' = dt.rootNode
    /\ UNCHANGED dt

\* How far a sequence consists of members of S, and no further than limit.
Span(s, S, limit) ==
    CHOOSE n \in 0 .. Len(s) :
        /\ n <= limit
        /\ \A i \in 1 .. n : s[i] \in S
        /\ n < Len(s) /\ n < limit => s[n + 1] \notin S

Skipped(p) == SubSeq(p, Span(p, {Slash}, Len(p)) + 1, Len(p))

\* DT__GetName: the value of the first property "name", or else "(null)".
GetName(d, n) ==
    LET named == SelectSeq(d.nodes[n].properties, LAMBDA p : p.name = "name")
    IN  IF named = <<>> THEN <<"(null)">> ELSE Head(named).value

\* The first child of a name, or NULL.  Mutant: names are compared as far as
\* the shorter goes.
ChildBegins(d, parent, name) ==
    LET fits == SelectSeq(d.nodes[parent].children,
                          LAMBDA c : IsPrefix(GetName(d, c), name)
                                       \/ IsPrefix(name, GetName(d, c)))
    IN  IF fits = <<>> THEN NULL ELSE Head(fits)

Child(d, parent, name) ==
    LET fits == SelectSeq(d.nodes[parent].children,
                          LAMBDA c : GetName(d, c) = name)
    IN  IF fits = <<>> THEN NULL ELSE Head(fits)

\* One turn of the loop.  The entry is what comes up to the next slash, but
\* the loop that copies it counts up before it compares.  A missing child's
\* name is copied to memory that may have been refused, which is not noticed.
Turn ==
    /\ pc = "find"
    /\ LET rest  == Skipped(path)
           n     == Span(rest, Chars, kDTMaxEntryNameLength - 1)
           entry == SubSeq(rest, 1, n)
           found == Child(dt, node, entry)
           taken == [dt EXCEPT !.room = @ - 1]
       IN  /\ path' = SubSeq(rest, n + 1, Len(rest))
           /\ \/ /\ entry = <<>>
                 /\ pc' = "idle"
                 /\ UNCHANGED <<dt, node>>
              \/ /\ entry # <<>>
                 /\ found # NULL \/ ~asked.createIfMissing
                 /\ node' = found
                 /\ pc' = IF found = NULL THEN "idle" ELSE "find"
                 /\ UNCHANGED dt
              \/ /\ entry # <<>>
                 /\ found = NULL /\ asked.createIfMissing
                 /\ IF dt.room = 0
                    THEN pc' = "undefined" /\ UNCHANGED <<dt, node>>
                    ELSE /\ dt' = WithNamed(taken, node, "name", n + 1, entry)
                         /\ node' = IF NodeRefused(taken) THEN NULL
                                    ELSE Len(dt'.nodes)
                         /\ pc' = IF node' = NULL THEN "idle" ELSE "find"
    /\ UNCHANGED asked

Next ==
    \/ \E p \in Paths, createIfMissing \in BOOLEAN : Call(p, createIfMissing)
    \/ Turn

Spec == Init /\ [][Next]_vars

-----------------------------------------------------------------------------
(* Properties.                                                             *)

\* The entries of a path, as it is written.
EntriesOf(p) ==
    LET isEntry(i, j) ==
          /\ \A k \in i .. j : p[k] # Slash
          /\ i = 1 \/ p[i - 1] = Slash
          /\ j = Len(p) \/ p[j + 1] = Slash
        begins == {i \in DOMAIN p : p[i] # Slash /\ (i = 1 \/ p[i - 1] = Slash)}
        end(i) == CHOOSE j \in i .. Len(p) : isEntry(i, j)
        nth(n) == CHOOSE i \in begins :
                     Cardinality({k \in begins : k <= i}) = n
    IN  [n \in 1 .. Cardinality(begins) |-> SubSeq(p, nth(n), end(nth(n)))]

\* The names on the way from the root to a node.
PathTo(n) ==
    LET parents(k) == {i \in DOMAIN dt.nodes : k \in ToSet(dt.nodes[i].children)}
        to[k \in DOMAIN dt.nodes] ==
          IF parents(k) = {} THEN <<>>
          ELSE Append(to[CHOOSE i \in parents(k) : TRUE], GetName(dt, k))
    IN  to[n]

\* Entries of up to kDTMaxEntryNameLength - 1 characters.
Short(p) == \A n \in DOMAIN EntriesOf(p) :
               Len(EntriesOf(p)[n]) < kDTMaxEntryNameLength

\* The answer is the one node at the path, however the slashes are written
\* and whatever was found or made before; there is none only if it was not
\* to be made, or could not be.  No node that can be found is made twice.
FindsByPath ==
    /\ pc = "idle" /\ Short(asked.path) =>
          LET at == {n \in DOMAIN dt.nodes :
                        PathTo(n) = EntriesOf(asked.path)}
          IN  /\ node # NULL /\ dt.room > 0 => at = {node}
              /\ node = NULL =>
                    /\ at = {}
                    /\ asked.createIfMissing => dt.room = 0
    /\ \A n, k \in DOMAIN dt.nodes :
          PathTo(n) = PathTo(k) /\ n # k => <<"(null)">> \in ToSet(PathTo(n))
=============================================================================
