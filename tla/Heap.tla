-------------------------------- MODULE Heap --------------------------------
(***************************************************************************)
(* What malloc, free and realloc (malloc.c) promise the rest of the loader:  *)
(* a buffer keeps its place and its contents until its owner releases or   *)
(* resizes it, and no two buffers share a cell.  Any call that takes       *)
(* memory may be refused, and then it has no effect.                       *)
(***************************************************************************)
EXTENDS Integers, Sequences

CONSTANTS
    Buffers,    \* the buffers a client may have at a time
    Requests,   \* the sizes it asks for
    Cells       \* the memory the heap hands out

NULL == 0

VARIABLES ptr, contents

vars == <<ptr, contents>>

\* A buffer of no cells still has a place of its own.
Extent(b) ==
    IF ptr[b] = NULL THEN {}
    ELSE IF contents[b] = <<>> THEN {ptr[b]}
    ELSE ptr[b] .. (ptr[b] + Len(contents[b]) - 1)

\* The owner has filled a new buffer, or the end of one that grew.
Filled(b, kept, n) == [k \in 1 .. n |-> IF k <= Len(kept) THEN kept[k] ELSE b]

Init ==
    /\ ptr = [b \in Buffers |-> NULL]
    /\ contents = [b \in Buffers |-> <<>>]

\* b gets n cells that are no other buffer's, at a place of the heap's
\* choice, and they start with what it kept.
Place(b, kept, n) ==
    /\ \E p \in Cells : ptr' = [ptr EXCEPT ![b] = p]
    /\ contents' = [contents EXCEPT ![b] = Filled(b, kept, n)]
    /\ Extent(b)' \subseteq Cells
    /\ \A c \in Buffers \ {b} : Extent(b)' \cap Extent(c) = {}

Malloc(b, n) ==
    /\ ptr[b] = NULL
    /\ Place(b, <<>>, n)

Free(b) ==
    /\ ptr[b] # NULL
    /\ ptr' = [ptr EXCEPT ![b] = NULL]
    /\ contents' = [contents EXCEPT ![b] = <<>>]

Realloc(b, n) ==
    /\ ptr[b] # NULL
    /\ Place(b, contents[b], n)

Next ==
    \E b \in Buffers :
        \/ Free(b)
        \/ \E n \in Requests : Malloc(b, n) \/ Realloc(b, n)

Spec == Init /\ [][Next]_vars
=============================================================================
