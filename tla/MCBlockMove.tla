---------------------------- MODULE MCBlockMove ----------------------------
(***************************************************************************)
(* Lengths on both sides of every one the code compares with; starts at    *)
(* every place of a word and several of 32 bytes; ranges apart, adjacent,  *)
(* and overlapping either way by distances on both sides of 2 and 64.      *)
(***************************************************************************)
EXTENDS BlockMove

MCBefore == [x \in Addr |-> x + 1]

Lengths == {0, 1, 2, 3, 4, 7, 8, 9, 15, 16, 17, 31, 32, 35, 63, 64, 65, 79,
            96, 127, 128, 131}

Starts == {32, 33, 35, 40, 46, 48, 51}

Distances == {-131, -128, -68, -64, -63, -32, -5, -4, -2, -1, 0,
              1, 2, 3, 4, 7, 32, 63, 64, 65, 68, 128, 131}

MCRequests ==
    {q \in {[fill |-> FALSE, src |-> s, dst |-> s + d, len |-> n] :
                s \in Starts \cup {164, 165}, d \in Distances, n \in Lengths}
           \cup {[fill |-> TRUE, src |-> 0, dst |-> d, len |-> n] :
                d \in 32 .. 63, n \in Lengths} : q \in Request}
=============================================================================
