----------------------------- MODULE MCRoutines -----------------------------
(***************************************************************************)
(* An instance of Routines for TLC.                                        *)
(***************************************************************************)
EXTENDS Routines

(* Strings of characters that come close to being 0 for the test of four   *)
(* at once; the second like the first but for one place, where it ends or  *)
(* differs.  Every alignment of both, with 0s or not around them.          *)

Pattern(length) == [i \in 1 .. length |-> <<129, 1, 97>>[1 + (i % 3)]]

MCCall(fn, length, place, value, a1, a2, around, limit, ch) ==
    LET s1 == Pattern(length) \o <<0, 0, 0>>
        s2 == IF place = 0 THEN s1 ELSE [s1 EXCEPT ![place] = value]
    IN  [fn |-> fn, s1 |-> s1, s2 |-> s2, a1 |-> a1, a2 |-> a2,
         before |-> around, after |-> around, n |-> limit, c |-> ch]

MCCalls ==
    UNION {{MCCall("strcmp", length, place, value, a1, a2, around, 0, 0) :
              place \in 0 .. (length + 1), value \in {0, 2, 255},
              a1 \in 4 .. 7, a2 \in 4 .. 7, around \in {0, 1}} :
           length \in 0 .. 10}
    \cup
    UNION {{MCCall("strncmp", length, place, value, a1, a2, 0, limit, 0) :
              place \in {0, 2} \cup 14 .. (length + 1), value \in {0, 2},
              a1 \in 4 .. 7, a2 \in 4 .. 7,
              limit \in {0, 3} \cup 15 .. 23} :
           length \in {14, 18, 21}}
    \cup
    {MCCall(fn, length, 0, 0, a1, 4, around, 0, ch) :
        fn \in {"strlen", "strchr"}, length \in 0 .. 10, a1 \in 4 .. 7,
        around \in {0, 1, 128}, ch \in {0, 2, 97, 129}}

\* Texts of up to four characters, in which bytes overflow in every base.
MCNumerals == UNION {[1 .. k -> {"0", "1", "2", "7", "8", "b", "f", "x", "-", " "}] :
                        k \in 0 .. 4}

\* Texts to take apart, with delimiters that repeat, lead and end.
MCTexts == UNION {[1 .. k -> {"a", ",", ";"}] : k \in 0 .. 4}

\* Every document of up to three characters, brackets of up to four, and
\* some that nest deeper.
MCDocuments ==
    UNION {[1 .. k -> {"{", "]", "quote", "backslash", ",", "n", "x", "^"}] :
              k \in 0 .. 3}
    \cup [1 .. 4 -> {"{", "}", "[", "]", "quote", "n"}]
    \cup
    {<<"{", "quote", "n", "quote", ",", "[", "x", "x", ",", "n", "]", "}">>,
     <<"[", "[", "x", "]", ",", "{", "}", ",", "[", "]", "]", ",", "n">>,
     <<"[", "{", "n", "}", "{", "quote", "backslash", "quote", "quote", "x", "}", "x">>,
     <<"{", "[", "x", "}", "]">>, <<"[", "[", "]", "x", "]", "]">>,
     <<"{", "quote", "backslash", "backslash", "quote", ",", "x", "^", "}">>}

MCChars == {"0", "1", "2", "7", "8", "b", "f", "x", "-", " ", "a", ",", ";"}
MCDelims == {{}, {","}, {",", ";"}}
MCSecondText == <<"b", ",", "b">>
=============================================================================
