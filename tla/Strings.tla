------------------------------ MODULE Strings ------------------------------
(***************************************************************************)
(* strlen, strcmp, strncmp and strchr as the loader has them in assembly   *)
(* (strlen.S, strcmp.S, strncmp.S, strchr.S; the paths that are built      *)
(* without _ARM_ARCH_6, which nothing defines).  All but strchr go a word  *)
(* at a time where they can: they read bytes before and behind the string, *)
(* and have to see the one that is 0 among four.                           *)
(*                                                                         *)
(* An execution is one call.  Its strings are each in a memory of its own; *)
(* words are tuples of four bytes, the lowest address first.               *)
(***************************************************************************)
EXTENDS Integers, Sequences

CONSTANT Calls      \* the calls that may be made

Byte == 0 .. 255

\* s1 and s2 are what is from the strings' addresses a1 and a2 on, up to
\* behind their terminators; before and after is what is around them.  n and
\* c are the other arguments.
Call == [fn : {"strlen", "strcmp", "strncmp", "strchr"},
         s1 : Seq(Byte), s2 : Seq(Byte), a1 : Nat, a2 : Nat,
         before : Byte, after : Byte, n : Nat, c : Byte]

ASSUME CallsAssumption ==
    \A x \in Calls :
        /\ x \in Call
        /\ \E i \in DOMAIN x.s1 : x.s1[i] = 0
        /\ \E i \in DOMAIN x.s2 : x.s2[i] = 0

NULL == 0

VARIABLES
    pc,
    call,
    r0, r1,       \* the addresses the loops go on at
    n,            \* what is left of n
    ahead,        \* the bytes of s2 that are loaded and not yet compared
    loaded,       \* what the last step loaded: of which string, from, to
    result

vars == <<pc, call, r0, r1, n, ahead, loaded, result>>

\* The functions that go by n, the others having none.
Counted == call.fn = "strncmp"

Init ==
    /\ call \in Calls
    /\ pc = CASE call.fn = "strcmp"  -> "align"
              [] call.fn = "strncmp" -> IF call.n < 16 THEN "bytes" ELSE "align"
              [] call.fn = "strlen"  -> "first"
              [] call.fn = "strchr"  -> "search"
    /\ r0 = call.a1
    /\ r1 = call.a2
    /\ n = call.n
    /\ ahead = <<>>
    /\ loaded = {}
    /\ result = NULL

\* The byte at address x.
In(s, a, x) ==
    IF x < a THEN call.before
    ELSE IF x - a < Len(s) THEN s[x - a + 1] ELSE call.after

S1(x) == In(call.s1, call.a1, x)
S2(x) == In(call.s2, call.a2, x)

WordOf(S(_), x) == <<S(x), S(x + 1), S(x + 2), S(x + 3)>>

Align(x) == x - (x % 4)

Load(string, from, bytes) == [string |-> string, from |-> from, bytes |-> bytes]

\* 0x01 is put into the lowest k bytes of a word.  Mutant: into one less.
MaskedLess(word, k) ==
    [i \in 1 .. 4 |-> IF i < k /\ word[i] % 2 = 0 THEN word[i] + 1 ELSE word[i]]

Masked(word, k) ==
    [i \in 1 .. 4 |-> IF i <= k /\ word[i] % 2 = 0 THEN word[i] + 1 ELSE word[i]]

\* (word - 0x01010101) & ~word & 0x80808080, with the borrow of one byte from
\* the next, is not 0.
HasNUL(word) ==
    LET borrow[i \in 1 .. 5] ==
          IF i > 1 /\ word[i - 1] - 1 - borrow[i - 1] < 0 THEN 1 ELSE 0
    IN  \E i \in 1 .. 4 :
           (word[i] - 1 - borrow[i]) % 256 >= 128 /\ word[i] < 128

Return(value) == pc' = "done" /\ result' = value

-----------------------------------------------------------------------------
(* strcmp and strncmp.                                                     *)

\* A character of each is loaded; they are compared if the first is none.
LoadCharacters ==
    /\ r0' = r0 + 1
    /\ r1' = r1 + 1
    /\ n' = IF Counted THEN n - 1 ELSE n
    /\ loaded' = {Load("s1", r0, 1), Load("s2", r1, 1)}

Differ == S1(r0) < 1 \/ S1(r0) # S2(r1)

\* Up to the first word of s1, a character at a time.
AlignS1 ==
    /\ pc = "align"
    /\ LoadCharacters
    /\ IF Differ THEN Return(S1(r0) - S2(r1))
       ELSE /\ pc' = IF (r0 + 1) % 4 # 0 THEN "align" ELSE "preload"
            /\ UNCHANGED result
    /\ UNCHANGED <<call, ahead>>

\* The aligned word with the next character of s2, of which some is before.
Preload ==
    /\ pc = "preload"
    /\ LET k    == r1 % 4
           word == Masked(WordOf(S2, Align(r1)), k)
       IN  IF HasNUL(word)
           THEN pc' = "bytes" /\ UNCHANGED <<r1, n, ahead>>
           ELSE /\ pc' = "words"
                /\ r1' = Align(r1) + 4
                /\ n' = IF Counted THEN n - (4 - k) ELSE n
                /\ ahead' = SubSeq(word, k + 1, 4)
    /\ loaded' = {Load("s2", Align(r1), 4)}
    /\ UNCHANGED <<call, r0, result>>

\* Back to where ahead begins, and on a character at a time.
Unwind ==
    /\ r1' = r1 - Len(ahead)
    /\ n' = IF Counted THEN n + Len(ahead) ELSE n
    /\ ahead' = <<>>
    /\ pc' = "bytes"
    /\ UNCHANGED r0

NIsLessThanFour ==
    /\ pc = "words"
    /\ Counted
    /\ n < 4
    /\ Unwind
    /\ loaded' = {}
    /\ UNCHANGED <<call, result>>

\* The next aligned words; of s2's, those behind the ahead complete a word
\* to compare.  Mutant: n is not looked at.
WordCompareEndless ==
    /\ pc = "words"
    /\ LET word == WordOf(S2, r1)
           whole == ahead \o SubSeq(word, 1, 4 - Len(ahead))
       IN  IF HasNUL(word) \/ WordOf(S1, r0) # whole THEN Unwind
           ELSE /\ r0' = r0 + 4
                /\ r1' = r1 + 4
                /\ n' = IF Counted THEN n - 4 ELSE n
                /\ ahead' = SubSeq(word, 5 - Len(ahead), 4)
                /\ UNCHANGED pc
    /\ loaded' = {Load("s1", r0, 4), Load("s2", r1, 4)}
    /\ UNCHANGED <<call, result>>

WordCompare ==
    /\ pc = "words"
    /\ Counted => n >= 4
    /\ LET word == WordOf(S2, r1)
           whole == ahead \o SubSeq(word, 1, 4 - Len(ahead))
       IN  IF HasNUL(word) \/ WordOf(S1, r0) # whole THEN Unwind
           ELSE /\ r0' = r0 + 4
                /\ r1' = r1 + 4
                /\ n' = IF Counted THEN n - 4 ELSE n
                /\ ahead' = SubSeq(word, 5 - Len(ahead), 4)
                /\ UNCHANGED pc
    /\ loaded' = {Load("s1", r0, 4), Load("s2", r1, 4)}
    /\ UNCHANGED <<call, result>>

NIsZero ==
    /\ pc = "bytes"
    /\ Counted
    /\ n = 0
    /\ Return(0)
    /\ loaded' = {}
    /\ UNCHANGED <<call, r0, r1, n, ahead>>

ByteCompare ==
    /\ pc = "bytes"
    /\ Counted => n > 0
    /\ LoadCharacters
    /\ IF Differ THEN Return(S1(r0) - S2(r1)) ELSE UNCHANGED <<pc, result>>
    /\ UNCHANGED <<call, ahead>>

-----------------------------------------------------------------------------
(* strlen and strchr.                                                      *)

\* The characters of a word before the first that is 0; the fourth is not
\* looked at.
BeforeNUL(word) ==
    CHOOSE i \in 0 .. 3 :
        /\ \A j \in 1 .. i : word[j] # 0
        /\ i < 3 => word[i + 1] = 0

\* The word at r0, or when some of it is before s1, with that masked.
Strlen ==
    /\ pc \in {"first", "rest"}
    /\ LET at   == Align(r0)
           word == IF pc = "first" THEN Masked(WordOf(S1, at), r0 % 4)
                   ELSE WordOf(S1, at)
       IN  /\ r0' = at + 4
           /\ IF HasNUL(word) THEN Return(at - call.a1 + BeforeNUL(word))
              ELSE pc' = "rest" /\ UNCHANGED result
           /\ loaded' = {Load("s1", at, 4)}
    /\ UNCHANGED <<call, r1, n, ahead>>

Strchr ==
    /\ pc = "search"
    /\ r0' = r0 + 1
    /\ loaded' = {Load("s1", r0, 1)}
    /\ IF S1(r0) = call.c THEN Return(r0)
       ELSE IF S1(r0) = 0 THEN Return(NULL)
       ELSE UNCHANGED <<pc, result>>
    /\ UNCHANGED <<call, r1, n, ahead>>

Next ==
    \/ AlignS1 \/ Preload \/ NIsLessThanFour \/ WordCompare
    \/ NIsZero \/ ByteCompare
    \/ Strlen \/ Strchr

Spec == Init /\ [][Next]_vars

-----------------------------------------------------------------------------
(* Properties.                                                             *)

Lowest(S) == CHOOSE i \in S : \A j \in S : i <= j

\* The length of a string, and the number of characters before the first
\* where two end or differ.
Length(s) == Lowest({i \in DOMAIN s : s[i] = 0}) - 1

Parting == Lowest({i \in DOMAIN call.s1 \cap DOMAIN call.s2 :
                     call.s1[i] = 0 \/ call.s1[i] # call.s2[i]}) - 1

\* What the functions are to return: the difference of the first characters
\* that do not match, if there are such among the first n (strncmp.S:30-32),
\* the number of characters before the terminator, and the address of the
\* first c, the terminator being one (strchr.S:24-28).
Answer ==
    CASE call.fn = "strcmp"
           -> call.s1[Parting + 1] - call.s2[Parting + 1]
      [] call.fn = "strncmp"
           -> IF Parting >= call.n THEN 0
              ELSE call.s1[Parting + 1] - call.s2[Parting + 1]
      [] call.fn = "strlen"
           -> Length(call.s1)
      [] call.fn = "strchr"
           -> LET found == {i \in 0 .. Length(call.s1) :
                               call.s1[i + 1] = call.c}
              IN  IF found = {} THEN NULL ELSE call.a1 + Lowest(found)

\* Whatever the alignments of the strings, and whatever bytes are before and
\* behind them, a call returns its answer.
Answers == pc = "done" => result = Answer

\* Words are loaded from where words are, which with the caches and the MMU
\* off is necessary, and nothing is loaded that has no byte of the string, up
\* to its terminator or its first n: it might be in no memory.
LoadsSound ==
    \A l \in loaded :
        LET a    == IF l.string = "s1" THEN call.a1 ELSE call.a2
            size == Length(IF l.string = "s1" THEN call.s1 ELSE call.s2) + 1
            end  == a + (IF Counted /\ call.n < size THEN call.n ELSE size)
        IN  /\ l.from % l.bytes = 0
            /\ l.from < end /\ l.from + l.bytes > a
=============================================================================
