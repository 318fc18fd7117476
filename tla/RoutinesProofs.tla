---------------------------- MODULE RoutinesProofs ---------------------------
(***************************************************************************)
(* strlen, strcmp, strncmp and strchr return what they are to, for strings *)
(* of every length and bytes, at every alignment, whatever is around them, *)
(* and load nothing that has no byte of the string; and strtok returns the *)
(* pieces of a text, for every text and whatever delimiters each call has. *)
(***************************************************************************)
EXTENDS Routines, Induction, SequenceTheorems

-----------------------------------------------------------------------------
(* The inductive invariant.                                                *)

\* The first k characters of the strings are the same, and none is 0.
SameUpTo(k) ==
    \A j \in 0 .. (k - 1) :
        /\ S1(call.a1 + j) # 0
        /\ S1(call.a1 + j) = S2(call.a2 + j)

\* How many characters have been compared, and n after as many.
Compared == r0 - call.a1

NLeft == Counted => n = call.n - (r1 - call.a2) /\ n >= 0

\* At "align" fewer characters have been compared than r0 is behind a word:
\* no more than n's 16 are gone when the words begin.
AtAlign ==
    pc = "align" =>
        /\ call.fn \in {"strcmp", "strncmp"}
        /\ Compared <= r0 % 4
        /\ Counted => call.n >= 16

AtPreload ==
    pc = "preload" =>
        /\ call.fn \in {"strcmp", "strncmp"}
        /\ Compared <= 4
        /\ r0 % 4 = 0
        /\ Counted => call.n >= 16

\* At "words" the bytes that are ahead are the next ones of s2.
AtWords ==
    pc = "words" =>
        /\ call.fn \in {"strcmp", "strncmp"}
        /\ r0 % 4 = 0 /\ r1 % 4 = 0
        /\ ahead \in Seq(Byte) /\ Len(ahead) \in 1 .. 4
        /\ r1 = call.a2 + Compared + Len(ahead)
        /\ \A i \in 1 .. Len(ahead) :
              ahead[i] = S2(call.a2 + Compared + i - 1) /\ ahead[i] # 0

AtBytes == pc = "bytes" => call.fn \in {"strcmp", "strncmp"}

Comparing ==
    /\ pc \in {"align", "preload", "words", "bytes"} =>
          Compared >= 0 /\ SameUpTo(Compared) /\ NLeft
    /\ pc \in {"align", "preload", "bytes"} =>
          ahead = <<>> /\ r1 = call.a2 + Compared

\* strlen and strchr have passed no 0, strchr no c.
AtSearch ==
    /\ pc = "first" => call.fn = "strlen" /\ r0 = call.a1
    /\ pc = "rest" => call.fn = "strlen" /\ r0 % 4 = 0 /\ r0 >= call.a1
    /\ pc = "search" => /\ call.fn = "strchr" /\ r0 >= call.a1
                        /\ \A x \in call.a1 .. (r0 - 1) : S1(x) # call.c
    /\ pc \in {"first", "rest", "search"} =>
          \A x \in call.a1 .. (r0 - 1) : S1(x) # 0

StringsInv ==
    /\ call \in Calls
    /\ pc \in {"align", "preload", "words", "bytes", "first", "rest",
               "search", "done"}
    /\ {r0, r1} \subseteq Nat
    /\ n \in Int
    /\ Comparing
    /\ AtAlign /\ AtPreload /\ AtWords /\ AtBytes
    /\ AtSearch
    /\ Answers
    /\ LoadsSound

-----------------------------------------------------------------------------
(* The test for a 0 among four bytes.                                      *)

\* The borrows of the subtraction: there is a function as HasNUL defines it.
Borrows(word, f) ==
    f = [i \in 1 .. 5 |->
            IF i > 1 /\ word[i - 1] - 1 - f[i - 1] < 0 THEN 1 ELSE 0]

LEMMA BorrowsExist ==
  ASSUME NEW word
  PROVE  \E f : Borrows(word, f)
<1> DEFINE b2 == IF word[1] - 1 - 0 < 0 THEN 1 ELSE 0
           b3 == IF word[2] - 1 - b2 < 0 THEN 1 ELSE 0
           b4 == IF word[3] - 1 - b3 < 0 THEN 1 ELSE 0
           b5 == IF word[4] - 1 - b4 < 0 THEN 1 ELSE 0
           f  == [i \in 1 .. 5 |-> IF i = 1 THEN 0 ELSE IF i = 2 THEN b2
                                   ELSE IF i = 3 THEN b3
                                   ELSE IF i = 4 THEN b4 ELSE b5]
<1>1. /\ f[1] = 0
      /\ f[2] = IF word[1] - 1 - f[1] < 0 THEN 1 ELSE 0
      /\ f[3] = IF word[2] - 1 - f[2] < 0 THEN 1 ELSE 0
      /\ f[4] = IF word[3] - 1 - f[3] < 0 THEN 1 ELSE 0
      /\ f[5] = IF word[4] - 1 - f[4] < 0 THEN 1 ELSE 0
  OBVIOUS
<1>2. f = [i \in 1 .. 5 |-> f[i]]
  OBVIOUS
<1> HIDE DEF f
<1>3. \A i \in 1 .. 5 :
         f[i] = IF i > 1 /\ word[i - 1] - 1 - f[i - 1] < 0 THEN 1 ELSE 0
  <2>1. \A i \in 1 .. 5 : i = 1 \/ i = 2 \/ i = 3 \/ i = 4 \/ i = 5
    OBVIOUS
  <2> QED
    BY <1>1, <2>1
<1>4. Borrows(word, f)
  BY <1>2, <1>3 DEF Borrows
<1> QED
  BY <1>4

\* HasNUL is true of the words with a 0 in them, and of no others: below the
\* lowest 0 nothing is borrowed, and without one nothing at all.
LEMMA NulFound ==
  ASSUME NEW word \in [1 .. 4 -> Byte]
  PROVE  HasNUL(word) <=> \E i \in 1 .. 4 : word[i] = 0
<1> DEFINE b == CHOOSE f : Borrows(word, f)
<1>1. Borrows(word, b)
  BY BorrowsExist
<1>2. HasNUL(word) <=>
         \E i \in 1 .. 4 : (word[i] - 1 - b[i]) % 256 >= 128 /\ word[i] < 128
  BY DEF HasNUL, Borrows
<1> HIDE DEF b
<1>3. \A i \in 1 .. 5 :
         b[i] = IF i > 1 /\ word[i - 1] - 1 - b[i - 1] < 0 THEN 1 ELSE 0
  BY <1>1 DEF Borrows
<1>4. /\ b[1] = 0
      /\ b[2] = IF word[1] - 1 - b[1] < 0 THEN 1 ELSE 0
      /\ b[3] = IF word[2] - 1 - b[2] < 0 THEN 1 ELSE 0
      /\ b[4] = IF word[3] - 1 - b[3] < 0 THEN 1 ELSE 0
  BY <1>3
<1>5. {word[1], word[2], word[3], word[4]} \subseteq 0 .. 255
  BY DEF Byte
<1>6. \A i \in 1 .. 4 : i = 1 \/ i = 2 \/ i = 3 \/ i = 4
  OBVIOUS
<1>7. CASE \E i \in 1 .. 4 : word[i] = 0
  <2>1. \E i \in 1 .. 4 : word[i] = 0 /\ b[i] = 0
    BY <1>4, <1>5, <1>6, <1>7
  <2>2. PICK i \in 1 .. 4 : word[i] = 0 /\ b[i] = 0
    BY <2>1
  <2>3. (word[i] - 1 - b[i]) % 256 = 255
    <3>1. word[i] - 1 - b[i] \in Int /\ word[i] - 1 - b[i] < 0
          /\ word[i] - 1 - b[i] > -2
      BY <2>2
    <3>2. \A x \in Int : x < 0 /\ x > -2 => x % 256 = 255
      OBVIOUS
    <3> QED
      BY <3>1, <3>2
  <2> QED
    BY <1>2, <1>7, <2>2, <2>3
<1>8. CASE \A i \in 1 .. 4 : word[i] # 0
  <2>1. b[1] = 0 /\ b[2] = 0 /\ b[3] = 0 /\ b[4] = 0
    BY <1>4, <1>5, <1>8
  <2>2. ASSUME NEW i \in 1 .. 4 PROVE word[i] \in 1 .. 255 /\ b[i] = 0
    BY <1>5, <1>6, <1>8, <2>1
  <2>3. ASSUME NEW i \in 1 .. 4
        PROVE  (word[i] - 1 - b[i]) % 256 = word[i] - 1
    BY <2>2
  <2> QED
    BY <1>2, <1>8, <2>2, <2>3
<1> QED
  BY <1>7, <1>8

\* Masking leaves the bytes above alone, and none of those below 0.
LEMMA MaskedBytes ==
  ASSUME NEW word \in [1 .. 4 -> Byte], NEW k \in 0 .. 3
  PROVE  /\ Masked(word, k) \in [1 .. 4 -> Byte]
         /\ \A i \in 1 .. 4 : IF i <= k THEN Masked(word, k)[i] # 0
                              ELSE Masked(word, k)[i] = word[i]
<1>1. ASSUME NEW i \in 1 .. 4
      PROVE  LET m == IF i <= k /\ word[i] % 2 = 0 THEN word[i] + 1 ELSE word[i]
             IN  m \in 0 .. 255 /\ IF i <= k THEN m # 0 ELSE m = word[i]
  <2>1. word[i] \in 0 .. 255
    BY DEF Byte
  <2>2. word[i] % 2 = 0 => word[i] # 255
    BY <2>1
  <2>3. word[i] % 2 # 0 => word[i] # 0
    BY <2>1
  <2> QED
    BY <2>1, <2>2, <2>3
<1> QED
  BY <1>1 DEF Masked, Byte

-----------------------------------------------------------------------------
(* The strings and where they end.                                         *)

\* What CallsAssumption says of the call.
LEMMA CallType ==
  ASSUME call \in Calls
  PROVE  /\ call.fn \in {"strlen", "strcmp", "strncmp", "strchr"}
         /\ call.s1 \in Seq(Byte) /\ call.s2 \in Seq(Byte)
         /\ call.a1 \in Nat /\ call.a2 \in Nat /\ call.n \in Nat
         /\ call.before \in Byte /\ call.after \in Byte /\ call.c \in Byte
         /\ \E i \in DOMAIN call.s1 : call.s1[i] = 0
         /\ \E i \in DOMAIN call.s2 : call.s2[i] = 0
<1>1. call \in Call
  BY CallsAssumption
<1> QED
  BY <1>1, CallsAssumption DEF Call

LEMMA InString ==
  ASSUME NEW z \in Seq(Byte), NEW a \in Nat, call \in Calls
  PROVE  /\ \A x \in Int : In(z, a, x) \in Byte
         /\ \A k \in 0 .. (Len(z) - 1) : In(z, a, a + k) = z[k + 1]
<1>1. ASSUME NEW x \in Int PROVE In(z, a, x) \in Byte
  <2>1. CASE x >= a /\ x - a < Len(z)
    <3>1. x - a + 1 \in 1 .. Len(z)
      BY <2>1
    <3> QED
      BY <2>1, <3>1 DEF In
  <2>2. CASE ~(x >= a /\ x - a < Len(z))
    BY <2>2, CallType DEF In
  <2> QED
    BY <2>1, <2>2
<1>2. ASSUME NEW k \in 0 .. (Len(z) - 1)
      PROVE  In(z, a, a + k) = z[k + 1]
  <2>1. a + k \in Nat /\ ~(a + k < a) /\ (a + k) - a = k /\ k < Len(z)
    OBVIOUS
  <2> QED
    BY <2>1 DEF In
<1> QED
  BY <1>1, <1>2

LEMMA LowestIs ==
  ASSUME NEW S \in SUBSET Nat, S # {}
  PROVE  Lowest(S) \in S /\ \A j \in S : Lowest(S) <= j
<1>1. \E i \in S : \A j \in S : i <= j
  BY Least
<1> QED
  BY <1>1 DEF Lowest

LEMMA LengthIs ==
  ASSUME NEW z \in Seq(Byte), \E i \in DOMAIN z : z[i] = 0
  PROVE  /\ Length(z) \in 0 .. (Len(z) - 1)
         /\ z[Length(z) + 1] = 0
         /\ \A i \in 1 .. Length(z) : z[i] # 0
<1> DEFINE Z == {i \in DOMAIN z : z[i] = 0}
           m == Lowest(Z)
<1>1. Z \in SUBSET Nat /\ Z # {} /\ DOMAIN z = 1 .. Len(z)
  OBVIOUS
<1>2. m \in Z /\ \A j \in Z : m <= j
  <2> HIDE DEF Z
  <2> QED
    BY <1>1, LowestIs
<1>3. Length(z) = m - 1
  BY DEF Length
<1> HIDE DEF m
<1>4. m \in 1 .. Len(z) /\ z[m] = 0
  BY <1>1, <1>2
<1>5. ASSUME NEW i \in 1 .. (m - 1) PROVE z[i] # 0
  <2>1. i \in DOMAIN z /\ ~(m <= i)
    BY <1>1, <1>4
  <2> QED
    BY <1>2, <2>1
<1> QED
  BY <1>3, <1>4, <1>5

\* The terminator of a string, and that nobody passes it who has seen no 0.
LEMMA EndOfString ==
  ASSUME call \in Calls, NEW z \in Seq(Byte), NEW a \in Nat,
         \E i \in DOMAIN z : z[i] = 0
  PROVE  /\ Length(z) \in Nat
         /\ In(z, a, a + Length(z)) = 0
         /\ \A j \in 0 .. (Length(z) - 1) : In(z, a, a + j) # 0
         /\ \A k \in Nat :
               (\A j \in 0 .. (k - 1) : In(z, a, a + j) # 0) => k <= Length(z)
<1>1. /\ Length(z) \in 0 .. (Len(z) - 1)
      /\ z[Length(z) + 1] = 0
      /\ \A i \in 1 .. Length(z) : z[i] # 0
  BY LengthIs
<1>2. \A k \in 0 .. (Len(z) - 1) : In(z, a, a + k) = z[k + 1]
  BY InString
<1>3. In(z, a, a + Length(z)) = 0
  BY <1>1, <1>2
<1>4. ASSUME NEW j \in 0 .. (Length(z) - 1) PROVE In(z, a, a + j) # 0
  <2>1. j \in 0 .. (Len(z) - 1) /\ j + 1 \in 1 .. Length(z)
    BY <1>1
  <2> QED
    BY <1>1, <1>2, <2>1
<1>5. ASSUME NEW k \in Nat, \A j \in 0 .. (k - 1) : In(z, a, a + j) # 0
      PROVE  k <= Length(z)
  <2>1. CASE Length(z) < k
    <3>1. Length(z) \in 0 .. (k - 1)
      BY <1>1, <2>1
    <3> QED
      BY <1>3, <1>5, <3>1
  <2> QED
    BY <1>1, <2>1
<1> QED
  BY <1>1, <1>3, <1>4, <1>5

LEMMA Terminated ==
  ASSUME call \in Calls
  PROVE  /\ Length(call.s1) \in Nat
         /\ S1(call.a1 + Length(call.s1)) = 0
         /\ \A k \in Nat : (\A j \in 0 .. (k - 1) : S1(call.a1 + j) # 0)
                              => k <= Length(call.s1)
         /\ Length(call.s2) \in Nat
         /\ S2(call.a2 + Length(call.s2)) = 0
         /\ \A k \in Nat : (\A j \in 0 .. (k - 1) : S2(call.a2 + j) # 0)
                              => k <= Length(call.s2)
BY CallType, EndOfString DEF S1, S2

\* The character at Parting is the first where the strings end or differ.
LEMMA PartingIs ==
  ASSUME call \in Calls, NEW k \in Nat, SameUpTo(k)
  PROVE  /\ Parting \in Nat /\ Parting >= k
         /\ S1(call.a1 + k) = 0 \/ S1(call.a1 + k) # S2(call.a2 + k)
              => /\ Parting = k
                 /\ call.s1[k + 1] = S1(call.a1 + k)
                 /\ call.s2[k + 1] = S2(call.a2 + k)
<1> DEFINE l1 == Length(call.s1)
           l2 == Length(call.s2)
           P  == {i \in DOMAIN call.s1 \cap DOMAIN call.s2 :
                     call.s1[i] = 0 \/ call.s1[i] # call.s2[i]}
           m  == Lowest(P)
<1>1. /\ l1 \in 0 .. (Len(call.s1) - 1) /\ call.s1[l1 + 1] = 0
      /\ \A i \in 1 .. l1 : call.s1[i] # 0
      /\ l2 \in 0 .. (Len(call.s2) - 1) /\ call.s2[l2 + 1] = 0
      /\ \A i \in 1 .. l2 : call.s2[i] # 0
  BY CallType, LengthIs
<1>2. /\ \A j \in 0 .. (Len(call.s1) - 1) : S1(call.a1 + j) = call.s1[j + 1]
      /\ \A j \in 0 .. (Len(call.s2) - 1) : S2(call.a2 + j) = call.s2[j + 1]
  BY CallType, InString DEF S1, S2
<1>3. /\ DOMAIN call.s1 = 1 .. Len(call.s1) /\ Len(call.s1) \in Nat
      /\ DOMAIN call.s2 = 1 .. Len(call.s2) /\ Len(call.s2) \in Nat
  BY CallType
<1>4. k <= l1 /\ k <= l2
  <2>1. \A j \in 0 .. (k - 1) : S1(call.a1 + j) # 0 /\ S2(call.a2 + j) # 0
    BY DEF SameUpTo
  <2> QED
    BY <2>1, Terminated
<1> HIDE DEF l1, l2
<1>5. P \in SUBSET Nat /\ P # {}
  <2>1. CASE l1 <= l2
    <3>1. l1 + 1 \in P
      BY <1>1, <1>3, <2>1
    <3> QED
      BY <1>3, <3>1
  <2>2. CASE l2 < l1
    <3>1. l2 + 1 \in 1 .. l1
      BY <1>1, <2>2
    <3>2. l2 + 1 \in P
      BY <1>1, <1>3, <3>1
    <3> QED
      BY <1>3, <3>2
  <2> QED
    BY <1>1, <2>1, <2>2
<1>6. m \in P /\ \A j \in P : m <= j
  <2> HIDE DEF P
  <2> QED
    BY <1>5, LowestIs
<1>7. Parting = m - 1
  BY DEF Parting
<1> HIDE DEF m
<1>8. ASSUME NEW i \in 1 .. k PROVE i \notin P
  <2>1. /\ i - 1 \in 0 .. (k - 1) /\ (i - 1) + 1 = i
        /\ i - 1 \in 0 .. (Len(call.s1) - 1) /\ i - 1 \in 0 .. (Len(call.s2) - 1)
    BY <1>1, <1>3, <1>4
  <2>2. call.s1[i] # 0 /\ call.s1[i] = call.s2[i]
    BY <1>2, <2>1 DEF SameUpTo
  <2> QED
    BY <2>2
<1>9. m \in Nat /\ m >= 1
  BY <1>3, <1>6
<1>10. m > k
  BY <1>6, <1>8, <1>9
<1>11. ASSUME S1(call.a1 + k) = 0 \/ S1(call.a1 + k) # S2(call.a2 + k)
       PROVE  /\ m <= k + 1
              /\ call.s1[k + 1] = S1(call.a1 + k)
              /\ call.s2[k + 1] = S2(call.a2 + k)
  <2>1. k \in 0 .. (Len(call.s1) - 1) /\ k \in 0 .. (Len(call.s2) - 1)
    BY <1>1, <1>3, <1>4
  <2>2. /\ call.s1[k + 1] = S1(call.a1 + k)
        /\ call.s2[k + 1] = S2(call.a2 + k)
    BY <1>2, <2>1
  <2>3. k + 1 \in P
    BY <1>3, <1>11, <2>1, <2>2
  <2> QED
    BY <1>6, <2>2, <2>3
<1> QED
  BY <1>7, <1>9, <1>10, <1>11

-----------------------------------------------------------------------------
(* What may be loaded.                                                     *)

SoundLoad(l) ==
    LET a    == IF l.string = "s1" THEN call.a1 ELSE call.a2
        size == Length(IF l.string = "s1" THEN call.s1 ELSE call.s2) + 1
        end  == a + (IF Counted /\ call.n < size THEN call.n ELSE size)
    IN  /\ l.from % l.bytes = 0
        /\ l.from < end /\ l.from + l.bytes > a

\* A load that reaches up to a character behind k others that are not 0, or
\* lies before it, and does not lie before the string.
LEMMA SoundFirst ==
  ASSUME call \in Calls, NEW k \in Nat, NEW from \in Int, NEW bytes \in {1, 4},
         \A j \in 0 .. (k - 1) : S1(call.a1 + j) # 0,
         Counted => k < call.n,
         from % bytes = 0, from <= call.a1 + k, from + bytes > call.a1
  PROVE  SoundLoad(Load("s1", from, bytes))
<1>1. Length(call.s1) \in Nat /\ k <= Length(call.s1)
  BY Terminated
<1>2. call.a1 \in Nat /\ call.n \in Nat
  BY CallType
<1> DEFINE size == Length(call.s1) + 1
           end  == call.a1 + (IF Counted /\ call.n < size THEN call.n ELSE size)
<1>3. from < end
  BY <1>1, <1>2
<1> QED
  BY <1>3 DEF SoundLoad, Load

LEMMA SoundSecond ==
  ASSUME call \in Calls, NEW k \in Nat, NEW from \in Int, NEW bytes \in {1, 4},
         \A j \in 0 .. (k - 1) : S2(call.a2 + j) # 0,
         Counted => k < call.n,
         from % bytes = 0, from <= call.a2 + k, from + bytes > call.a2
  PROVE  SoundLoad(Load("s2", from, bytes))
<1>1. Length(call.s2) \in Nat /\ k <= Length(call.s2)
  BY Terminated
<1>2. call.a2 \in Nat /\ call.n \in Nat
  BY CallType
<1> DEFINE size == Length(call.s2) + 1
           end  == call.a2 + (IF Counted /\ call.n < size THEN call.n ELSE size)
<1>3. from < end
  BY <1>1, <1>2
<1> QED
  BY <1>3 DEF SoundLoad, Load

LEMMA LoadsAreSound ==
  ASSUME call' = call, \A l \in loaded' : SoundLoad(l)
  PROVE  LoadsSound'
<1> SUFFICES ASSUME NEW l \in loaded'
             PROVE  LET a    == IF l.string = "s1" THEN call.a1 ELSE call.a2
                        size == Length(IF l.string = "s1" THEN call.s1
                                       ELSE call.s2) + 1
                        end  == a + (IF Counted /\ call.n < size THEN call.n
                                     ELSE size)
                    IN  /\ l.from % l.bytes = 0
                        /\ l.from < end /\ l.from + l.bytes > a
  BY DEF LoadsSound, Counted
<1>1. SoundLoad(l)
  OBVIOUS
<1> QED
  BY <1>1 DEF SoundLoad

-----------------------------------------------------------------------------
(* The steps of strcmp and strncmp.                                        *)

\* The last step of a call.
LEMMA ReturnKeeps ==
  ASSUME StringsInv, UNCHANGED call, pc' = "done", result' = Answer,
         {r0', r1'} \subseteq Nat, n' \in Int, LoadsSound'
  PROVE  StringsInv'
<1>1. Answer' = Answer
  BY DEF Answer, Parting, Counted
<1>2. Answers'
  BY <1>1 DEF Answers
<1>3. /\ Comparing' /\ AtAlign' /\ AtPreload' /\ AtWords' /\ AtBytes'
      /\ AtSearch'
  BY DEF Comparing, AtAlign, AtPreload, AtWords, AtBytes, AtSearch
<1>4. call' \in Calls
  BY DEF StringsInv
<1> QED
  BY <1>2, <1>3, <1>4 DEF StringsInv

\* What is compared character by character.
LEMMA CharacterStep ==
  ASSUME StringsInv, pc \in {"align", "bytes"}, LoadCharacters,
         Counted => Compared < call.n, UNCHANGED call
  PROVE  /\ {r0', r1'} \subseteq Nat /\ n' \in Int
         /\ LoadsSound'
         /\ Differ => S1(r0) - S2(r1) = Answer
         /\ ~Differ => /\ Compared' = Compared + 1 /\ Compared' >= 0
                       /\ SameUpTo(Compared)'
                       /\ r1' = call.a2 + Compared'
                       /\ NLeft'
<1> DEFINE k == r0 - call.a1
<1>0. /\ call \in Calls /\ r0 \in Nat /\ r1 \in Nat /\ n \in Int
      /\ call.a1 \in Nat /\ call.a2 \in Nat /\ call.n \in Nat
  BY CallType DEF StringsInv
<1>1. /\ k \in Nat /\ SameUpTo(k) /\ NLeft
      /\ r0 = call.a1 + k /\ r1 = call.a2 + k
      /\ call.fn \in {"strcmp", "strncmp"}
  BY <1>0 DEF StringsInv, Comparing, AtAlign, AtBytes, Compared
<1>2. Counted => k < call.n
  BY DEF Compared
<1> HIDE DEF k
<1>3. /\ r0' = r0 + 1 /\ r1' = r1 + 1
      /\ n' = IF Counted THEN n - 1 ELSE n
      /\ loaded' = {Load("s1", r0, 1), Load("s2", r1, 1)}
  BY DEF LoadCharacters
<1>4. LoadsSound'
  <2>1. \A j \in 0 .. (k - 1) : S1(call.a1 + j) # 0 /\ S2(call.a2 + j) # 0
    BY <1>1 DEF SameUpTo
  <2>2. /\ 1 \in {1, 4} /\ r0 \in Int /\ r1 \in Int
        /\ r0 % 1 = 0 /\ r0 <= call.a1 + k /\ r0 + 1 > call.a1
        /\ r1 % 1 = 0 /\ r1 <= call.a2 + k /\ r1 + 1 > call.a2
    BY <1>0, <1>1
  <2>3. SoundLoad(Load("s1", r0, 1))
    BY <1>0, <1>1, <1>2, <2>1, <2>2, SoundFirst
  <2>4. SoundLoad(Load("s2", r1, 1))
    BY <1>0, <1>1, <1>2, <2>1, <2>2, SoundSecond
  <2> QED
    BY <1>3, <2>3, <2>4, LoadsAreSound
<1>5. S1(r0) \in Byte /\ S2(r1) \in Byte
  BY <1>0, CallType, InString DEF S1, S2
<1>6. ASSUME Differ PROVE S1(r0) - S2(r1) = Answer
  <2>1. S1(call.a1 + k) = 0 \/ S1(call.a1 + k) # S2(call.a2 + k)
    BY <1>1, <1>5, <1>6 DEF Differ, Byte
  <2>2. /\ Parting = k
        /\ call.s1[k + 1] = S1(r0) /\ call.s2[k + 1] = S2(r1)
    BY <1>0, <1>1, <2>1, PartingIs
  <2>3. CASE call.fn = "strcmp"
    BY <2>2, <2>3 DEF Answer
  <2>4. CASE call.fn = "strncmp"
    <3>1. ~(Parting >= call.n)
      BY <1>0, <1>1, <1>2, <2>2, <2>4 DEF Counted
    <3> QED
      BY <2>2, <2>4, <3>1 DEF Answer
  <2> QED
    BY <1>1, <2>3, <2>4
<1>7. ASSUME ~Differ
      PROVE  /\ Compared' = Compared + 1 /\ Compared' >= 0
             /\ SameUpTo(Compared)'
             /\ r1' = call.a2 + Compared'
             /\ NLeft'
  <2>1. S1(r0) # 0 /\ S1(r0) = S2(r1)
    BY <1>5, <1>7 DEF Differ, Byte
  <2>2. Compared' = k + 1 /\ Compared = k
    BY <1>0, <1>1, <1>3 DEF Compared
  <2>3. ASSUME NEW j \in 0 .. k
        PROVE  S1(call.a1 + j) # 0 /\ S1(call.a1 + j) = S2(call.a2 + j)
    <3>1. CASE j = k
      BY <1>1, <2>1, <3>1
    <3>2. CASE j # k
      <4>1. j \in 0 .. (k - 1)
        BY <1>1, <3>2
      <4> QED
        BY <1>1, <4>1 DEF SameUpTo
    <3> QED
      BY <3>1, <3>2
  <2>4. SameUpTo(Compared)'
    <3>1. (k + 1) - 1 = k
      BY <1>1
    <3> QED
      BY <2>2, <2>3, <3>1 DEF SameUpTo, S1, S2, In
  <2>5. NLeft'
    <3>1. Counted' = Counted
      BY DEF Counted
    <3>2. Counted => n = call.n - k /\ n >= 0
      BY <1>0, <1>1 DEF NLeft
    <3> QED
      BY <1>0, <1>1, <1>2, <1>3, <3>1, <3>2 DEF NLeft
  <2> QED
    BY <1>0, <1>1, <1>3, <2>2, <2>4, <2>5
<1> QED
  BY <1>0, <1>3, <1>4, <1>6, <1>7

\* Going on with the characters, or to the words, after one was the same.
LEMMA CharacterGoesOn ==
  ASSUME StringsInv, UNCHANGED call, pc' \in {"align", "preload", "bytes"},
         call.fn \in {"strcmp", "strncmp"},
         {r0', r1'} \subseteq Nat, n' \in Int, LoadsSound',
         Compared' >= 0, SameUpTo(Compared)', NLeft',
         ahead' = <<>>, r1' = call.a2 + Compared',
         AtAlign', AtPreload'
  PROVE  StringsInv'
<1>1. Comparing'
  BY DEF Comparing
<1>2. AtWords' /\ AtBytes' /\ AtSearch' /\ Answers'
  BY DEF AtWords, AtBytes, AtSearch, Answers
<1>3. call' \in Calls
  BY DEF StringsInv
<1> QED
  BY <1>1, <1>2, <1>3 DEF StringsInv

LEMMA AlignS1Keeps ==
  ASSUME StringsInv, AlignS1
  PROVE  StringsInv'
<1> DEFINE k == r0 - call.a1
<1>0. /\ call \in Calls /\ r0 \in Nat /\ call.a1 \in Nat /\ call.n \in Nat
  BY CallType DEF StringsInv
<1>1. /\ pc = "align" /\ LoadCharacters /\ UNCHANGED <<call, ahead>>
      /\ r0' = r0 + 1
  BY DEF AlignS1, LoadCharacters
<1>2. /\ call.fn \in {"strcmp", "strncmp"} /\ Compared = k /\ k >= 0
      /\ k <= r0 % 4 /\ ahead = <<>>
      /\ Counted => call.n >= 16
  BY <1>1 DEF StringsInv, Comparing, AtAlign, Compared
<1>3. Counted => Compared < call.n
  BY <1>0, <1>2
<1>4. /\ {r0', r1'} \subseteq Nat /\ n' \in Int
      /\ LoadsSound'
      /\ Differ => S1(r0) - S2(r1) = Answer
      /\ ~Differ => /\ Compared' = Compared + 1 /\ Compared' >= 0
                    /\ SameUpTo(Compared)'
                    /\ r1' = call.a2 + Compared'
                    /\ NLeft'
  BY <1>1, <1>3, CharacterStep
<1>5. CASE Differ
  <2>1. pc' = "done" /\ result' = Answer
    BY <1>4, <1>5 DEF AlignS1, Return
  <2> QED
    BY <1>1, <1>4, <2>1, ReturnKeeps
<1>6. CASE ~Differ
  <2>1. pc' = IF (r0 + 1) % 4 # 0 THEN "align" ELSE "preload"
    BY <1>6 DEF AlignS1
  <2>2. /\ (r0 + 1) % 4 # 0 => (r0 + 1) % 4 = (r0 % 4) + 1
        /\ r0 % 4 \in 0 .. 3
    BY <1>0
  <2>3. AtAlign' /\ AtPreload'
    <3>1. Compared' = k + 1 /\ (Counted' <=> Counted)
      BY <1>1, <1>2, <1>4, <1>6 DEF Counted
    <3>2. (r0 + 1) % 4 # 0 => k + 1 <= (r0 + 1) % 4
      BY <1>0, <1>2, <2>2
    <3>3. k + 1 <= 4
      BY <1>0, <1>2, <2>2
    <3> QED
      BY <1>1, <1>2, <2>1, <3>1, <3>2, <3>3 DEF AtAlign, AtPreload
  <2>4. pc' \in {"align", "preload", "bytes"} /\ ahead' = <<>>
    BY <1>1, <1>2, <2>1
  <2> QED
    BY <1>1, <1>2, <1>4, <1>6, <2>3, <2>4, CharacterGoesOn
<1> QED
  BY <1>5, <1>6

LEMMA ByteCompareKeeps ==
  ASSUME StringsInv, ByteCompare
  PROVE  StringsInv'
<1>0. /\ call \in Calls /\ r0 \in Nat /\ r1 \in Nat /\ n \in Int
      /\ call.a1 \in Nat /\ call.a2 \in Nat /\ call.n \in Nat
  BY CallType DEF StringsInv
<1>1. /\ pc = "bytes" /\ LoadCharacters /\ UNCHANGED <<call, ahead>>
      /\ Counted => n > 0
  BY DEF ByteCompare
<1>2. /\ call.fn \in {"strcmp", "strncmp"} /\ ahead = <<>> /\ NLeft
      /\ r1 = call.a2 + Compared /\ Compared \in Int
  BY <1>0, <1>1 DEF StringsInv, Comparing, AtBytes, Compared
<1>3. Counted => Compared < call.n
  BY <1>0, <1>1, <1>2 DEF NLeft
<1>4. /\ {r0', r1'} \subseteq Nat /\ n' \in Int
      /\ LoadsSound'
      /\ Differ => S1(r0) - S2(r1) = Answer
      /\ ~Differ => /\ Compared' = Compared + 1 /\ Compared' >= 0
                    /\ SameUpTo(Compared)'
                    /\ r1' = call.a2 + Compared'
                    /\ NLeft'
  BY <1>1, <1>3, CharacterStep
<1>5. CASE Differ
  <2>1. pc' = "done" /\ result' = Answer
    BY <1>4, <1>5 DEF ByteCompare, Return
  <2> QED
    BY <1>1, <1>4, <2>1, ReturnKeeps
<1>6. CASE ~Differ
  <2>1. pc' = "bytes" /\ ahead' = <<>>
    BY <1>1, <1>2, <1>6 DEF ByteCompare
  <2>2. AtAlign' /\ AtPreload'
    BY <2>1 DEF AtAlign, AtPreload
  <2> QED
    BY <1>1, <1>2, <1>4, <1>6, <2>1, <2>2, CharacterGoesOn
<1> QED
  BY <1>5, <1>6

LEMMA NIsZeroKeeps ==
  ASSUME StringsInv, NIsZero
  PROVE  StringsInv'
<1>0. /\ call \in Calls /\ r0 \in Nat /\ r1 \in Nat /\ n \in Int
      /\ call.a1 \in Nat /\ call.a2 \in Nat /\ call.n \in Nat
  BY CallType DEF StringsInv
<1>1. /\ pc = "bytes" /\ Counted /\ n = 0 /\ pc' = "done" /\ result' = 0
      /\ loaded' = {} /\ UNCHANGED <<call, r0, r1, n>>
  BY DEF NIsZero, Return
<1>2. /\ NLeft /\ r1 = call.a2 + Compared /\ Compared \in Nat
      /\ SameUpTo(Compared)
  BY <1>0, <1>1 DEF StringsInv, Comparing, Compared
<1>3. Compared = call.n
  BY <1>0, <1>1, <1>2 DEF NLeft
<1>4. Parting >= call.n
  BY <1>0, <1>2, <1>3, PartingIs
<1>5. Answer = 0
  BY <1>1, <1>4 DEF Answer, Counted
<1>6. LoadsSound'
  BY <1>1, LoadsAreSound
<1> QED
  BY <1>0, <1>1, <1>5, <1>6, ReturnKeeps

\* Unwind goes back to characters from the words.
LEMMA UnwindKeeps ==
  ASSUME StringsInv, pc = "words", Unwind, LoadsSound', UNCHANGED call
  PROVE  StringsInv'
<1>0. /\ call \in Calls /\ r0 \in Nat /\ r1 \in Nat /\ n \in Int
      /\ call.a1 \in Nat /\ call.a2 \in Nat /\ call.n \in Nat
  BY CallType DEF StringsInv
<1>1. /\ call.fn \in {"strcmp", "strncmp"}
      /\ Len(ahead) \in 1 .. 4
      /\ r1 = call.a2 + Compared + Len(ahead)
      /\ Compared \in Nat /\ SameUpTo(Compared) /\ NLeft
  BY <1>0 DEF StringsInv, Comparing, AtWords, Compared
<1>2. /\ r1' = r1 - Len(ahead) /\ r0' = r0 /\ pc' = "bytes" /\ ahead' = <<>>
      /\ n' = IF Counted THEN n + Len(ahead) ELSE n
  BY DEF Unwind
<1>3. Compared' = Compared
  BY <1>2 DEF Compared
<1>4. {r0', r1'} \subseteq Nat /\ n' \in Int /\ r1' = call.a2 + Compared'
  BY <1>0, <1>1, <1>2, <1>3
<1>5. SameUpTo(Compared)'
  BY <1>1, <1>3 DEF SameUpTo, S1, S2, In
<1>6. NLeft'
  <2>1. (Counted' <=> Counted) /\ call' = call
    BY DEF Counted
  <2>2. Counted => n = call.n - (r1 - call.a2) /\ n >= 0
    BY <1>1 DEF NLeft
  <2>3. Len(ahead) \in Nat
    BY <1>1
  <2>4. Counted => n' = call.n - (r1' - call.a2) /\ n' >= 0
    BY <1>0, <1>2, <2>2, <2>3
  <2> QED
    BY <2>1, <2>4 DEF NLeft
<1>7. AtAlign' /\ AtPreload'
  BY <1>2 DEF AtAlign, AtPreload
<1>8. Compared' >= 0
  BY <1>1, <1>3
<1> QED
  BY <1>1, <1>2, <1>4, <1>5, <1>6, <1>7, <1>8, CharacterGoesOn

LEMMA NIsLessThanFourKeeps ==
  ASSUME StringsInv, NIsLessThanFour
  PROVE  StringsInv'
<1>1. pc = "words" /\ Unwind /\ loaded' = {} /\ UNCHANGED call
  BY DEF NIsLessThanFour
<1>2. LoadsSound'
  BY <1>1, LoadsAreSound
<1> QED
  BY <1>1, <1>2, UnwindKeeps

\* The words of a string's bytes.
LEMMA WordOfBytes ==
  ASSUME call \in Calls, NEW x \in Int
  PROVE  /\ WordOf(S1, x) \in [1 .. 4 -> Byte]
         /\ \A i \in 1 .. 4 : WordOf(S1, x)[i] = S1(x + i - 1)
         /\ WordOf(S2, x) \in [1 .. 4 -> Byte]
         /\ \A i \in 1 .. 4 : WordOf(S2, x)[i] = S2(x + i - 1)
<1>1. \A y \in Int : S1(y) \in Byte /\ S2(y) \in Byte
  BY CallType, InString DEF S1, S2
<1>2. /\ x + 1 - 1 = x /\ x + 2 - 1 = x + 1 /\ x + 3 - 1 = x + 2
      /\ x + 4 - 1 = x + 3
      /\ {x, x + 1, x + 2, x + 3} \subseteq Int
  OBVIOUS
<1>3. \A i \in 1 .. 4 : i = 1 \/ i = 2 \/ i = 3 \/ i = 4
  OBVIOUS
<1>4. /\ DOMAIN WordOf(S1, x) = 1 .. 4
      /\ WordOf(S1, x) = [i \in 1 .. 4 |-> WordOf(S1, x)[i]]
      /\ \A i \in 1 .. 4 : WordOf(S1, x)[i] = S1(x + i - 1)
  BY <1>2, <1>3 DEF WordOf
<1>5. /\ DOMAIN WordOf(S2, x) = 1 .. 4
      /\ WordOf(S2, x) = [i \in 1 .. 4 |-> WordOf(S2, x)[i]]
      /\ \A i \in 1 .. 4 : WordOf(S2, x)[i] = S2(x + i - 1)
  BY <1>2, <1>3 DEF WordOf
<1>6. \A i \in 1 .. 4 : x + i - 1 \in Int
  OBVIOUS
<1> HIDE DEF WordOf
<1> QED
  BY <1>1, <1>4, <1>5, <1>6

\* The ends of words as sequences.
LEMMA Tails ==
  ASSUME NEW word \in [1 .. 4 -> Byte], NEW k \in 0 .. 3
  PROVE  /\ SubSeq(word, k + 1, 4) \in Seq(Byte)
         /\ Len(SubSeq(word, k + 1, 4)) = 4 - k
         /\ \A i \in 1 .. (4 - k) : SubSeq(word, k + 1, 4)[i] = word[k + i]
<1>1. \A i \in (k + 1) .. 4 : word[i] \in Byte
  OBVIOUS
<1>2. /\ SubSeq(word, k + 1, 4) \in Seq(Byte)
      /\ Len(SubSeq(word, k + 1, 4)) = IF k + 1 <= 4 THEN 4 - (k + 1) + 1 ELSE 0
      /\ \A i \in 1 .. (4 - (k + 1) + 1) :
            SubSeq(word, k + 1, 4)[i] = word[(k + 1) + i - 1]
  <2>1. k + 1 \in Int /\ 4 \in Int
    OBVIOUS
  <2> QED
    BY <1>1, <2>1, SubSeqProperties
<1>3. k + 1 <= 4 /\ 4 - (k + 1) + 1 = 4 - k
  OBVIOUS
<1>4. \A i \in 1 .. (4 - k) : (k + 1) + i - 1 = k + i
  OBVIOUS
<1> QED
  BY <1>2, <1>3, <1>4

LEMMA AlignIs ==
  ASSUME NEW x \in Nat
  PROVE  /\ x % 4 \in 0 .. 3
         /\ Align(x) \in Nat /\ Align(x) % 4 = 0 /\ Align(x) = x - (x % 4)
BY DEF Align

LEMMA PreloadKeeps ==
  ASSUME StringsInv, Preload
  PROVE  StringsInv'
<1> DEFINE k == r1 % 4
           lo == Align(r1)
           raw == WordOf(S2, lo)
           word == Masked(raw, k)
           c == Compared
<1>0. /\ call \in Calls /\ r0 \in Nat /\ r1 \in Nat /\ n \in Int
      /\ call.a1 \in Nat /\ call.a2 \in Nat /\ call.n \in Nat
  BY CallType DEF StringsInv
<1>1. /\ pc = "preload" /\ UNCHANGED <<call, r0, result>>
      /\ loaded' = {Load("s2", lo, 4)}
      /\ IF HasNUL(word)
         THEN pc' = "bytes" /\ UNCHANGED <<r1, n, ahead>>
         ELSE /\ pc' = "words"
              /\ r1' = lo + 4
              /\ n' = IF Counted THEN n - (4 - k) ELSE n
              /\ ahead' = SubSeq(word, k + 1, 4)
  BY DEF Preload
<1>2. /\ call.fn \in {"strcmp", "strncmp"} /\ c \in 0 .. 4
      /\ Counted => call.n >= 16
      /\ SameUpTo(c) /\ NLeft /\ ahead = <<>> /\ r1 = call.a2 + c
  BY <1>0, <1>1 DEF StringsInv, Comparing, AtPreload, Compared
<1>a. r0 % 4 = 0
  BY <1>1 DEF StringsInv, AtPreload
<1>3. Compared' = c
  BY <1>1 DEF Compared
<1> HIDE DEF c
<1>4. k \in 0 .. 3 /\ lo \in Nat /\ lo = r1 - k
  BY <1>0, AlignIs
<1>b. lo % 4 = 0
  BY <1>0, AlignIs
<1>5. /\ raw \in [1 .. 4 -> Byte]
      /\ \A i \in 1 .. 4 : raw[i] = S2(lo + i - 1)
  <2>1. lo \in Int
    BY <1>4
  <2> HIDE DEF lo
  <2> QED
    BY <1>0, <2>1, WordOfBytes
<1> HIDE DEF k, lo, raw
<1>6. /\ word \in [1 .. 4 -> Byte]
      /\ \A i \in 1 .. 4 : i > k => word[i] = raw[i]
  <2>1. /\ word \in [1 .. 4 -> Byte]
        /\ \A i \in 1 .. 4 : IF i <= k THEN word[i] # 0
                             ELSE word[i] = raw[i]
    BY <1>4, <1>5, MaskedBytes DEF word
  <2> QED
    BY <1>4, <2>1
<1> HIDE DEF word
<1>c. /\ c \in 0 .. 4 /\ k \in 0 .. 3 /\ call.a2 \in Nat
      /\ r1 = call.a2 + c /\ lo = call.a2 + c - k
  BY <1>0, <1>2, <1>4
<1>7. LoadsSound'
  <2>1. \A j \in 0 .. (c - 1) : S2(call.a2 + j) # 0
    BY <1>2 DEF SameUpTo
  <2>2. /\ c \in Nat /\ 4 \in {1, 4} /\ lo \in Int
        /\ lo <= call.a2 + c /\ lo + 4 > call.a2
    BY <1>c
  <2>4. Counted => c < call.n
    BY <1>0, <1>2
  <2>3. SoundLoad(Load("s2", lo, 4))
    BY <1>0, <1>b, <2>1, <2>2, <2>4, SoundSecond
  <2> QED
    BY <1>1, <2>3, LoadsAreSound
<1>8. SameUpTo(Compared)' /\ Compared' >= 0
  BY <1>1, <1>2, <1>3 DEF SameUpTo, S1, S2, In
<1>9. CASE HasNUL(word)
  <2>1. pc' = "bytes" /\ r1' = r1 /\ n' = n /\ ahead' = <<>>
    BY <1>1, <1>2, <1>9
  <2>2. NLeft'
    BY <1>1, <1>2, <2>1 DEF NLeft, Counted
  <2>3. AtAlign' /\ AtPreload'
    BY <2>1 DEF AtAlign, AtPreload
  <2> QED
    BY <1>0, <1>1, <1>2, <1>3, <1>7, <1>8, <2>1, <2>2, <2>3, CharacterGoesOn
<1>10. CASE ~HasNUL(word)
  <2>1. /\ pc' = "words" /\ r1' = lo + 4
        /\ n' = IF Counted THEN n - (4 - k) ELSE n
        /\ ahead' = SubSeq(word, k + 1, 4)
    BY <1>1, <1>10
  <2>2. \A i \in 1 .. 4 : word[i] # 0
    BY <1>6, <1>10, NulFound
  <2>3. /\ ahead' \in Seq(Byte) /\ Len(ahead') = 4 - k
        /\ \A i \in 1 .. (4 - k) : ahead'[i] = word[k + i]
    BY <1>4, <1>6, <2>1, Tails
  <2>4. ASSUME NEW i \in 1 .. (4 - k)
        PROVE  ahead'[i] = S2(call.a2 + c + i - 1) /\ ahead'[i] # 0
    <3>1. /\ k + i \in 1 .. 4 /\ k + i > k
          /\ lo + (k + i) - 1 = call.a2 + c + i - 1
      BY <1>0, <1>2, <1>4
    <3>2. ahead'[i] = word[k + i] /\ word[k + i] = raw[k + i]
          /\ raw[k + i] = S2(lo + (k + i) - 1)
      BY <1>5, <1>6, <2>3, <3>1
    <3> QED
      BY <2>2, <3>1, <3>2
  <2>5. /\ r1' \in Nat /\ n' \in Int
        /\ r1' = call.a2 + c + Len(ahead') /\ Len(ahead') \in 1 .. 4
    <3>1. 4 - k \in 1 .. 4
      BY <1>c
    <3>2. lo + 4 = call.a2 + c + (4 - k) /\ lo + 4 \in Nat
      BY <1>c, <1>4
    <3>3. n' \in Int
      BY <1>0, <2>1, <3>1
    <3> QED
      BY <2>1, <2>3, <3>1, <3>2, <3>3
  <2>9. r1' % 4 = 0
    BY <1>4, <1>b, <2>1
  <2>6. AtWords'
    BY <1>1, <1>2, <1>3, <1>a, <2>3, <2>4, <2>5, <2>9 DEF AtWords, S2, In
  <2>7. NLeft'
    <3>1. (Counted' <=> Counted) /\ call' = call
      BY <1>1 DEF Counted
    <3>2. Counted => n = call.n - c /\ call.n >= 16
      BY <1>0, <1>2 DEF NLeft
    <3>3. ASSUME Counted
          PROVE  n' = call.n - (r1' - call.a2) /\ n' >= 0
      <4>1. n = call.n - c /\ call.n >= 16 /\ n' = n - (4 - k)
        BY <2>1, <3>2, <3>3
      <4>2. r1' = call.a2 + c + (4 - k)
        BY <2>3, <2>5
      <4> QED
        BY <1>0, <1>c, <4>1, <4>2
    <3> QED
      BY <3>1, <3>3 DEF NLeft
  <2>8. Comparing' /\ AtAlign' /\ AtPreload' /\ AtBytes' /\ AtSearch' /\ Answers'
    BY <1>8, <2>1, <2>7
       DEF Comparing, AtAlign, AtPreload, AtBytes, AtSearch, Answers
  <2> QED
    BY <1>0, <1>1, <1>7, <2>1, <2>5, <2>6, <2>8 DEF StringsInv
<1> QED
  BY <1>9, <1>10

\* The bytes of a word that is completed by another's first ones.
LEMMA WholeIs ==
  ASSUME NEW z \in Seq(Byte), Len(z) \in 1 .. 4, NEW word \in [1 .. 4 -> Byte]
  PROVE  \A i \in 1 .. 4 :
            (z \o SubSeq(word, 1, 4 - Len(z)))[i] =
               IF i <= Len(z) THEN z[i] ELSE word[i - Len(z)]
<1> DEFINE q == Len(z)
           t == SubSeq(word, 1, 4 - q)
<1>1. \A i \in 1 .. (4 - q) : word[i] \in Byte
  OBVIOUS
<1>2. /\ t \in Seq(Byte)
      /\ Len(t) = 4 - q
      /\ \A i \in 1 .. (4 - q) : t[i] = word[i]
  <2>1. /\ t \in Seq(Byte)
        /\ Len(t) = IF 1 <= 4 - q THEN (4 - q) - 1 + 1 ELSE 0
        /\ \A i \in 1 .. ((4 - q) - 1 + 1) : t[i] = word[1 + i - 1]
    <3>1. 1 \in Int /\ 4 - q \in Int
      OBVIOUS
    <3> QED
      BY <1>1, <3>1, SubSeqProperties
  <2>2. (4 - q) - 1 + 1 = 4 - q /\ (~(1 <= 4 - q) => 4 - q = 0)
    OBVIOUS
  <2>3. \A i \in 1 .. (4 - q) : 1 + i - 1 = i
    OBVIOUS
  <2> QED
    BY <2>1, <2>2, <2>3
<1> HIDE DEF t
<1>3. /\ Len(z \o t) = q + (4 - q)
      /\ \A i \in 1 .. (Len(z) + Len(t)) :
            (z \o t)[i] = IF i <= Len(z) THEN z[i] ELSE t[i - Len(z)]
  BY <1>2, ConcatProperties
<1>4. ASSUME NEW i \in 1 .. 4
      PROVE  (z \o t)[i] = IF i <= Len(z) THEN z[i] ELSE word[i - Len(z)]
  <2>1. i \in 1 .. (Len(z) + Len(t))
    BY <1>2
  <2>2. i > q => i - q \in 1 .. (4 - q)
    OBVIOUS
  <2> QED
    BY <1>2, <1>3, <2>1, <2>2
<1> QED
  BY <1>4 DEF t

\* The words are all in what may be loaded: the first bytes of s2's are not
\* yet known, those before them are.
LEMMA WordsSound ==
  ASSUME StringsInv, pc = "words", Counted => n >= 4, UNCHANGED call,
         loaded' = {Load("s1", r0, 4), Load("s2", r1, 4)}
  PROVE  LoadsSound'
<1> DEFINE c == Compared
           q == Len(ahead)
<1>0. /\ call \in Calls /\ r0 \in Nat /\ r1 \in Nat /\ n \in Int
      /\ call.a1 \in Nat /\ call.a2 \in Nat /\ call.n \in Nat
  BY CallType DEF StringsInv
<1>1. /\ q \in 1 .. 4 /\ c \in Nat /\ r0 = call.a1 + c
      /\ r1 = call.a2 + c + q
  <2>1. q \in 1 .. 4 /\ r1 = call.a2 + c + q
    BY DEF StringsInv, AtWords
  <2>2. c >= 0 /\ c = r0 - call.a1
    BY DEF StringsInv, Comparing, Compared
  <2> QED
    BY <1>0, <2>1, <2>2
<1>2. SameUpTo(c) /\ NLeft
  BY DEF StringsInv, Comparing
<1>3. r0 % 4 = 0 /\ r1 % 4 = 0
  BY DEF StringsInv, AtWords
<1>4. \A i \in 1 .. q : ahead[i] = S2(call.a2 + c + i - 1) /\ ahead[i] # 0
  BY DEF StringsInv, AtWords
<1> HIDE DEF c, q
<1>5. Counted => c + q < call.n /\ c < call.n
  <2>1. Counted => n = call.n - (r1 - call.a2)
    BY <1>2 DEF NLeft
  <2> QED
    BY <1>0, <1>1, <2>1
<1>6. \A j \in 0 .. (c - 1) : S1(call.a1 + j) # 0 /\ S2(call.a2 + j) # 0
  BY <1>2 DEF SameUpTo
<1>7. ASSUME NEW j \in 0 .. (c + q - 1) PROVE S2(call.a2 + j) # 0
  <2>1. CASE j < c
    <3>1. j \in 0 .. (c - 1)
      BY <1>1, <2>1
    <3> QED
      BY <1>6, <3>1
  <2>2. CASE j >= c
    <3>1. j - c + 1 \in 1 .. q /\ call.a2 + c + (j - c + 1) - 1 = call.a2 + j
      BY <1>0, <1>1, <2>2
    <3> QED
      BY <1>4, <3>1
  <2> QED
    BY <1>1, <2>1, <2>2
<1>8. SoundLoad(Load("s1", r0, 4))
  <2>1. /\ c \in Nat /\ 4 \in {1, 4} /\ r0 \in Int
        /\ r0 <= call.a1 + c /\ r0 + 4 > call.a1
    BY <1>0, <1>1
  <2> QED
    BY <1>0, <1>3, <1>5, <1>6, <2>1, SoundFirst
<1>9. SoundLoad(Load("s2", r1, 4))
  <2> DEFINE k == c + q
  <2>1. /\ k \in Nat /\ 4 \in {1, 4} /\ r1 \in Int
        /\ r1 <= call.a2 + k /\ r1 + 4 > call.a2
    BY <1>0, <1>1
  <2>2. /\ Counted => k < call.n
        /\ \A j \in 0 .. (k - 1) : S2(call.a2 + j) # 0
    BY <1>0, <1>1, <1>5, <1>7
  <2> HIDE DEF k
  <2> QED
    BY <1>0, <1>3, <2>1, <2>2, SoundSecond
<1> QED
  BY <1>8, <1>9, LoadsAreSound

\* When the words are the same and have no 0, there are four more characters.
LEMMA WordCompareKeeps ==
  ASSUME StringsInv, WordCompare
  PROVE  StringsInv'
<1> DEFINE c == Compared
           q == Len(ahead)
           word == WordOf(S2, r1)
           whole == ahead \o SubSeq(word, 1, 4 - q)
<1>0. /\ call \in Calls /\ r0 \in Nat /\ r1 \in Nat /\ n \in Int
      /\ call.a1 \in Nat /\ call.a2 \in Nat /\ call.n \in Nat
  BY CallType DEF StringsInv
<1>1. /\ pc = "words" /\ UNCHANGED <<call, result>>
      /\ loaded' = {Load("s1", r0, 4), Load("s2", r1, 4)}
      /\ IF HasNUL(word) \/ WordOf(S1, r0) # whole THEN Unwind
         ELSE /\ r0' = r0 + 4
              /\ r1' = r1 + 4
              /\ n' = IF Counted THEN n - 4 ELSE n
              /\ ahead' = SubSeq(word, 5 - q, 4)
              /\ UNCHANGED pc
  BY DEF WordCompare
<1>2. Counted => n >= 4
  BY DEF WordCompare
<1>3. LoadsSound'
  BY <1>1, <1>2, WordsSound
<1>4. CASE HasNUL(word) \/ WordOf(S1, r0) # whole
  BY <1>1, <1>3, <1>4, UnwindKeeps
<1>5. CASE ~HasNUL(word) /\ WordOf(S1, r0) = whole
  <2>1. /\ r0' = r0 + 4 /\ r1' = r1 + 4 /\ pc' = "words"
        /\ n' = IF Counted THEN n - 4 ELSE n
        /\ ahead' = SubSeq(word, 5 - q, 4)
    BY <1>1, <1>5
  <2>2. /\ q \in 1 .. 4 /\ c \in Nat /\ r0 = call.a1 + c
        /\ r1 = call.a2 + c + q
    BY <1>0, <1>1 DEF StringsInv, Comparing, AtWords, Compared
  <2>3. SameUpTo(c) /\ NLeft
    BY <1>1 DEF StringsInv, Comparing
  <2>4. /\ r0 % 4 = 0 /\ r1 % 4 = 0 /\ ahead \in Seq(Byte)
        /\ call.fn \in {"strcmp", "strncmp"}
    BY <1>1 DEF StringsInv, AtWords
  <2>5. \A i \in 1 .. q : ahead[i] = S2(call.a2 + c + i - 1) /\ ahead[i] # 0
    BY <1>1 DEF StringsInv, AtWords
  <2>6. Compared' = c + 4
    BY <1>0, <1>1, <2>1 DEF Compared
  <2>7. /\ word \in [1 .. 4 -> Byte]
        /\ \A i \in 1 .. 4 : word[i] = S2(r1 + i - 1)
        /\ \A i \in 1 .. 4 : WordOf(S1, r0)[i] = S1(r0 + i - 1)
    <3>1. r0 \in Int /\ r1 \in Int
      BY <1>0
    <3> QED
      BY <1>0, <3>1, WordOfBytes
  <2> HIDE DEF word
  <2>8. \A i \in 1 .. 4 : whole[i] = IF i <= q THEN ahead[i] ELSE word[i - q]
    BY <2>2, <2>4, <2>7, WholeIs
  <2>9. \A i \in 1 .. 4 : word[i] # 0
    BY <1>5, <2>7, NulFound
  <2>10. \A i \in 1 .. 4 : S1(r0 + i - 1) = whole[i]
    BY <1>5, <2>7
  <2> HIDE DEF c, q, whole
  <2>11. ASSUME NEW i \in 1 .. 4
         PROVE  whole[i] = S2(call.a2 + c + i - 1) /\ whole[i] # 0
    <3>1. CASE i <= q
      <4>1. i \in 1 .. q /\ whole[i] = ahead[i]
        BY <2>2, <2>8, <3>1
      <4> QED
        BY <2>5, <4>1
    <3>2. CASE i > q
      <4>1. i - q \in 1 .. 4 /\ r1 + (i - q) - 1 = call.a2 + c + i - 1
            /\ ~(i <= q)
        BY <1>0, <2>2, <3>2
      <4>2. whole[i] = word[i - q]
        BY <2>8, <4>1
      <4> QED
        BY <2>7, <2>9, <4>1, <4>2
    <3> QED
      BY <2>2, <3>1, <3>2
  <2>12. SameUpTo(Compared)'
    <3>1. ASSUME NEW j \in 0 .. (c + 4 - 1)
          PROVE  S1(call.a1 + j) # 0 /\ S1(call.a1 + j) = S2(call.a2 + j)
      <4>1. CASE j < c
        <5>1. j \in 0 .. (c - 1)
          BY <2>2, <4>1
        <5> QED
          BY <2>3, <5>1 DEF SameUpTo
      <4>2. CASE j >= c
        <5>1. /\ j - c + 1 \in 1 .. 4
              /\ r0 + (j - c + 1) - 1 = call.a1 + j
              /\ call.a2 + c + (j - c + 1) - 1 = call.a2 + j
          BY <1>0, <2>2, <4>2
        <5> QED
          BY <2>10, <2>11, <5>1
      <4> QED
        BY <2>2, <4>1, <4>2
    <3>2. \A j \in 0 .. (Compared' - 1) :
             S1(call.a1 + j) # 0 /\ S1(call.a1 + j) = S2(call.a2 + j)
      BY <1>0, <2>2, <2>6, <3>1
    <3> QED
      BY <1>1, <3>2 DEF SameUpTo, S1, S2, In
  <2>13. /\ ahead' \in Seq(Byte) /\ Len(ahead') = q
         /\ \A i \in 1 .. q : ahead'[i] = word[(4 - q) + i]
    <3> DEFINE k == 4 - q
    <3>1. k \in 0 .. 3 /\ 5 - q = k + 1 /\ 4 - k = q
      BY <2>2
    <3>2. ahead' = SubSeq(word, k + 1, 4)
      BY <2>1, <3>1
    <3> HIDE DEF k
    <3>3. /\ ahead' \in Seq(Byte) /\ Len(ahead') = 4 - k
          /\ \A i \in 1 .. (4 - k) : ahead'[i] = word[k + i]
      BY <2>7, <3>1, <3>2, Tails
    <3> QED
      BY <3>1, <3>3 DEF k
  <2>14. ASSUME NEW i \in 1 .. q
         PROVE  ahead'[i] = S2(call.a2 + (c + 4) + i - 1) /\ ahead'[i] # 0
    <3>1. /\ (4 - q) + i \in 1 .. 4
          /\ r1 + ((4 - q) + i) - 1 = call.a2 + (c + 4) + i - 1
      BY <1>0, <2>2
    <3> QED
      BY <2>7, <2>9, <2>13, <3>1
  <2>15. /\ {r0', r1'} \subseteq Nat /\ n' \in Int
         /\ r1' = call.a2 + (c + 4) + Len(ahead')
         /\ Len(ahead') \in 1 .. 4
    <3>1. r0' \in Nat /\ r1' \in Nat /\ n' \in Int
      BY <1>0, <2>1
    <3>2. r1' = call.a2 + (c + 4) + q
      <4>1. r1' = r1 + 4
        BY <2>1
      <4> QED
        BY <1>0, <2>2, <4>1
    <3> QED
      BY <2>2, <2>13, <3>1, <3>2
  <2>16. r0' % 4 = 0 /\ r1' % 4 = 0
    BY <1>0, <2>1, <2>4
  <2>17. AtWords'
    BY <1>1, <2>4, <2>6, <2>13, <2>14, <2>15, <2>16 DEF AtWords, S2, In
  <2>18. NLeft'
    <3>1. (Counted' <=> Counted) /\ call' = call
      BY <1>1 DEF Counted
    <3>2. ASSUME Counted
          PROVE  n' = call.n - (r1' - call.a2) /\ n' >= 0
      <4>1. n = call.n - (r1 - call.a2) /\ n' = n - 4 /\ r1' = r1 + 4 /\ n >= 4
        BY <1>2, <2>1, <2>3, <3>2 DEF NLeft
      <4> QED
        BY <1>0, <4>1
    <3> QED
      BY <3>1, <3>2 DEF NLeft
  <2>19. Compared' >= 0
    BY <2>2, <2>6
  <2>20. Comparing' /\ AtAlign' /\ AtPreload' /\ AtBytes' /\ AtSearch' /\ Answers'
    BY <2>1, <2>12, <2>18, <2>19
       DEF Comparing, AtAlign, AtPreload, AtBytes, AtSearch, Answers
  <2> QED
    BY <1>0, <1>1, <1>3, <2>1, <2>15, <2>17, <2>20 DEF StringsInv
<1> QED
  BY <1>4, <1>5

-----------------------------------------------------------------------------
(* The steps of strlen and strchr.                                         *)

\* What BeforeNUL chooses for a word with a 0.
LEMMA BeforeNULIs ==
  ASSUME NEW word \in [1 .. 4 -> Byte], \E i \in 1 .. 4 : word[i] = 0
  PROVE  /\ BeforeNUL(word) \in 0 .. 3
         /\ word[BeforeNUL(word) + 1] = 0
         /\ \A j \in 1 .. BeforeNUL(word) : word[j] # 0
<1> DEFINE Z == {i \in 1 .. 4 : word[i] = 0}
           P(i) == /\ \A j \in 1 .. i : word[j] # 0
                   /\ i < 3 => word[i + 1] = 0
<1>1. PICK m \in Z : \A j \in Z : m <= j
  <2>1. Z \in SUBSET Nat /\ Z # {}
    OBVIOUS
  <2> HIDE DEF Z
  <2> QED
    BY <2>1, Least
<1>2. m - 1 \in 0 .. 3 /\ P(m - 1)
  <2>1. m \in 1 .. 4 /\ word[m] = 0 /\ (m - 1) + 1 = m
    OBVIOUS
  <2>2. ASSUME NEW j \in 1 .. (m - 1) PROVE word[j] # 0
    <3>1. j \in 1 .. 4 /\ ~(m <= j)
      BY <2>1
    <3> QED
      BY <1>1, <3>1
  <2> QED
    BY <2>1, <2>2
<1> DEFINE b == BeforeNUL(word)
<1>3. b \in 0 .. 3 /\ P(b)
  <2>1. b = CHOOSE i \in 0 .. 3 : P(i)
    BY DEF BeforeNUL
  <2> HIDE DEF b, P
  <2> QED
    BY <1>2, <2>1
<1> HIDE DEF b
<1>4. word[b + 1] = 0
  <2>1. CASE b < 3
    BY <1>3, <2>1
  <2>2. CASE b = 3
    <3>1. \A j \in 1 .. 3 : word[j] # 0
      BY <1>3, <2>2
    <3>2. m = 4
      BY <3>1
    <3> QED
      BY <2>2, <3>2
  <2> QED
    BY <1>3, <2>1, <2>2
<1> QED
  BY <1>3, <1>4 DEF b

\* A 0 with none before it is the terminator.
LEMMA LengthFound ==
  ASSUME call \in Calls, NEW k \in Nat,
         \A j \in 0 .. (k - 1) : S1(call.a1 + j) # 0, S1(call.a1 + k) = 0
  PROVE  Length(call.s1) = k
<1>1. /\ Length(call.s1) \in Nat
      /\ \A j \in 0 .. (Length(call.s1) - 1) : S1(call.a1 + j) # 0
      /\ k <= Length(call.s1)
  BY CallType, EndOfString DEF S1
<1>2. CASE k < Length(call.s1)
  <2>1. k \in 0 .. (Length(call.s1) - 1)
    BY <1>1, <1>2
  <2> QED
    BY <1>1, <2>1
<1> QED
  BY <1>1, <1>2

LEMMA StrlenKeeps ==
  ASSUME StringsInv, Strlen
  PROVE  StringsInv'
<1> DEFINE lo == Align(r0)
           k == r0 % 4
           raw == WordOf(S1, lo)
           word == IF pc = "first" THEN Masked(raw, k) ELSE raw
<1>0. /\ call \in Calls /\ r0 \in Nat /\ r1 \in Nat /\ n \in Int
      /\ call.a1 \in Nat
  BY CallType DEF StringsInv
<1>1. /\ pc \in {"first", "rest"} /\ UNCHANGED <<call, r1, n, ahead>>
      /\ r0' = lo + 4
      /\ IF HasNUL(word) THEN Return(lo - call.a1 + BeforeNUL(word))
         ELSE pc' = "rest" /\ UNCHANGED result
      /\ loaded' = {Load("s1", lo, 4)}
  BY DEF Strlen
<1>2. /\ call.fn = "strlen" /\ r0 >= call.a1
      /\ \A x \in call.a1 .. (r0 - 1) : S1(x) # 0
  BY <1>0, <1>1 DEF StringsInv, AtSearch
<1>3. pc = "rest" => r0 % 4 = 0
  BY DEF StringsInv, AtSearch
<1>4. k \in 0 .. 3 /\ lo \in Nat /\ lo = r0 - k
  BY <1>0, AlignIs
<1>5. lo % 4 = 0
  BY <1>0, AlignIs
<1>6. pc = "rest" => k = 0
  BY <1>3
<1>7. /\ raw \in [1 .. 4 -> Byte]
      /\ \A i \in 1 .. 4 : raw[i] = S1(lo + i - 1)
  <2>1. lo \in Int
    BY <1>4
  <2> HIDE DEF lo
  <2> QED
    BY <1>0, <2>1, WordOfBytes
<1> HIDE DEF lo, k, raw
<1>8. /\ word \in [1 .. 4 -> Byte]
      /\ \A i \in 1 .. 4 : IF i <= k THEN word[i] # 0
                           ELSE word[i] = S1(lo + i - 1)
  <2>1. /\ Masked(raw, k) \in [1 .. 4 -> Byte]
        /\ \A i \in 1 .. 4 : IF i <= k THEN Masked(raw, k)[i] # 0
                             ELSE Masked(raw, k)[i] = raw[i]
    BY <1>4, <1>7, MaskedBytes
  <2>2. CASE pc = "first"
    BY <1>7, <2>1, <2>2
  <2>3. CASE pc = "rest"
    <3>1. word = raw /\ k = 0
      BY <1>6, <2>3
    <3>2. \A i \in 1 .. 4 : ~(i <= 0)
      OBVIOUS
    <3> QED
      BY <1>7, <3>1, <3>2
  <2> QED
    BY <1>1, <2>2, <2>3
<1> HIDE DEF word
<1>9. ASSUME NEW m \in 0 .. 4, m >= k, \A i \in 1 .. m : word[i] # 0
      PROVE  /\ lo + m - call.a1 \in Nat
             /\ \A x \in call.a1 .. (lo + m - 1) : S1(x) # 0
  <2>1. ASSUME NEW x \in call.a1 .. (lo + m - 1) PROVE S1(x) # 0
    <3>1. CASE x < r0
      <4>1. x \in call.a1 .. (r0 - 1)
        BY <1>0, <3>1
      <4> QED
        BY <1>2, <4>1
    <3>2. CASE x >= r0
      <4>1. /\ x - lo + 1 \in 1 .. m /\ x - lo + 1 \in 1 .. 4
            /\ ~(x - lo + 1 <= k) /\ lo + (x - lo + 1) - 1 = x
        BY <1>0, <1>4, <3>2
      <4> QED
        BY <1>8, <1>9, <4>1
    <3> QED
      BY <1>0, <3>1, <3>2
  <2>2. lo + m >= r0
    BY <1>0, <1>4, <1>9
  <2> QED
    BY <1>0, <1>2, <1>4, <2>1, <2>2
<1>10. LoadsSound'
  <2> DEFINE c == r0 - call.a1
  <2>1. /\ c \in Nat /\ 4 \in {1, 4} /\ lo \in Int
        /\ lo <= call.a1 + c /\ lo + 4 > call.a1
    BY <1>0, <1>2, <1>4
  <2>2. \A j \in 0 .. (c - 1) : call.a1 + j \in call.a1 .. (r0 - 1)
    BY <1>0, <1>2
  <2>3. \A j \in 0 .. (c - 1) : S1(call.a1 + j) # 0
    BY <1>2, <2>2
  <2>4. Counted => c < call.n
    BY <1>2 DEF Counted
  <2> HIDE DEF c
  <2>5. SoundLoad(Load("s1", lo, 4))
    BY <1>0, <1>5, <2>1, <2>3, <2>4, SoundFirst
  <2> QED
    BY <1>1, <2>5, LoadsAreSound
<1>11. CASE HasNUL(word)
  <2> DEFINE b == BeforeNUL(word)
  <2>1. /\ b \in 0 .. 3 /\ word[b + 1] = 0
        /\ \A j \in 1 .. b : word[j] # 0
    BY <1>8, <1>11, NulFound, BeforeNULIs
  <2> HIDE DEF b
  <2>2. b + 1 \in 1 .. 4 /\ ~(b + 1 <= k) /\ b \in 0 .. 4 /\ b >= k
        /\ lo + (b + 1) - 1 = lo + b
    <3>1. b + 1 \in 1 .. 4 /\ b \in 0 .. 4 /\ lo + (b + 1) - 1 = lo + b
      BY <1>4, <2>1
    <3>2. ~(b + 1 <= k)
      BY <1>8, <2>1, <3>1
    <3> QED
      BY <1>4, <2>1, <3>1, <3>2
  <2>3. S1(lo + b) = 0
    BY <1>8, <2>1, <2>2
  <2>4. /\ lo + b - call.a1 \in Nat
        /\ \A x \in call.a1 .. (lo + b - 1) : S1(x) # 0
    BY <1>9, <2>1, <2>2
  <2> DEFINE l == lo + b - call.a1
  <2>5. /\ l \in Nat /\ call.a1 + l = lo + b
        /\ \A j \in 0 .. (l - 1) : call.a1 + j \in call.a1 .. (lo + b - 1)
    BY <1>0, <1>4, <2>1, <2>4
  <2>6. \A j \in 0 .. (l - 1) : S1(call.a1 + j) # 0
    BY <2>4, <2>5
  <2>7. S1(call.a1 + l) = 0
    BY <2>3, <2>5
  <2>8. lo - call.a1 + b = l
    BY <1>0, <1>4, <2>1
  <2>9. l \in Nat
    BY <2>5
  <2> HIDE DEF l
  <2>10. Length(call.s1) = l
    BY <1>0, <2>6, <2>7, <2>9, LengthFound
  <2>11. Answer = lo - call.a1 + b
    BY <1>2, <2>8, <2>10 DEF Answer
  <2>12. pc' = "done" /\ result' = Answer
    BY <1>1, <1>11, <2>11 DEF Return, b
  <2>13. {r0', r1'} \subseteq Nat /\ n' \in Int
    BY <1>0, <1>1, <1>4
  <2> QED
    BY <1>1, <1>10, <2>12, <2>13, ReturnKeeps
<1>12. CASE ~HasNUL(word)
  <2>1. \A i \in 1 .. 4 : word[i] # 0
    BY <1>8, <1>12, NulFound
  <2>2. /\ lo + 4 - call.a1 \in Nat
        /\ \A x \in call.a1 .. (lo + 4 - 1) : S1(x) # 0
    <3>1. 4 \in 0 .. 4 /\ 4 >= k
      BY <1>4
    <3> QED
      BY <1>9, <2>1, <3>1
  <2>3. pc' = "rest" /\ r0' = lo + 4
    BY <1>1, <1>12
  <2>4. r0' >= call.a1 /\ {r0', r1'} \subseteq Nat /\ n' \in Int
    BY <1>0, <1>1, <1>4, <2>2, <2>3
  <2>5. r0' % 4 = 0
    BY <1>4, <1>5, <2>3
  <2>6. \A x \in call.a1 .. (r0' - 1) : S1(x) # 0
    BY <1>0, <1>4, <2>2, <2>3
  <2>7. AtSearch'
    BY <1>1, <1>2, <2>3, <2>4, <2>5, <2>6 DEF AtSearch, S1, In
  <2>8. /\ Comparing' /\ AtAlign' /\ AtPreload' /\ AtWords' /\ AtBytes'
        /\ Answers'
    BY <2>3 DEF Comparing, AtAlign, AtPreload, AtWords, AtBytes, Answers
  <2> QED
    BY <1>0, <1>1, <1>10, <2>3, <2>4, <2>7, <2>8 DEF StringsInv
<1> QED
  BY <1>11, <1>12

\* The first c of a string.
LEMMA FoundIs ==
  ASSUME call \in Calls, call.fn = "strchr", NEW k \in Nat,
         \A j \in 0 .. (k - 1) : S1(call.a1 + j) # 0 /\ S1(call.a1 + j) # call.c
  PROVE  /\ S1(call.a1 + k) = call.c => Answer = call.a1 + k
         /\ S1(call.a1 + k) # call.c /\ S1(call.a1 + k) = 0 => Answer = NULL
<1> DEFINE l == Length(call.s1)
           found == {i \in 0 .. l : call.s1[i + 1] = call.c}
<1>1. /\ l \in 0 .. (Len(call.s1) - 1) /\ Len(call.s1) \in Nat
      /\ k <= l
  BY CallType, LengthIs, Terminated
<1>2. \A j \in 0 .. (Len(call.s1) - 1) : S1(call.a1 + j) = call.s1[j + 1]
  BY CallType, InString DEF S1
<1>3. Answer = IF found = {} THEN NULL ELSE call.a1 + Lowest(found)
  BY DEF Answer
<1>a. S1(call.a1 + k) = 0 => l = k
  BY LengthFound
<1> HIDE DEF l
<1>4. ASSUME NEW i \in found PROVE i \in 0 .. l /\ i >= k
  <2>1. CASE i < k
    <3>1. i \in 0 .. (k - 1) /\ i \in 0 .. (Len(call.s1) - 1)
      BY <1>1, <2>1
    <3> QED
      BY <1>2, <3>1
  <2> QED
    BY <1>1, <2>1
<1>5. k \in 0 .. l /\ k \in 0 .. (Len(call.s1) - 1)
  BY <1>1
<1>6. ASSUME S1(call.a1 + k) = call.c PROVE Answer = call.a1 + k
  <2>1. k \in found
    BY <1>2, <1>5, <1>6
  <2>2. found \in SUBSET Nat /\ found # {}
    BY <2>1
  <2> HIDE DEF found
  <2>3. Lowest(found) \in found /\ Lowest(found) <= k
    BY <2>1, <2>2, LowestIs
  <2>4. Lowest(found) = k
    BY <1>4, <2>3
  <2> QED
    BY <1>3, <2>2, <2>4
<1>7. ASSUME S1(call.a1 + k) # call.c, S1(call.a1 + k) = 0
      PROVE  Answer = NULL
  <2>1. l = k
    BY <1>7, <1>a
  <2>2. ASSUME NEW i \in found PROVE FALSE
    <3>1. i = k
      BY <1>4, <2>1
    <3> QED
      BY <1>2, <1>5, <1>7, <3>1
  <2> QED
    BY <1>3, <2>2
<1> QED
  BY <1>6, <1>7

LEMMA StrchrKeeps ==
  ASSUME StringsInv, Strchr
  PROVE  StringsInv'
<1> DEFINE k == r0 - call.a1
<1>0. /\ call \in Calls /\ r0 \in Nat /\ r1 \in Nat /\ n \in Int
      /\ call.a1 \in Nat
  BY CallType DEF StringsInv
<1>1. /\ pc = "search" /\ UNCHANGED <<call, r1, n, ahead>>
      /\ r0' = r0 + 1 /\ loaded' = {Load("s1", r0, 1)}
      /\ IF S1(r0) = call.c THEN Return(r0)
         ELSE IF S1(r0) = 0 THEN Return(NULL)
         ELSE UNCHANGED <<pc, result>>
  BY DEF Strchr
<1>2. /\ call.fn = "strchr" /\ r0 >= call.a1
      /\ \A x \in call.a1 .. (r0 - 1) : S1(x) # 0 /\ S1(x) # call.c
  BY <1>1 DEF StringsInv, AtSearch
<1>3. /\ k \in Nat /\ r0 = call.a1 + k
      /\ \A j \in 0 .. (k - 1) : call.a1 + j \in call.a1 .. (r0 - 1)
  BY <1>0, <1>2
<1>4. \A j \in 0 .. (k - 1) : S1(call.a1 + j) # 0 /\ S1(call.a1 + j) # call.c
  BY <1>2, <1>3
<1> HIDE DEF k
<1>5. LoadsSound'
  <2>1. /\ 1 \in {1, 4} /\ r0 \in Int /\ r0 % 1 = 0
        /\ r0 <= call.a1 + k /\ r0 + 1 > call.a1
    BY <1>0, <1>3
  <2>2. Counted => k < call.n
    BY <1>2 DEF Counted
  <2>3. SoundLoad(Load("s1", r0, 1))
    BY <1>0, <1>3, <1>4, <2>1, <2>2, SoundFirst
  <2> QED
    BY <1>1, <2>3, LoadsAreSound
<1>6. {r0', r1'} \subseteq Nat /\ n' \in Int
  BY <1>0, <1>1
<1>7. CASE S1(r0) = call.c \/ S1(r0) = 0
  <2>1. pc' = "done" /\ result' = IF S1(r0) = call.c THEN r0 ELSE NULL
    BY <1>1, <1>7 DEF Return
  <2>2. result' = Answer
    BY <1>0, <1>2, <1>3, <1>4, <1>7, <2>1, FoundIs
  <2> QED
    BY <1>1, <1>5, <1>6, <2>1, <2>2, ReturnKeeps
<1>8. CASE S1(r0) # call.c /\ S1(r0) # 0
  <2>1. pc' = "search"
    BY <1>1, <1>8
  <2>2. ASSUME NEW x \in call.a1 .. r0 PROVE S1(x) # 0 /\ S1(x) # call.c
    <3>1. CASE x = r0
      BY <1>8, <3>1
    <3>2. CASE x # r0
      <4>1. x \in call.a1 .. (r0 - 1)
        BY <1>0, <3>2
      <4> QED
        BY <1>2, <4>1
    <3> QED
      BY <3>1, <3>2
  <2>3. r0' - 1 = r0 /\ r0' >= call.a1
    BY <1>0, <1>1, <1>2
  <2>4. \A x \in call.a1 .. (r0' - 1) : S1(x) # 0 /\ S1(x) # call.c
    BY <2>2, <2>3
  <2>5. AtSearch'
    BY <1>1, <1>2, <2>1, <2>3, <2>4 DEF AtSearch, S1, In
  <2>6. /\ Comparing' /\ AtAlign' /\ AtPreload' /\ AtWords' /\ AtBytes'
        /\ Answers'
    BY <2>1 DEF Comparing, AtAlign, AtPreload, AtWords, AtBytes, Answers
  <2> QED
    BY <1>0, <1>1, <1>5, <1>6, <2>1, <2>5, <2>6 DEF StringsInv
<1> QED
  BY <1>7, <1>8

-----------------------------------------------------------------------------
(* The theorems.                                                           *)

LEMMA InitHas ==
  ASSUME Init
  PROVE  StringsInv
<1>1. /\ call \in Calls /\ r0 = call.a1 /\ r1 = call.a2 /\ n = call.n
      /\ ahead = <<>> /\ loaded = {}
      /\ pc = CASE call.fn = "strcmp"  -> "align"
                [] call.fn = "strncmp" -> IF call.n < 16 THEN "bytes" ELSE "align"
                [] call.fn = "strlen"  -> "first"
                [] call.fn = "strchr"  -> "search"
  BY DEF Init
<1>2. /\ call.fn \in {"strlen", "strcmp", "strncmp", "strchr"}
      /\ call.a1 \in Nat /\ call.a2 \in Nat /\ call.n \in Nat
  BY <1>1, CallType
<1>3. /\ Compared = 0 /\ SameUpTo(0) /\ r1 - call.a2 = 0
      /\ \A x \in call.a1 .. (r0 - 1) : FALSE
  BY <1>1, <1>2 DEF Compared, SameUpTo
<1>4. pc \in {"align", "bytes", "first", "search"}
  BY <1>1, <1>2
<1>5. /\ pc = "align" => /\ call.fn \in {"strcmp", "strncmp"}
                         /\ call.fn = "strncmp" => call.n >= 16
      /\ pc = "bytes" => call.fn = "strncmp"
      /\ pc = "first" => call.fn = "strlen"
      /\ pc = "search" => call.fn = "strchr"
  BY <1>1, <1>2
<1>6. NLeft
  BY <1>1, <1>2, <1>3 DEF NLeft
<1>7. Comparing
  <2>1. Compared >= 0 /\ SameUpTo(Compared) /\ r1 = call.a2 + Compared
    BY <1>1, <1>2, <1>3
  <2> QED
    BY <1>1, <1>4, <1>6, <2>1 DEF Comparing
<1>8. AtAlign
  <2>1. 0 <= r0 % 4
    BY <1>1, <1>2
  <2> QED
    BY <1>3, <1>5, <2>1 DEF AtAlign, Counted
<1>9. AtPreload /\ AtWords /\ AtBytes
  BY <1>4, <1>5 DEF AtPreload, AtWords, AtBytes
<1>10. AtSearch
  BY <1>1, <1>2, <1>3, <1>4, <1>5 DEF AtSearch
<1>11. Answers /\ LoadsSound
  BY <1>1, <1>4 DEF Answers, LoadsSound
<1> QED
  BY <1>1, <1>2, <1>4, <1>7, <1>8, <1>9, <1>10, <1>11 DEF StringsInv

LEMMA NextKeeps ==
  ASSUME StringsInv, [Next]_vars
  PROVE  StringsInv'
<1>1. CASE Next
  BY <1>1, AlignS1Keeps, PreloadKeeps, NIsLessThanFourKeeps, WordCompareKeeps,
     NIsZeroKeeps, ByteCompareKeeps, StrlenKeeps, StrchrKeeps DEF Next
<1>2. CASE UNCHANGED vars
  BY <1>2 DEF vars, StringsInv, Comparing, SameUpTo, Compared, NLeft, AtAlign,
     AtPreload, AtWords, AtBytes, AtSearch, Answers, Answer, Parting, LoadsSound,
     Counted, S1, S2, In
<1> QED
  BY <1>1, <1>2

\* Whatever strings a call is given, at whatever addresses and with whatever
\* around them, what it returns is its answer: the loops by words, with the
\* words of s2 put together from two (strcmp.S, strncmp.S) and the first word
\* masked (strlen.S), find the same as one character after the other.
THEOREM AnswersCorrect == Spec => []Answers
<1>1. StringsInv => Answers
  BY DEF StringsInv
<1> QED
  BY <1>1, InitHas, NextKeeps, PTL DEF Spec

\* Every word is loaded from a multiple of four, and every load has a byte of
\* the string up to its terminator or its first n.
THEOREM LoadsSoundCorrect == Spec => []LoadsSound
<1>1. StringsInv => LoadsSound
  BY DEF StringsInv
<1> QED
  BY <1>1, InitHas, NextKeeps, PTL DEF Spec

-----------------------------------------------------------------------------
(* strtok: texts and their pieces.                                         *)

\* What may be in memory.
Letters == Chars \cup {K!NUL}

\* Where the string at an address of a memory ends.
EndsAt(m, x, e) ==
    /\ x \in 1 .. e /\ e \in 1 .. Len(m)
    /\ m[e] = K!NUL /\ \A j \in x .. (e - 1) : m[j] # K!NUL

LEMMA StringIs ==
  ASSUME NEW m \in Seq(Letters), NEW x, NEW e, EndsAt(m, x, e)
  PROVE  K!StringAt(m, x) = SubSeq(m, x, e - 1)
<1> DEFINE Fits(i) == m[i] = K!NUL /\ \A j \in x .. (i - 1) : m[j] # K!NUL
           some == CHOOSE i \in x .. Len(m) : Fits(i)
<1>1. x \in Nat /\ e \in x .. Len(m) /\ Len(m) \in Nat /\ Fits(e)
  BY LenProperties DEF EndsAt
<1>2. \A i \in x .. Len(m) : Fits(i) => i = e
  BY <1>1
<1>3. some = e
  BY <1>1, <1>2
<1> QED
  BY <1>3 DEF K!StringAt

LEMMA StringEnds ==
  ASSUME NEW m \in Seq(Letters), NEW x \in 1 .. Len(m), m[Len(m)] = K!NUL
  PROVE  \E e : EndsAt(m, x, e)
<1> DEFINE S == {i \in x .. Len(m) : m[i] = K!NUL}
<1>1. S \in SUBSET Nat /\ S # {} /\ Len(m) \in Nat
  BY LenProperties
<1>2. PICK e \in S : \A i \in S : e <= i
  BY <1>1, Least
<1> QED
  BY <1>1, <1>2 DEF EndsAt

LEMMA PastIs ==
  ASSUME NEW q \in Seq(Letters), NEW S, NEW i \in 1 .. (Len(q) + 1),
         NEW j \in i .. (Len(q) + 1),
         \A k \in i .. (j - 1) : q[k] \in S,
         j <= Len(q) => q[j] \notin S
  PROVE  K!Past(S, q, i) = j
<1> DEFINE Fits(x) == /\ \A k \in i .. (x - 1) : q[k] \in S
                      /\ x <= Len(q) => q[x] \notin S
           some == CHOOSE x \in i .. (Len(q) + 1) : Fits(x)
<1>1. Fits(j) /\ Len(q) \in Nat
  BY LenProperties
<1>2. \A x \in i .. (Len(q) + 1) : Fits(x) => x = j
  BY <1>1
<1>3. some = j
  BY <1>1, <1>2
<1> QED
  BY <1>3 DEF K!Past

LEMMA PieceOf ==
  ASSUME NEW q \in Seq(Letters), NEW ds, NEW k \in 1 .. (Len(q) + 1),
         NEW j \in k .. (Len(q) + 1), \A i \in 1 .. Len(q) : q[i] \in Chars,
         \A i \in 1 .. (k - 1) : q[i] \in ds,
         k <= Len(q) => q[k] \notin ds,
         \A i \in k .. (j - 1) : q[i] \notin ds,
         j <= Len(q) => q[j] \in ds
  PROVE  K!Piece(q, ds) = [piece |-> SubSeq(q, k, j - 1),
                           rest  |-> SubSeq(q, j + 1, Len(q))]
<1>1. Len(q) \in Nat
  BY LenProperties
<1>2. K!Past(ds, q, 1) = k
  BY <1>1, PastIs
<1>3. K!Past(Chars \ ds, q, k) = j
  BY <1>1, PastIs
<1> QED
  BY <1>2, <1>3 DEF K!Piece

LEMMA PieceOfNothing ==
  ASSUME NEW ds
  PROVE  K!Piece(<<>>, ds) = [piece |-> <<>>, rest |-> <<>>]
<1>1. PICK q : q = <<>>
  OBVIOUS
<1>2. q \in Seq(Letters) /\ Len(q) = 0
  BY <1>1
<1>3. ASSUME NEW S PROVE K!Past(S, q, 1) = 1
  <2>1. \A j \in 1 .. (Len(q) + 1) : j = 1 /\ ~(j <= Len(q))
    BY <1>2
  <2>2. 1 \in 1 .. (Len(q) + 1) /\ \A k \in 1 .. (1 - 1) : q[k] \in S
    BY <1>2
  <2> QED
    BY <2>1, <2>2 DEF K!Past
<1>4. SubSeq(q, 1, 0) = <<>> /\ SubSeq(q, 2, 0) = <<>>
  BY SubSeqEmpty
<1>5. K!Piece(q, ds) = [piece |-> SubSeq(q, 1, 0), rest |-> SubSeq(q, 2, 0)]
  BY <1>2, <1>3 DEF K!Piece
<1> QED
  BY <1>1, <1>4, <1>5

LEMMA SubSub ==
  ASSUME NEW m \in Seq(Letters), NEW x \in 1 .. Len(m), NEW y \in (x - 1) .. Len(m),
         NEW i \in Nat \ {0}, NEW j \in Nat, j <= y - x + 1
  PROVE  SubSeq(SubSeq(m, x, y), i, j) = SubSeq(m, x + i - 1, x + j - 1)
<1>1. Len(m) \in Nat
  BY LenProperties
<1>2. CASE i <= j
  BY <1>1, <1>2, SubSeqOfSubSeq
<1>3. CASE j < i
  BY <1>1, <1>3, SubSeqEmpty
<1> QED
  BY <1>2, <1>3

\* A piece of what is left of a text from p to e: from t to u.
CutsAt(m, ds, p, t, u, e) ==
    /\ m \in Seq(Letters) /\ p \in 1 .. Len(m) /\ e \in p .. Len(m)
    /\ t \in p .. e /\ u \in t .. e
    /\ \A i \in p .. (e - 1) : m[i] # K!NUL
    /\ \A i \in p .. (t - 1) : m[i] \in ds
    /\ t < e => m[t] \notin ds
    /\ \A i \in t .. (u - 1) : m[i] \notin ds
    /\ u < e => m[u] \in ds

LEMMA PieceIn ==
  ASSUME NEW m, NEW ds, NEW p, NEW t, NEW u, NEW e, CutsAt(m, ds, p, t, u, e)
  PROVE  K!Piece(SubSeq(m, p, e - 1), ds) =
           [piece |-> SubSeq(m, t, u - 1), rest |-> SubSeq(m, u + 1, e - 1)]
<1>0. /\ m \in Seq(Letters) /\ p \in 1 .. Len(m) /\ e \in p .. Len(m)
      /\ t \in p .. e /\ u \in t .. e
      /\ \A i \in p .. (e - 1) : m[i] # K!NUL
      /\ \A i \in p .. (t - 1) : m[i] \in ds
      /\ t < e => m[t] \notin ds
      /\ \A i \in t .. (u - 1) : m[i] \notin ds
      /\ u < e => m[u] \in ds
  BY DEF CutsAt
<1> DEFINE q == SubSeq(m, p, e - 1)
<1>1. Len(m) \in Nat /\ \A i \in 1 .. Len(m) : m[i] \in Letters
  BY <1>0, LenProperties
<1>2. /\ q \in Seq(Letters) /\ Len(q) = e - p
      /\ \A i \in 1 .. Len(q) : q[i] = m[p + i - 1]
  BY <1>0, <1>1, SubSeqProperties
<1>3. /\ SubSeq(q, t - p + 1, u - p) = SubSeq(m, t, u - 1)
      /\ SubSeq(q, u - p + 2, e - p) = SubSeq(m, u + 1, e - 1)
  BY <1>0, <1>1, SubSub
<1> HIDE DEF q
<1>4. PICK k, j : k = t - p + 1 /\ j = u - p + 1
  OBVIOUS
<1>5. /\ k \in 1 .. (Len(q) + 1) /\ j \in k .. (Len(q) + 1)
      /\ u - p = j - 1 /\ u - p + 2 = j + 1 /\ p + k - 1 = t /\ p + j - 1 = u
      /\ \A i \in 1 .. (Len(q) + 1) : p + i - 1 \in p .. e
      /\ e - p = Len(q)
  BY <1>0, <1>1, <1>2, <1>4
<1>6. ASSUME NEW i \in 1 .. (k - 1) PROVE q[i] \in ds
  <2>1. i \in 1 .. Len(q) /\ p + i - 1 \in p .. (t - 1)
    BY <1>0, <1>1, <1>2, <1>5
  <2> QED
    BY <1>0, <1>2, <2>1
<1>7. ASSUME NEW i \in k .. (j - 1) PROVE q[i] \notin ds
  <2>1. i \in 1 .. Len(q) /\ p + i - 1 \in t .. (u - 1)
    BY <1>0, <1>1, <1>2, <1>5
  <2> QED
    BY <1>0, <1>2, <2>1
<1>8. k <= Len(q) => q[k] \notin ds
  <2>1. ASSUME k <= Len(q) PROVE k \in 1 .. Len(q) /\ t < e
    BY <1>0, <1>1, <1>2, <1>5, <2>1
  <2>2. k <= Len(q) => q[k] = m[p + k - 1]
    BY <1>0, <1>2, <2>1
  <2> QED
    BY <1>0, <1>5, <2>1, <2>2
<1>9. j <= Len(q) => q[j] \in ds
  <2>1. ASSUME j <= Len(q) PROVE j \in 1 .. Len(q) /\ u < e
    BY <1>0, <1>1, <1>2, <1>5, <2>1
  <2>2. j <= Len(q) => q[j] = m[p + j - 1]
    BY <1>0, <1>2, <2>1
  <2> QED
    BY <1>0, <1>5, <2>1, <2>2
<1>12. ASSUME NEW i \in 1 .. Len(q) PROVE q[i] \in Chars
  <2>1. i \in 1 .. Len(q) /\ p + i - 1 \in p .. (e - 1) /\ p + i - 1 \in 1 .. Len(m)
    BY <1>0, <1>1, <1>2, <1>5
  <2>2. m[p + i - 1] # K!NUL /\ m[p + i - 1] \in Letters
    BY <1>0, <1>1, <2>1
  <2> QED
    BY <1>0, <1>2, <2>1, <2>2 DEF Letters
<1>10. q \in Seq(Letters) /\ k \in 1 .. (Len(q) + 1) /\ j \in k .. (Len(q) + 1)
  BY <1>0, <1>2, <1>5
<1>11. K!Piece(q, ds) = [piece |-> SubSeq(q, k, j - 1), rest |-> SubSeq(q, j + 1, Len(q))]
  BY <1>0, <1>6, <1>7, <1>8, <1>9, <1>10, <1>12, PieceOf
<1> QED
  BY <1>0, <1>3, <1>4, <1>5, <1>11 DEF q

-----------------------------------------------------------------------------

\* What is left of the text that was begun and ends at e, from p on, being
\* as it was then; it is not known where if nothing is left.
Left(p, e, rest) ==
    IF p = K!NULL THEN rest = <<>>
    ELSE /\ p \in begun.at .. e
         /\ rest = SubSeq(begun.mem, p, e - 1)
         /\ \A x \in p .. e : mem[x] = begun.mem[x]

\* A piece was returned, and is still there, before b.
Stays(t, piece, e, b) ==
    IF piece = <<>> THEN t = K!NULL
    ELSE \E u \in begun.at .. e :
            /\ t >= begun.at /\ EndsAt(mem, t, u) /\ piece = SubSeq(mem, t, u - 1)
            /\ b # K!NULL => u < b

\* rests has what is left after each call.
Rests(rests, e) ==
    /\ rests[0] = SubSeq(begun.mem, begun.at, e - 1)
    /\ \A k \in 1 .. Len(since) :
          rests[k] = K!Piece(rests[k - 1], since[k].delim).rest

Stay(rests, e, b) ==
    \A k \in 1 .. Len(since) :
        Stays(since[k].tok, K!Piece(rests[k - 1], since[k].delim).piece, e, b)

\* A call that has come to s has passed delimiters only, before a token.
Passed(rests, e) ==
    \E p \in begun.at .. e :
        /\ p # K!NULL
        /\ Left(p, e, rests[Len(since)]) /\ Stay(rests, e, p)
        /\ at = "skip" => /\ s \in p .. e
                          /\ \A x \in p .. (s - 1) : mem[x] \in delim
        /\ at = "scan" => /\ tok \in p .. (e - 1) /\ s \in (tok + 1) .. e
                          /\ \A x \in p .. (tok - 1) : mem[x] \in delim
                          /\ \A x \in tok .. (s - 1) : mem[x] \notin delim

Separating ==
    \E e, rests :
        /\ EndsAt(begun.mem, begun.at, e)
        /\ Rests(rests, e)
        /\ \A x \in 1 .. Len(mem) : mem[x] # begun.mem[x] => x \in begun.at .. (e - 1)
        /\ at = "idle" => Left(last, e, rests[Len(since)]) /\ Stay(rests, e, last)
        /\ at \in {"skip", "scan"} => Passed(rests, e)
        /\ at = "return" =>
              LET next == K!Piece(rests[Len(since)], delim)
              IN  /\ Left(last, e, next.rest) /\ Stay(rests, e, last)
                  /\ Stays(tok, next.piece, e, last)

StrtokType ==
    /\ at \in {"idle", "skip", "scan", "return"}
    /\ mem \in Seq(Letters) /\ Len(mem) >= Len(SecondText) + 2
    /\ mem[Len(mem)] = K!NUL
    /\ delim \subseteq Chars
    /\ {s, tok, last} \subseteq Nat
    /\ begun \in [mem : Seq(Letters), at : Nat] /\ Len(begun.mem) = Len(mem)
    /\ begun.mem[Len(mem)] = K!NUL
    /\ since \in Seq([delim : SUBSET Chars, tok : Nat])

StrtokInv ==
    /\ StrtokType
    /\ begun.at = K!NULL => last = K!NULL /\ at \in {"idle", "return"}
    /\ begun.at # K!NULL => Separating

LEMMA SeparatesFollows == StrtokInv => K!Separates
<1> SUFFICES ASSUME StrtokInv, begun.at # K!NULL PROVE K!Separates
  BY DEF K!Separates
<1> USE DEF K!NULL
<1>1. PICK e, rests :
        /\ EndsAt(begun.mem, begun.at, e)
        /\ Rests(rests, e)
        /\ \A x \in 1 .. Len(mem) : mem[x] # begun.mem[x] => x \in begun.at .. (e - 1)
        /\ \E b : Stay(rests, e, b)
  BY DEF StrtokInv, StrtokType, Separating, Passed
<1>2. /\ mem \in Seq(Letters) /\ begun.mem \in Seq(Letters) /\ Len(begun.mem) = Len(mem)
      /\ Len(mem) \in Nat /\ begun.at \in Nat /\ DOMAIN mem = 1 .. Len(mem)
      /\ Len(since) \in Nat /\ DOMAIN since = 1 .. Len(since)
  BY LenProperties DEF StrtokInv, StrtokType
<1>3. /\ begun.at \in 1 .. e /\ e \in 1 .. Len(mem)
      /\ K!StringAt(begun.mem, begun.at) = SubSeq(begun.mem, begun.at, e - 1)
      /\ Len(K!StringAt(begun.mem, begun.at)) = e - begun.at
  <2>1. begun.at \in 1 .. e /\ e \in 1 .. Len(mem)
    BY <1>1, <1>2 DEF EndsAt
  <2>2. K!StringAt(begun.mem, begun.at) = SubSeq(begun.mem, begun.at, e - 1)
    BY <1>1, <1>2, StringIs
  <2>3. \A i \in begun.at .. (e - 1) : begun.mem[i] \in Letters
    BY <1>2, <2>1, ElementOfSeq
  <2>4. Len(SubSeq(begun.mem, begun.at, e - 1)) = e - begun.at
    BY <1>2, <2>1, <2>3, SubSeqProperties
  <2> QED
    BY <2>1, <2>2, <2>4
<1> DEFINE Fits(f) ==
             f = [k \in 0 .. Len(since) |->
                    IF k = 0 THEN K!StringAt(begun.mem, begun.at)
                    ELSE K!Piece(f[k - 1], since[k].delim).rest]
           rest == CHOOSE f : Fits(f)
<1>4. \A k \in 0 .. Len(since) : rest[k] = rests[k]
  <2> DEFINE g == [k \in 0 .. Len(since) |-> rests[k]]
  <2>1. Fits(g)
    <3>1. \A k \in 0 .. Len(since) :
             g[k] = IF k = 0 THEN K!StringAt(begun.mem, begun.at)
                    ELSE K!Piece(g[k - 1], since[k].delim).rest
      <4> TAKE k \in 0 .. Len(since)
      <4>1. CASE k = 0
        BY <1>1, <1>2, <1>3, <4>1 DEF Rests
      <4>2. CASE k # 0
        <5>1. k \in 1 .. Len(since) /\ k - 1 \in 0 .. Len(since)
          BY <1>2, <4>2
        <5>2. g[k] = rests[k] /\ g[k - 1] = rests[k - 1]
          BY <5>1
        <5> QED
          BY <1>1, <4>2, <5>1, <5>2 DEF Rests
      <4> QED
        BY <4>1, <4>2
    <3> HIDE DEF g
    <3> DEFINE h == [k \in 0 .. Len(since) |->
                       IF k = 0 THEN K!StringAt(begun.mem, begun.at)
                       ELSE K!Piece(g[k - 1], since[k].delim).rest]
    <3>2. \A k \in 0 .. Len(since) : g[k] = h[k]
      BY <3>1
    <3>3. g = h
      BY <3>2 DEF g
    <3> QED
      BY <3>3
  <2>2. Fits(rest)
    BY <2>1
  <2> HIDE DEF rest, g
  <2> DEFINE S == {k \in 0 .. Len(since) : rest[k] = rests[k]}
  <2>3. 0 \in S
    BY <1>1, <1>2, <1>3, <2>2 DEF Rests
  <2>4. ASSUME NEW k \in 0 .. (Len(since) - 1), k \in S PROVE k + 1 \in S
    <3>1. rest[k + 1] = K!Piece(rest[k], since[k + 1].delim).rest
      BY <1>2, <2>2
    <3>2. rests[k + 1] = K!Piece(rests[k], since[k + 1].delim).rest
      BY <1>1, <1>2 DEF Rests
    <3> QED
      BY <1>2, <2>4, <3>1, <3>2
  <2>5. \A k \in 0 .. Len(since) : k \in S
    <3> HIDE DEF S
    <3> QED
      BY <1>2, <2>3, <2>4, BoundedInduction
  <2> QED
    BY <2>5
<1> HIDE DEF rest
<1>5. ASSUME NEW i \in 1 .. Len(since)
      PROVE  K!Pieces[i] = K!Piece(rests[i - 1], since[i].delim).piece
  <2>1. K!Pieces[i] = K!Piece(rest[i - 1], since[i].delim).piece
    BY <1>2 DEF K!Pieces, rest
  <2> QED
    BY <1>2, <1>4, <2>1
<1>6. ASSUME NEW i \in 1 .. Len(since)
      PROVE  IF K!Pieces[i] = <<>> THEN since[i].tok = K!NULL
             ELSE /\ since[i].tok \in begun.at .. e
                  /\ K!StringAt(mem, since[i].tok) = K!Pieces[i]
  <2>1. CASE K!Pieces[i] = <<>>
    BY <1>1, <1>5, <2>1 DEF Stay, Stays
  <2>2. CASE K!Pieces[i] # <<>>
    <3>1. PICK u \in begun.at .. e :
            /\ since[i].tok >= begun.at /\ EndsAt(mem, since[i].tok, u)
            /\ K!Pieces[i] = SubSeq(mem, since[i].tok, u - 1)
      BY <1>1, <1>5, <2>2 DEF Stay, Stays
    <3>2. K!StringAt(mem, since[i].tok) = K!Pieces[i]
      BY <1>2, <3>1, StringIs
    <3> QED
      BY <1>2, <1>3, <2>2, <3>1, <3>2 DEF EndsAt
  <2> QED
    BY <2>1, <2>2
<1>7. begun.at + Len(K!StringAt(begun.mem, begun.at)) = e
  BY <1>2, <1>3
<1> QED
  BY <1>1, <1>2, <1>6, <1>7 DEF K!Separates

LEMMA StrtokInitHolds == K!Init => StrtokInv
<1> SUFFICES ASSUME K!Init PROVE StrtokInv
  OBVIOUS
<1>1. PICK t \in Texts : mem = t \o <<K!NUL>> \o SecondText \o <<K!NUL>>
  BY DEF K!Init
<1>2. K!NUL \in Letters
  BY DEF Letters
<1>3. t \in Seq(Letters) /\ SecondText \in Seq(Letters) /\ <<K!NUL>> \in Seq(Letters)
  <2>1. /\ t \in Seq(Chars) /\ SecondText \in Seq(Chars)
        /\ Chars \subseteq Letters
    BY TextsAssumption DEF K!StrtokAssumption, Letters
  <2>2. t \in Seq(Letters) /\ SecondText \in Seq(Letters)
    BY <2>1, SeqMonotonic
  <2> QED
    BY <1>2, <2>2
<1>4. PICK m1 : m1 = t \o <<K!NUL>>
  OBVIOUS
<1>5. PICK m2 : m2 = m1 \o SecondText
  OBVIOUS
<1>6. m1 \in Seq(Letters) /\ Len(m1) = Len(t) + 1 /\ Len(t) \in Nat
  BY <1>3, <1>4, ConcatProperties, LenProperties
<1>7. m2 \in Seq(Letters) /\ Len(m2) = Len(m1) + Len(SecondText) /\ Len(SecondText) \in Nat
  BY <1>3, <1>5, <1>6, ConcatProperties, LenProperties
<1>8. mem \in Seq(Letters) /\ Len(mem) = Len(m2) + 1 /\ mem[Len(mem)] = K!NUL
  <2>1. mem = m2 \o <<K!NUL>> /\ Len(<<K!NUL>>) = 1 /\ <<K!NUL>>[1] = K!NUL
    BY <1>1, <1>4, <1>5
  <2> DEFINE z == <<K!NUL>>
  <2>2. /\ m2 \o z \in Seq(Letters) /\ Len(m2 \o z) = Len(m2) + Len(z)
        /\ \A i \in 1 .. (Len(m2) + Len(z)) :
              (m2 \o z)[i] = IF i <= Len(m2) THEN m2[i] ELSE z[i - Len(m2)]
    <3>1. z \in Seq(Letters)
      BY <1>3 DEF z
    <3>2. m2 \in Seq(Letters)
      BY <1>7
    <3> HIDE DEF z
    <3> QED
      BY ONLY <3>1, <3>2, ConcatProperties
  <2>3. Len(mem) = Len(m2) + 1 /\ mem[Len(m2) + 1] = z[1]
    BY <1>6, <1>7, <2>1, <2>2
  <2> QED
    BY <1>6, <1>7, <2>1, <2>2, <2>3
<1>9. StrtokType
  BY <1>6, <1>7, <1>8 DEF K!Init, StrtokType, K!NULL
<1> QED
  BY <1>9 DEF K!Init, StrtokInv

LEMMA CallSeparates ==
  ASSUME StrtokInv, NEW arg \in {K!NULL, K!FirstAt, K!SecondAt}, NEW ds \in Delims,
         K!Call(arg, ds)
  PROVE  StrtokInv'
<1> USE DEF K!NULL
<1>1. ds \subseteq Chars /\ Len(SecondText) \in Nat
  BY TextsAssumption, LenProperties DEF K!StrtokAssumption
<1>2. /\ StrtokType /\ at = "idle" /\ delim' = ds /\ mem' = mem /\ last' = last
      /\ Len(mem) \in Nat /\ Len(since) \in Nat
  BY LenProperties DEF StrtokInv, StrtokType, K!Call
<1>3. CASE arg # K!NULL
  <2>1. arg \in 1 .. Len(mem)
    BY <1>1, <1>2, <1>3 DEF K!FirstAt, K!SecondAt, StrtokType
  <2>2. /\ s' = arg /\ at' = "skip" /\ tok' = tok /\ since' = <<>>
        /\ begun' = [mem |-> mem, at |-> arg]
    BY <1>3, <2>1 DEF K!Call
  <2>3. StrtokType'
    BY <1>1, <1>2, <2>1, <2>2 DEF StrtokType
  <2>4. PICK e : EndsAt(mem, arg, e)
    BY <1>2, <2>1, StringEnds DEF StrtokType
  <2>9. PICK rests : rests = [k \in {0} |-> SubSeq(mem, arg, e - 1)]
    OBVIOUS
  <2>5. EndsAt(begun'.mem, begun'.at, e) /\ begun'.mem = mem /\ begun'.at = arg
    BY <2>2, <2>4
  <2>6. Rests(rests, e)'
    <3>1. rests[0] = SubSeq(mem, arg, e - 1) /\ Len(since') = 0
      BY <2>2, <2>9
    <3> QED
      BY <2>5, <3>1 DEF Rests
  <2>7. Passed(rests, e)'
    <3>1. arg \in begun'.at .. e /\ Left(arg, e, rests[Len(since)])' /\ Stay(rests, e, arg)'
      BY <1>2, <2>1, <2>2, <2>4, <2>9 DEF EndsAt, Left, Stay
    <3> QED
      BY <1>3, <2>1, <2>2, <3>1 DEF Passed
  <2>8. Separating'
    BY <1>2, <2>2, <2>5, <2>6, <2>7 DEF Separating
  <2> QED
    BY <2>1, <2>2, <2>3, <2>8 DEF StrtokInv
<1>4. CASE arg = K!NULL
  <2>1. /\ s' = last /\ begun' = begun /\ since' = since
        /\ IF last = 0 THEN at' = "return" /\ tok' = 0 ELSE at' = "skip" /\ tok' = tok
    BY <1>4 DEF K!Call
  <2>2. StrtokType'
    BY <1>1, <1>2, <2>1 DEF StrtokType
  <2>3. CASE begun.at = K!NULL
    BY <1>2, <2>1, <2>2, <2>3 DEF StrtokInv
  <2>4. CASE begun.at # K!NULL
    <3>1. PICK e, rests :
            /\ EndsAt(begun.mem, begun.at, e) /\ Rests(rests, e)
            /\ \A x \in 1 .. Len(mem) : mem[x] # begun.mem[x] => x \in begun.at .. (e - 1)
            /\ Left(last, e, rests[Len(since)]) /\ Stay(rests, e, last)
      BY <1>2, <2>4 DEF StrtokInv, Separating
    <3>2. Rests(rests, e)'
      BY <2>1, <3>1 DEF Rests
    <3>3. Stay(rests, e, last)' /\ Left(last, e, rests[Len(since)])'
      BY <1>2, <2>1, <3>1 DEF Stay, Stays, Left
    <3>4. CASE last = 0
      <4>1. rests[Len(since)] = <<>>
        BY <3>1, <3>4 DEF Left
      <4>2. K!Piece(<<>>, ds) = [piece |-> <<>>, rest |-> <<>>]
        BY PieceOfNothing
      <4>3. K!Piece(rests[Len(since)], delim)' = [piece |-> <<>>, rest |-> <<>>]
        BY <1>2, <2>1, <4>1, <4>2
      <4>4. Left(last, e, <<>>)' /\ Stays(tok, <<>>, e, last)'
        BY <1>2, <2>1, <3>4 DEF Left, Stays
      <4>5. Separating'
        BY <1>2, <2>1, <3>1, <3>2, <3>3, <3>4, <4>3, <4>4 DEF Separating
      <4> QED
        BY <2>1, <2>2, <2>4, <3>4, <4>5 DEF StrtokInv
    <3>5. CASE last # 0
      <4>1. last \in begun.at .. e
        BY <3>1, <3>5 DEF Left
      <4>2. Passed(rests, e)'
        BY <1>2, <2>1, <3>1, <3>3, <3>5, <4>1 DEF Passed, EndsAt
      <4>3. Separating'
        BY <1>2, <2>1, <3>1, <3>2, <3>5, <4>2 DEF Separating
      <4> QED
        BY <2>1, <2>2, <2>4, <3>5, <4>3 DEF StrtokInv
    <3> QED
      BY <3>4, <3>5
  <2> QED
    BY <2>3, <2>4
<1> QED
  BY <1>3, <1>4

\* A call on the way stands somewhere in the text that was begun.
LEMMA Passing ==
  ASSUME StrtokInv, at \in {"skip", "scan"}
  PROVE  /\ begun.at \in Nat \ {K!NULL} /\ delim \subseteq Chars /\ K!NUL \notin delim
         /\ mem \in Seq(Letters) /\ Len(mem) \in Nat /\ DOMAIN mem = 1 .. Len(mem)
         /\ begun.mem \in Seq(Letters) /\ Len(begun.mem) = Len(mem)
         /\ Len(since) \in Nat /\ s \in Nat /\ tok \in Nat
         /\ \E e, rests, p :
               /\ EndsAt(begun.mem, begun.at, e) /\ Rests(rests, e)
               /\ \A x \in 1 .. Len(mem) :
                     mem[x] # begun.mem[x] => x \in begun.at .. (e - 1)
               /\ p \in begun.at .. e /\ p \in Nat \ {0} /\ e \in 1 .. Len(mem)
               /\ rests[Len(since)] = SubSeq(begun.mem, p, e - 1)
               /\ \A x \in p .. e : mem[x] = begun.mem[x]
               /\ \A x \in p .. (e - 1) : mem[x] # K!NUL
               /\ mem[e] = K!NUL
               /\ Left(p, e, rests[Len(since)])
               /\ Stay(rests, e, p)
               /\ at = "skip" => /\ s \in p .. e
                                 /\ \A x \in p .. (s - 1) : mem[x] \in delim
               /\ at = "scan" => /\ tok \in p .. (e - 1) /\ s \in (tok + 1) .. e
                                 /\ \A x \in p .. (tok - 1) : mem[x] \in delim
                                 /\ \A x \in tok .. (s - 1) : mem[x] \notin delim
<1> USE DEF K!NULL
<1>1. /\ begun.at \in Nat \ {K!NULL} /\ delim \subseteq Chars /\ K!NUL \notin delim
      /\ mem \in Seq(Letters) /\ Len(mem) \in Nat /\ DOMAIN mem = 1 .. Len(mem)
      /\ begun.mem \in Seq(Letters) /\ Len(begun.mem) = Len(mem)
      /\ Len(since) \in Nat /\ s \in Nat /\ tok \in Nat
  BY LenProperties, TextsAssumption DEF StrtokInv, StrtokType, K!StrtokAssumption
<1>2. PICK e, rests :
         /\ EndsAt(begun.mem, begun.at, e) /\ Rests(rests, e)
         /\ \A x \in 1 .. Len(mem) : mem[x] # begun.mem[x] => x \in begun.at .. (e - 1)
         /\ Passed(rests, e)
  BY <1>1 DEF StrtokInv, Separating
<1>3. PICK p \in begun.at .. e :
         /\ p # K!NULL
         /\ Left(p, e, rests[Len(since)]) /\ Stay(rests, e, p)
         /\ at = "skip" => /\ s \in p .. e
                           /\ \A x \in p .. (s - 1) : mem[x] \in delim
         /\ at = "scan" => /\ tok \in p .. (e - 1) /\ s \in (tok + 1) .. e
                           /\ \A x \in p .. (tok - 1) : mem[x] \in delim
                           /\ \A x \in tok .. (s - 1) : mem[x] \notin delim
  BY <1>2 DEF Passed
<1>4. /\ e \in 1 .. Len(mem) /\ p \in Nat \ {0}
      /\ rests[Len(since)] = SubSeq(begun.mem, p, e - 1)
      /\ \A x \in p .. e : mem[x] = begun.mem[x]
      /\ \A x \in p .. (e - 1) : mem[x] # K!NUL
      /\ mem[e] = K!NUL
  <2>1. /\ begun.at \in 1 .. e /\ e \in 1 .. Len(mem)
        /\ begun.mem[e] = K!NUL /\ \A j \in begun.at .. (e - 1) : begun.mem[j] # K!NUL
    BY <1>1, <1>2 DEF EndsAt
  <2>2. /\ rests[Len(since)] = SubSeq(begun.mem, p, e - 1)
        /\ \A x \in p .. e : mem[x] = begun.mem[x]
    BY <1>3 DEF Left
  <2>3. /\ p \in Nat \ {0} /\ e \in p .. e
        /\ \A x \in p .. (e - 1) : x \in p .. e /\ x \in begun.at .. (e - 1)
    BY <1>1, <1>3, <2>1
  <2> QED
    BY <2>1, <2>2, <2>3
<1> QED
  BY <1>1, <1>2, <1>3, <1>4

LEMMA StaysThere ==
  ASSUME mem' = mem, begun' = begun, since' = since
  PROVE  /\ \A rests, e : Rests(rests, e) => Rests(rests, e)'
         /\ \A p, e, rest : Left(p, e, rest) => Left(p, e, rest)'
         /\ \A t, piece, e, b : Stays(t, piece, e, b) => Stays(t, piece, e, b)'
         /\ \A rests, e, b : Stay(rests, e, b) => Stay(rests, e, b)'
<1>1. \A rests, e : Rests(rests, e) => Rests(rests, e)'
  BY DEF Rests
<1>2. \A p, e, rest : Left(p, e, rest) => Left(p, e, rest)'
  BY DEF Left
<1>3. \A t, piece, e, b : Stays(t, piece, e, b) => Stays(t, piece, e, b)'
  BY DEF Stays
<1>4. \A rests, e, b : Stay(rests, e, b) => Stay(rests, e, b)'
  BY <1>3 DEF Stay
<1> QED
  BY <1>1, <1>2, <1>3, <1>4

LEMMA PassesOn ==
  ASSUME StrtokInv, K!Skip \/ K!TokenBegins \/ K!Scan
  PROVE  StrtokInv'
<1> USE DEF K!NULL
<1>1. /\ mem' = mem /\ delim' = delim /\ begun' = begun /\ since' = since /\ last' = last
      /\ at \in {"skip", "scan"} /\ s' = s + 1
  BY DEF K!Skip, K!TokenBegins, K!Scan
<1>2. PICK e, rests, p :
               /\ EndsAt(begun.mem, begun.at, e) /\ Rests(rests, e)
               /\ \A x \in 1 .. Len(mem) :
                     mem[x] # begun.mem[x] => x \in begun.at .. (e - 1)
               /\ p \in begun.at .. e /\ p \in Nat \ {0} /\ e \in 1 .. Len(mem)
               /\ \A x \in p .. (e - 1) : mem[x] # K!NUL
               /\ mem[e] = K!NUL
               /\ Left(p, e, rests[Len(since)])
               /\ Stay(rests, e, p)
               /\ at = "skip" => /\ s \in p .. e
                                 /\ \A x \in p .. (s - 1) : mem[x] \in delim
               /\ at = "scan" => /\ tok \in p .. (e - 1) /\ s \in (tok + 1) .. e
                                 /\ \A x \in p .. (tok - 1) : mem[x] \in delim
                                 /\ \A x \in tok .. (s - 1) : mem[x] \notin delim
  BY <1>1, Passing
<1>3. begun.at \in Nat \ {K!NULL} /\ K!NUL \notin delim /\ s \in Nat
  BY <1>1, Passing
<1>4. Rests(rests, e)' /\ Left(p, e, rests[Len(since)])' /\ Stay(rests, e, p)'
  BY <1>1, <1>2, StaysThere
<1>5. /\ at' \in {"skip", "scan"} /\ tok' \in Nat
      /\ at' = "skip" => /\ s + 1 \in p .. e
                         /\ \A x \in p .. s : mem[x] \in delim
      /\ at' = "scan" => /\ tok' \in p .. (e - 1) /\ s + 1 \in (tok' + 1) .. e
                         /\ \A x \in p .. (tok' - 1) : mem[x] \in delim
                         /\ \A x \in tok' .. s : mem[x] \notin delim
  <2>1. CASE K!Skip
    <3>1. at = "skip" /\ at' = "skip" /\ mem[s] \in delim /\ tok' = tok
      BY <2>1 DEF K!Skip
    <3>2. s < e /\ \A x \in p .. s : x \in p .. (s - 1) \/ x = s
      BY <1>2, <1>3, <3>1
    <3> QED
      BY <1>2, <1>3, <3>1, <3>2 DEF StrtokInv, StrtokType
  <2>2. CASE K!TokenBegins
    <3>1. at = "skip" /\ at' = "scan" /\ mem[s] \notin delim \cup {K!NUL} /\ tok' = s
      BY <2>2 DEF K!TokenBegins
    <3>2. s < e
      BY <1>2, <1>3, <3>1
    <3> QED
      BY <1>2, <1>3, <3>1, <3>2
  <2>3. CASE K!Scan
    <3>1. at = "scan" /\ at' = "scan" /\ mem[s] \notin delim \cup {K!NUL} /\ tok' = tok
      BY <2>3 DEF K!Scan
    <3>2. s < e /\ \A x \in tok .. s : x \in tok .. (s - 1) \/ x = s
      BY <1>2, <1>3, <3>1
    <3> QED
      BY <1>2, <1>3, <3>1, <3>2 DEF StrtokInv, StrtokType
  <2> QED
    BY <2>1, <2>2, <2>3
<1>6. Passed(rests, e)'
  <2>1. /\ at' = "skip" => /\ s' \in p .. e
                          /\ \A x \in p .. (s' - 1) : mem'[x] \in delim'
        /\ at' = "scan" => /\ tok' \in p .. (e - 1) /\ s' \in (tok' + 1) .. e
                           /\ \A x \in p .. (tok' - 1) : mem'[x] \in delim'
                           /\ \A x \in tok' .. (s' - 1) : mem'[x] \notin delim'
    <3>1. s' - 1 = s
      BY <1>1, <1>3
    <3> QED
      BY <1>1, <1>5, <3>1
  <2> QED
    BY <1>1, <1>2, <1>4, <2>1 DEF Passed
<1>7. Separating'
  BY <1>1, <1>2, <1>4, <1>5, <1>6 DEF Separating
<1>8. StrtokType'
  BY <1>1, <1>3, <1>5 DEF StrtokInv, StrtokType
<1> QED
  BY <1>1, <1>3, <1>7, <1>8 DEF StrtokInv

LEMMA NoTokenSeparates ==
  ASSUME StrtokInv, K!NoToken
  PROVE  StrtokInv'
<1> USE DEF K!NULL
<1>1. /\ mem' = mem /\ delim' = delim /\ begun' = begun /\ since' = since /\ last' = 0
      /\ at = "skip" /\ mem[s] = K!NUL /\ at' = "return" /\ tok' = 0 /\ s' = s
  BY DEF K!NoToken
<1>2. PICK e, rests, p :
               /\ EndsAt(begun.mem, begun.at, e) /\ Rests(rests, e)
               /\ \A x \in 1 .. Len(mem) :
                     mem[x] # begun.mem[x] => x \in begun.at .. (e - 1)
               /\ p \in begun.at .. e /\ p \in Nat \ {0} /\ e \in 1 .. Len(mem)
               /\ rests[Len(since)] = SubSeq(begun.mem, p, e - 1)
               /\ \A x \in p .. e : mem[x] = begun.mem[x]
               /\ \A x \in p .. (e - 1) : mem[x] # K!NUL
               /\ Stay(rests, e, p)
               /\ s \in p .. e
               /\ \A x \in p .. (s - 1) : mem[x] \in delim
  BY <1>1, Passing
<1>3. /\ begun.at \in Nat \ {K!NULL} /\ Len(begun.mem) = Len(mem) /\ Len(mem) \in Nat
      /\ begun.mem \in Seq(Letters) /\ s \in Nat
  BY <1>1, Passing
<1>4. s = e
  BY <1>1, <1>2, <1>3
<1>5. K!Piece(rests[Len(since)], delim) = [piece |-> <<>>, rest |-> <<>>]
  <2>1. PICK m, t : m = begun.mem /\ t = e
    OBVIOUS
  <2>2. /\ m \in Seq(Letters) /\ p \in 1 .. Len(m) /\ e \in p .. Len(m)
        /\ t \in p .. e /\ t \in t .. e /\ ~(t < e)
    BY <1>2, <1>3, <2>1
  <2>3. \A i \in p .. (e - 1) : m[i] # K!NUL /\ m[i] \in delim
    <3> TAKE i \in p .. (e - 1)
    <3>1. i \in p .. e /\ i \in p .. (s - 1)
      BY <1>2, <1>3, <1>4
    <3> QED
      BY <1>2, <2>1, <3>1
  <2>4. \A i \in t .. (t - 1) : m[i] \notin delim
    BY <2>2
  <2>5. K!Piece(SubSeq(m, p, e - 1), delim) =
          [piece |-> SubSeq(m, t, t - 1), rest |-> SubSeq(m, t + 1, e - 1)]
    <3>1. CutsAt(m, delim, p, t, t, e)
      BY <2>2, <2>3, <2>4 DEF CutsAt
    <3> QED
      BY <3>1, PieceIn
  <2>6. SubSeq(m, t, t - 1) = <<>> /\ SubSeq(m, t + 1, e - 1) = <<>>
    BY <2>1, <2>2, SubSeqEmpty
  <2> QED
    BY <1>2, <2>1, <2>5, <2>6
<1>6. Stay(rests, e, 0)
  <2>1. \A t, piece : Stays(t, piece, e, p) => Stays(t, piece, e, 0)
    BY DEF Stays
  <2> QED
    BY <1>2, <2>1 DEF Stay
<1>7. Rests(rests, e)' /\ Stay(rests, e, last)'
  BY <1>1, <1>2, <1>6 DEF Rests, Stay, Stays
<1>8. Left(last, e, <<>>)' /\ Stays(tok, <<>>, e, last)'
  BY <1>1 DEF Left, Stays
<1>11. K!Piece(rests[Len(since)], delim)' = [piece |-> <<>>, rest |-> <<>>]
  BY <1>1, <1>5
<1>9. Separating'
  <2>1. /\ EndsAt(begun.mem, begun.at, e)'
        /\ \A x \in 1 .. Len(mem') : mem'[x] # begun'.mem[x] => x \in begun'.at .. (e - 1)
    BY <1>1, <1>2
  <2>2. at' = "return"
    BY <1>1
  <2> QED
    BY <1>7, <1>8, <1>11, <2>1, <2>2 DEF Separating
<1>10. StrtokType'
  BY <1>1 DEF StrtokInv, StrtokType
<1> QED
  BY <1>1, <1>3, <1>9, <1>10 DEF StrtokInv

LEMMA TokenSeparates ==
  ASSUME StrtokInv, K!TokenEnds
  PROVE  StrtokInv'
<1> USE DEF K!NULL
<1>1. /\ delim' = delim /\ begun' = begun /\ since' = since /\ tok' = tok
      /\ at = "scan" /\ mem[s] \in delim \cup {K!NUL} /\ at' = "return"
      /\ s' = (IF mem[s] = K!NUL THEN 0 ELSE s + 1) /\ last' = s'
      /\ mem' = [mem EXCEPT ![s] = K!NUL]
  BY DEF K!TokenEnds, K!Behind
<1>2. PICK e, rests, p :
               /\ EndsAt(begun.mem, begun.at, e) /\ Rests(rests, e)
               /\ \A x \in 1 .. Len(mem) :
                     mem[x] # begun.mem[x] => x \in begun.at .. (e - 1)
               /\ p \in begun.at .. e /\ p \in Nat \ {0} /\ e \in 1 .. Len(mem)
               /\ rests[Len(since)] = SubSeq(begun.mem, p, e - 1)
               /\ \A x \in p .. e : mem[x] = begun.mem[x]
               /\ \A x \in p .. (e - 1) : mem[x] # K!NUL
               /\ mem[e] = K!NUL
               /\ Stay(rests, e, p)
               /\ at = "scan" => /\ tok \in p .. (e - 1) /\ s \in (tok + 1) .. e
                                 /\ \A x \in p .. (tok - 1) : mem[x] \in delim
                                 /\ \A x \in tok .. (s - 1) : mem[x] \notin delim
  BY <1>1, Passing
<1>15. /\ tok \in p .. (e - 1) /\ s \in (tok + 1) .. e
       /\ \A x \in p .. (tok - 1) : mem[x] \in delim
       /\ \A x \in tok .. (s - 1) : mem[x] \notin delim
  BY <1>1, <1>2
<1>3. /\ begun.at \in Nat \ {K!NULL} /\ Len(begun.mem) = Len(mem) /\ Len(mem) \in Nat
      /\ begun.mem \in Seq(Letters) /\ mem \in Seq(Letters) /\ s \in Nat /\ tok \in Nat
      /\ DOMAIN mem = 1 .. Len(mem) /\ K!NUL \notin delim
  BY <1>1, Passing
<1>17. /\ tok \in Nat \ {0} /\ tok < s /\ s <= e /\ s \in 1 .. Len(mem)
       /\ \A x \in tok .. (s - 1) : x \in p .. e /\ mem[x] # K!NUL
  BY <1>2, <1>3, <1>15
<1>4. mem[s] = K!NUL => s = e
  <2>1. s < e => s \in p .. (e - 1)
    BY <1>2, <1>3, <1>15, <1>17
  <2> QED
    BY <1>2, <1>3, <1>17, <2>1
<1>5. s < e => mem[s] \in delim
  BY <1>1, <1>2, <1>3, <1>15
<1>6. /\ mem' \in Seq(Letters) /\ Len(mem') = Len(mem)
      /\ \A x \in 1 .. Len(mem) : mem'[x] = IF x = s THEN K!NUL ELSE mem[x]
  <2>1. s \in 1 .. Len(mem) /\ K!NUL \in Letters
    BY <1>2, <1>3, <1>15 DEF Letters
  <2> QED
    BY <1>1, <1>3, <2>1, ExceptSeq
<1>7. PICK next : next = K!Piece(rests[Len(since)], delim)
  OBVIOUS
<1>16. next = [piece |-> SubSeq(begun.mem, tok, s - 1), rest |-> SubSeq(begun.mem, s + 1, e - 1)]
  <2>1. PICK m, t, u : m = begun.mem /\ t = tok /\ u = s
    OBVIOUS
  <2>2. /\ m \in Seq(Letters) /\ p \in 1 .. Len(m) /\ e \in p .. Len(m)
        /\ t \in p .. e /\ u \in t .. e /\ t \in t .. (u - 1)
    BY <1>2, <1>3, <1>15, <2>1
  <2>3. \A i \in p .. e : m[i] = mem[i]
    BY <1>2, <2>1
  <2>4. \A i \in p .. (e - 1) : m[i] # K!NUL
    <3> TAKE i \in p .. (e - 1)
    <3>1. i \in p .. e
      BY <2>2
    <3> QED
      BY <1>2, <2>3, <3>1
  <2>5. \A i \in p .. (t - 1) : m[i] \in delim
    <3> TAKE i \in p .. (t - 1)
    <3>1. i \in p .. e
      BY <2>2
    <3> QED
      BY <1>15, <2>1, <2>3, <3>1
  <2>6. \A i \in t .. (u - 1) : m[i] \notin delim
    <3> TAKE i \in t .. (u - 1)
    <3>1. i \in p .. e
      BY <2>2
    <3> QED
      BY <1>15, <2>1, <2>3, <3>1
  <2>7. m[t] \notin delim
    BY <2>2, <2>6
  <2>8. u < e => m[u] \in delim
    <3>1. u \in p .. e
      BY <2>2
    <3> QED
      BY <1>5, <2>1, <2>3, <3>1
  <2>9. K!Piece(SubSeq(m, p, e - 1), delim) =
          [piece |-> SubSeq(m, t, u - 1), rest |-> SubSeq(m, u + 1, e - 1)]
    <3>1. CutsAt(m, delim, p, t, u, e)
      BY <2>2, <2>4, <2>5, <2>6, <2>7, <2>8 DEF CutsAt
    <3> QED
      BY <3>1, PieceIn
  <2> QED
    BY <1>2, <1>7, <2>1, <2>9
<1>8. /\ \A x \in 1 .. Len(mem) : mem'[x] # begun.mem[x] => x \in begun.at .. (e - 1)
      /\ \A x \in (s + 1) .. e : mem'[x] = begun.mem[x]
      /\ \A x \in tok .. (s - 1) : mem'[x] = mem[x] /\ mem[x] = begun.mem[x]
      /\ mem'[s] = K!NUL
  <2>1. s \in 1 .. Len(mem) /\ s \in p .. e /\ s \in begun.at .. e
    BY <1>2, <1>3, <1>15
  <2>2. \A x \in (s + 1) .. e : mem'[x] = begun.mem[x]
    <3> TAKE x \in (s + 1) .. e
    <3>1. x \in p .. e /\ x \in 1 .. Len(mem) /\ x # s
      BY <1>2, <1>3, <1>15
    <3> QED
      BY <1>2, <1>6, <3>1
  <2>3. \A x \in tok .. (s - 1) : mem'[x] = mem[x] /\ mem[x] = begun.mem[x]
    <3> TAKE x \in tok .. (s - 1)
    <3>1. x \in p .. e /\ x \in 1 .. Len(mem) /\ x # s
      BY <1>2, <1>3, <1>15
    <3> QED
      BY <1>2, <1>6, <3>1
  <2>4. ASSUME NEW x \in 1 .. Len(mem), mem'[x] # begun.mem[x]
        PROVE  x \in begun.at .. (e - 1)
    <3>1. CASE x = s
      <4>1. s # e
        BY <1>2, <1>6, <2>1, <2>4, <3>1
      <4> QED
        BY <1>2, <1>3, <2>1, <3>1, <4>1
    <3>2. CASE x # s
      BY <1>2, <1>6, <2>4, <3>2
    <3> QED
      BY <3>1, <3>2
  <2> QED
    BY <1>6, <2>1, <2>2, <2>3, <2>4
<1>9. Left(last, e, next.rest)'
  <2>1. CASE mem[s] = K!NUL
    <3>1. next.rest = <<>>
      BY <1>2, <1>3, <1>4, <1>16, <2>1, SubSeqEmpty
    <3> QED
      BY <1>1, <2>1, <3>1 DEF Left
  <2>2. CASE mem[s] # K!NUL
    <3>1. last' = s + 1 /\ s + 1 \in begun.at .. e /\ s + 1 # 0
      BY <1>1, <1>2, <1>3, <1>15, <2>2
    <3> QED
      BY <1>1, <1>8, <1>16, <3>1 DEF Left
  <2> QED
    BY <2>1, <2>2
<1>10. Stays(tok, next.piece, e, last)'
  <2>1. SubSeq(mem', tok, s - 1) = SubSeq(begun.mem, tok, s - 1)
    <3>1. \A x \in tok .. (s - 1) : mem'[x] = begun.mem[x] /\ mem'[x] \in Letters
                                   /\ begun.mem[x] \in Letters
      <4>1. \A x \in tok .. (s - 1) : x \in 1 .. Len(mem) /\ x \in p .. e
        BY <1>2, <1>3, <1>15
      <4> QED
        BY <1>2, <1>3, <1>15, <1>6, <1>8, <4>1, ElementOfSeq
    <3>2. PICK v : v = SubSeq(mem', tok, s - 1)
      OBVIOUS
    <3>3. PICK w : w = SubSeq(begun.mem, tok, s - 1)
      OBVIOUS
    <3>4. /\ v \in Seq(Letters) /\ w \in Seq(Letters)
          /\ Len(v) = Len(w) /\ Len(v) = s - tok
          /\ \A i \in 1 .. (s - tok) : v[i] = mem'[tok + i - 1] /\ w[i] = begun.mem[tok + i - 1]
      BY <1>2, <1>3, <1>15, <3>1, <3>2, <3>3, SubSeqProperties
    <3>5. \A i \in 1 .. Len(v) : v[i] = w[i]
      <4>1. \A i \in 1 .. Len(v) : tok + i - 1 \in tok .. (s - 1)
        BY <1>3, <1>17, <3>4
      <4> QED
        BY <3>1, <3>4, <4>1
    <3> QED
      BY <3>2, <3>3, <3>4, <3>5, SeqEqual
  <2>2. EndsAt(mem', tok, s)
    BY <1>3, <1>6, <1>8, <1>17 DEF EndsAt
  <2>3. SubSeq(begun.mem, tok, s - 1) # <<>>
    <3>1. \A x \in tok .. (s - 1) : begun.mem[x] \in Letters
      <4>1. \A x \in tok .. (s - 1) : x \in 1 .. Len(mem)
        BY <1>2, <1>3, <1>15
      <4> QED
        BY <1>3, <4>1, ElementOfSeq
    <3>2. Len(SubSeq(begun.mem, tok, s - 1)) = s - tok
      BY <1>2, <1>3, <1>15, <3>1, SubSeqProperties
    <3> QED
      BY <1>3, <1>17, <3>2
  <2>4. s \in begun.at .. e /\ tok >= begun.at /\ (last' # 0 => s < last')
    BY <1>1, <1>2, <1>3, <1>15
  <2> QED
    BY <1>1, <1>16, <2>1, <2>2, <2>3, <2>4 DEF Stays
<1>11. Stay(rests, e, last)'
  <2>1. ASSUME NEW t, NEW piece, Stays(t, piece, e, p)
        PROVE  Stays(t, piece, e, last)'
    <3>1. CASE piece = <<>>
      BY <2>1, <3>1 DEF Stays
    <3>2. CASE piece # <<>>
      <4>1. PICK u \in begun.at .. e :
              /\ t >= begun.at /\ EndsAt(mem, t, u) /\ piece = SubSeq(mem, t, u - 1)
              /\ u < p
        BY <1>2, <2>1, <3>2 DEF Stays
      <4>2. t \in 1 .. u /\ u \in 1 .. Len(mem) /\ u < s
        BY <1>2, <1>3, <1>15, <4>1 DEF EndsAt
      <4>3. \A x \in t .. u : x \in 1 .. Len(mem) /\ mem'[x] = mem[x]
        BY <1>2, <1>3, <1>15, <1>6, <4>2
      <4>4. EndsAt(mem', t, u)
        BY <1>3, <1>6, <4>1, <4>2, <4>3 DEF EndsAt
      <4>5. SubSeq(mem', t, u - 1) = SubSeq(mem, t, u - 1)
        <5>1. \A x \in t .. (u - 1) : mem'[x] = mem[x] /\ mem[x] \in Letters
          BY <1>3, <4>2, <4>3, ElementOfSeq
        <5>2. PICK v : v = SubSeq(mem', t, u - 1)
          OBVIOUS
        <5>3. PICK w : w = SubSeq(mem, t, u - 1)
          OBVIOUS
        <5>4. /\ v \in Seq(Letters) /\ w \in Seq(Letters)
              /\ Len(v) = Len(w) /\ Len(v) = u - t
              /\ \A i \in 1 .. (u - t) : v[i] = mem'[t + i - 1] /\ w[i] = mem[t + i - 1]
          BY <1>3, <4>2, <5>1, <5>2, <5>3, SubSeqProperties
        <5>5. \A i \in 1 .. Len(v) : v[i] = w[i]
          <6>1. \A i \in 1 .. Len(v) : t + i - 1 \in t .. (u - 1)
            BY <1>3, <4>2, <5>4
          <6> QED
            BY <5>1, <5>4, <6>1
        <5> QED
          BY <5>2, <5>3, <5>4, <5>5, SeqEqual
      <4>6. last' # 0 => u < last'
        BY <1>1, <1>3, <4>2
      <4> QED
        BY <1>1, <3>2, <4>1, <4>4, <4>5, <4>6 DEF Stays
    <3> QED
      BY <3>1, <3>2
  <2> QED
    BY <1>1, <1>2, <2>1 DEF Stay
<1>12. Rests(rests, e)'
  BY <1>1, <1>2 DEF Rests
<1>13. Separating'
  <2>1. K!Piece(rests[Len(since)], delim)' = next
    BY <1>1, <1>7
  <2> QED
    BY <1>1, <1>2, <1>6, <1>8, <1>9, <1>10, <1>11, <1>12, <2>1 DEF Separating
<1>14. StrtokType'
  <2>1. mem'[Len(mem)] = K!NUL /\ s' \in Nat
    <3>1. Len(mem) \in 1 .. Len(mem) /\ mem[Len(mem)] = K!NUL
      BY <1>2, <1>3, <1>15 DEF StrtokInv, StrtokType
    <3> QED
      BY <1>1, <1>3, <1>6, <3>1
  <2> QED
    BY <1>1, <1>6, <2>1 DEF StrtokInv, StrtokType
<1> QED
  BY <1>1, <1>3, <1>13, <1>14 DEF StrtokInv

LEMMA ReturnSeparates ==
  ASSUME StrtokInv, K!Return
  PROVE  StrtokInv'
<1> USE DEF K!NULL
<1>0. PICK one : one = [delim |-> delim, tok |-> tok]
  OBVIOUS
<1>1. /\ mem' = mem /\ delim' = delim /\ begun' = begun /\ last' = last
      /\ at = "return" /\ at' = "idle" /\ tok' = tok /\ s' = s
      /\ since' = Append(since, one)
  BY <1>0 DEF K!Return
<1>2. /\ Len(since) \in Nat /\ Len(since') = Len(since) + 1
      /\ since' \in Seq([delim : SUBSET Chars, tok : Nat])
      /\ \A k \in 1 .. Len(since) : since'[k] = since[k]
      /\ since'[Len(since) + 1] = one
  BY <1>0, <1>1 DEF StrtokInv, StrtokType
<1>3. StrtokType'
  BY <1>1, <1>2 DEF StrtokInv, StrtokType
<1>4. CASE begun.at = K!NULL
  BY <1>1, <1>3, <1>4 DEF StrtokInv
<1>5. CASE begun.at # K!NULL
  <2>1. PICK e, rests :
          /\ EndsAt(begun.mem, begun.at, e) /\ Rests(rests, e)
          /\ \A x \in 1 .. Len(mem) : mem[x] # begun.mem[x] => x \in begun.at .. (e - 1)
          /\ Left(last, e, K!Piece(rests[Len(since)], delim).rest) /\ Stay(rests, e, last)
          /\ Stays(tok, K!Piece(rests[Len(since)], delim).piece, e, last)
    BY <1>1, <1>5 DEF StrtokInv, Separating
  <2>8. PICK next : next = K!Piece(rests[Len(since)], delim)
    OBVIOUS
  <2>2. PICK more : more = [k \in 0 .. (Len(since) + 1) |->
                              IF k = Len(since) + 1 THEN next.rest ELSE rests[k]]
    OBVIOUS
  <2>3. /\ \A k \in 0 .. Len(since) : more[k] = rests[k]
        /\ more[Len(since) + 1] = next.rest
    BY <1>2, <2>2
  <2>4. Rests(more, e)'
    <3>1. more[0] = SubSeq(begun.mem, begun.at, e - 1)
      BY <1>2, <2>1, <2>3 DEF Rests
    <3>2. ASSUME NEW k \in 1 .. (Len(since) + 1)
          PROVE  more[k] = K!Piece(more[k - 1], since'[k].delim).rest
      <4>1. CASE k = Len(since) + 1
        BY <1>0, <1>2, <2>3, <2>8, <4>1
      <4>2. CASE k # Len(since) + 1
        <5>1. k \in 1 .. Len(since) /\ k \in 0 .. Len(since) /\ k - 1 \in 0 .. Len(since)
          BY <1>2, <4>2
        <5> QED
          BY <1>2, <2>1, <2>3, <5>1 DEF Rests
      <4> QED
        BY <4>1, <4>2
    <3> QED
      BY <1>1, <1>2, <3>1, <3>2 DEF Rests
  <2>5. Stay(more, e, last)'
    <3>1. \A t, piece : Stays(t, piece, e, last) => Stays(t, piece, e, last)'
      BY <1>1 DEF Stays
    <3>2. ASSUME NEW k \in 1 .. (Len(since) + 1), NEW t, NEW piece,
                 t = since'[k].tok, piece = K!Piece(more[k - 1], since'[k].delim).piece
          PROVE  Stays(t, piece, e, last)
      <4>1. CASE k = Len(since) + 1
        <5>1. k - 1 = Len(since) /\ more[k - 1] = rests[Len(since)]
          BY <1>2, <2>3, <4>1
        <5> QED
          BY <1>0, <1>2, <2>1, <3>2, <4>1, <5>1
      <4>2. CASE k # Len(since) + 1
        <5>1. k \in 1 .. Len(since) /\ k - 1 \in 0 .. Len(since)
          BY <1>2, <4>2
        <5>2. Stays(since[k].tok, K!Piece(rests[k - 1], since[k].delim).piece, e, last)
          BY <2>1, <5>1 DEF Stay
        <5> QED
          BY <1>2, <2>3, <3>2, <5>1, <5>2
      <4> QED
        BY <4>1, <4>2
    <3>3. ASSUME NEW k \in 1 .. (Len(since) + 1), NEW t, NEW piece,
                 t = since'[k].tok, piece = K!Piece(more[k - 1], since'[k].delim).piece
          PROVE  Stays(t, piece, e, last)'
      BY <3>1, <3>2, <3>3
    <3> QED
      BY <1>1, <1>2, <3>3 DEF Stay, Stays
  <2>6. Left(last, e, next.rest)'
    BY <1>1, <2>1, <2>8 DEF Left
  <2>9. more[Len(since')] = next.rest
    BY <1>2, <2>3
  <2>7. Separating'
    BY <1>1, <1>2, <2>1, <2>4, <2>5, <2>6, <2>9 DEF Separating
  <2> QED
    BY <1>1, <1>3, <1>5, <2>7 DEF StrtokInv
<1> QED
  BY <1>4, <1>5

LEMMA StrtokStep ==
  ASSUME StrtokInv,
         \/ \E arg \in {K!NULL, K!FirstAt, K!SecondAt}, delims \in Delims : K!Call(arg, delims)
         \/ K!Skip \/ K!NoToken \/ K!TokenBegins \/ K!Scan \/ K!TokenEnds \/ K!Return
  PROVE  StrtokInv'
<1>1. CASE \E arg \in {K!NULL, K!FirstAt, K!SecondAt}, delims \in Delims : K!Call(arg, delims)
  BY <1>1, CallSeparates
<1>2. CASE K!Skip \/ K!TokenBegins \/ K!Scan
  BY <1>2, PassesOn
<1>3. CASE K!NoToken
  BY <1>3, NoTokenSeparates
<1>4. CASE K!TokenEnds
  BY <1>4, TokenSeparates
<1>5. CASE K!Return
  BY <1>5, ReturnSeparates
<1> QED
  BY <1>1, <1>2, <1>3, <1>4, <1>5

LEMMA StrtokStutters ==
  ASSUME StrtokInv, at' = at, UNCHANGED strtok
  PROVE  StrtokInv'
<1>1. /\ mem' = mem /\ delim' = delim /\ s' = s /\ tok' = tok /\ last' = last
      /\ begun' = begun /\ since' = since /\ at' = at
  BY DEF strtok
<1>2. StrtokType'
  BY <1>1 DEF StrtokInv, StrtokType
<1>3. ASSUME Separating PROVE Separating'
  <2>1. PICK e, rests :
          /\ EndsAt(begun.mem, begun.at, e) /\ Rests(rests, e)
          /\ \A x \in 1 .. Len(mem) : mem[x] # begun.mem[x] => x \in begun.at .. (e - 1)
          /\ at = "idle" => Left(last, e, rests[Len(since)]) /\ Stay(rests, e, last)
          /\ at \in {"skip", "scan"} => Passed(rests, e)
          /\ at = "return" =>
                /\ Left(last, e, K!Piece(rests[Len(since)], delim).rest) /\ Stay(rests, e, last)
                /\ Stays(tok, K!Piece(rests[Len(since)], delim).piece, e, last)
    BY <1>3 DEF Separating
  <2>2. Rests(rests, e)'
    BY <1>1, <2>1 DEF Rests
  <2>3. at \in {"skip", "scan"} => Passed(rests, e)'
    BY <1>1, <2>1 DEF Passed, Left, Stay, Stays
  <2>4. at = "idle" => Left(last, e, rests[Len(since)])' /\ Stay(rests, e, last)'
    BY <1>1, <2>1 DEF Left, Stay, Stays
  <2>5. PICK next : next = K!Piece(rests[Len(since)], delim)
    OBVIOUS
  <2>6. K!Piece(rests[Len(since)], delim)' = next
    BY <1>1, <2>5
  <2>7. at = "return" => /\ Left(last, e, next.rest)' /\ Stay(rests, e, last)'
                         /\ Stays(tok, next.piece, e, last)'
    BY <1>1, <2>1, <2>5 DEF Left, Stay, Stays
  <2> QED
    BY <1>1, <2>1, <2>2, <2>3, <2>4, <2>6, <2>7 DEF Separating
<1> QED
  BY <1>1, <1>2, <1>3 DEF StrtokInv

SeparatesInv == running = "strtok" => StrtokInv

routines == <<running, at, result, strings, numbers, strtok, jsmn>>

LEMMA SeparatesKeeps == SeparatesInv /\ [RoutinesNext]_routines => SeparatesInv'
<1> SUFFICES ASSUME SeparatesInv, [RoutinesNext]_routines, running' = "strtok"
             PROVE  StrtokInv'
  BY DEF SeparatesInv
<1>1. CASE UNCHANGED routines
  <2>1. running = "strtok" /\ at' = at /\ UNCHANGED strtok
    BY <1>1 DEF routines
  <2> QED
    BY <2>1, StrtokStutters DEF SeparatesInv
<1>2. CASE RoutinesNext
  <2>1. running' = running
    BY <1>2 DEF RoutinesNext, OfString, I2a, GrowD, Grown, PutDigit, Put, Begin, Digit,
                NumberEnds, StrtokCall, Skip, NoToken, TokenBegins, Scan, TokenEnds,
                StrtokReturn, Again, Open, Close, String, Primitive, Separator, ParseEnds,
                InStrings, InNumbers, InStrtok, InJsmn
  <2>2. running = "strtok" /\ StrtokInv
    BY <2>1 DEF SeparatesInv
  <2>3. \/ \E arg \in {K!NULL, K!FirstAt, K!SecondAt}, delims \in Delims :
              K!Call(arg, delims)
        \/ K!Skip \/ K!NoToken \/ K!TokenBegins \/ K!Scan \/ K!TokenEnds \/ K!Return
    BY <1>2, <2>2
       DEF RoutinesNext, OfString, I2a, GrowD, Grown, PutDigit, Put, Begin, Digit,
           NumberEnds, StrtokCall, Skip, NoToken, TokenBegins, Scan, TokenEnds,
           StrtokReturn, Again, Open, Close, String, Primitive, Separator, ParseEnds,
           InStrings, InNumbers, InStrtok, InJsmn
  <2> QED
    BY <2>2, <2>3, StrtokStep
<1> QED
  BY <1>1, <1>2

\* Whatever the texts, and whatever delimiters each call brings and whichever
\* text it begins: strtok (libc_stub.c:281-328) returns the pieces of the text
\* begun last, in order, then NULL, and writes nowhere else.
THEOREM SeparatesCorrect == RoutinesSpec => []Separates
<1>1. RoutinesInit => SeparatesInv
  BY StrtokInitHolds DEF RoutinesInit, SeparatesInv
<1>2. SeparatesInv => Separates
  BY SeparatesFollows DEF SeparatesInv, Separates
<1> QED
  BY <1>1, <1>2, SeparatesKeeps, PTL DEF RoutinesSpec, routines
=============================================================================
