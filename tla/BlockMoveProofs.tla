--------------------------- MODULE BlockMoveProofs ---------------------------
(***************************************************************************)
(* bcopy and bzero do what Memory says they do, for every memory, every    *)
(* pair of ranges and every length, and with aligned accesses only.        *)
(***************************************************************************)
EXTENDS BlockMove, TLAPS

-----------------------------------------------------------------------------
(* The pieces cover the range they are pieces of.                          *)

Whole(k, pieces) ==
    /\ \A o \in Int : In(o, pieces) <=> o \in 0 .. (k - 1)
    /\ \A p \in pieces : /\ p[1] \in Nat /\ p[2] \in {1, 2, 4, 8}
                         /\ p[1] + p[2] <= k

LEMMA BytesWhole ==
  ASSUME NEW k \in Nat
  PROVE  /\ Whole(k, Bytes(k))
         /\ \A p \in Bytes(k) : p[2] = 1
<1>1. ASSUME NEW o \in Int PROVE In(o, Bytes(k)) <=> o \in 0 .. (k - 1)
  <2>1. ASSUME In(o, Bytes(k)) PROVE o \in 0 .. (k - 1)
    BY <2>1 DEF In, Bytes
  <2>2. ASSUME o \in 0 .. (k - 1) PROVE In(o, Bytes(k))
    <3>1. <<o, 1>> \in Bytes(k) /\ o \in o .. (o + 1 - 1)
      BY <2>2 DEF Bytes
    <3> QED
      BY <3>1 DEF In
  <2> QED
    BY <2>1, <2>2
<1> QED
  BY <1>1 DEF Whole, Bytes

LEMMA WordsWhole ==
  ASSUME NEW k \in Nat, k % 4 = 0
  PROVE  /\ Whole(k, Words(k))
         /\ \A p \in Words(k) : p[1] % 4 = 0 /\ p[2] = 4
<1>1. \A p \in Words(k) : /\ p[1] \in Nat /\ p[2] = 4 /\ p[1] % 4 = 0
                          /\ p[1] + 4 <= k
  BY DEF Words
<1>2. ASSUME NEW o \in Int PROVE In(o, Words(k)) <=> o \in 0 .. (k - 1)
  <2>1. ASSUME In(o, Words(k)) PROVE o \in 0 .. (k - 1)
    BY <1>1, <2>1 DEF In
  <2>2. ASSUME o \in 0 .. (k - 1) PROVE In(o, Words(k))
    <3>1. /\ o \div 4 \in 0 .. (k \div 4 - 1)
          /\ o \in (4 * (o \div 4)) .. (4 * (o \div 4) + 4 - 1)
      BY <2>2
    <3>2. <<4 * (o \div 4), 4>> \in Words(k)
      BY <3>1 DEF Words
    <3> QED
      BY <3>1, <3>2 DEF In
  <2> QED
    BY <2>1, <2>2
<1> QED
  BY <1>1, <1>2 DEF Whole

\* The pieces that a count selects, one by one.
LEMMA FlagPieces ==
  ASSUME NEW k \in 0 .. 15
  PROVE  \A w : w \in Flags(k) <=> \/ w = 1 /\ k % 2 = 1
                                   \/ w = 2 /\ (k \div 2) % 2 = 1
                                   \/ w = 4 /\ (k \div 4) % 2 = 1
                                   \/ w = 8 /\ (k \div 8) % 2 = 1
<1>1. k \div 1 = k
  OBVIOUS
<1> QED
  BY <1>1 DEF Flags

\* A count below 16 is the sum of its flags.
LEMMA FlagSum ==
  ASSUME NEW k \in 0 .. 15
  PROVE  \E a, b, c, d \in 0 .. 1 :
            /\ k = a + 2 * b + 4 * c + 8 * d
            /\ k % 2 = a /\ k % 4 = a + 2 * b /\ k % 8 = a + 2 * b + 4 * c
            /\ k % 16 = k
            /\ (k \div 2) % 2 = b /\ (k \div 4) % 2 = c /\ (k \div 8) % 2 = d
<1> DEFINE a == k % 2
           b == (k \div 2) % 2
           c == (k \div 4) % 2
           d == (k \div 8) % 2
<1>1. /\ a \in 0 .. 1 /\ b \in 0 .. 1 /\ c \in 0 .. 1 /\ d \in 0 .. 1
      /\ k = a + 2 * b + 4 * c + 8 * d
      /\ k % 2 = a /\ k % 4 = a + 2 * b /\ k % 8 = a + 2 * b + 4 * c
      /\ k % 16 = k
  OBVIOUS
<1> QED
  BY <1>1

LEMMA RisingWhole ==
  ASSUME NEW k \in 0 .. 15
  PROVE  Whole(k, Rising(k))
<1>1. PICK a, b, c, d \in 0 .. 1 :
            /\ k = a + 2 * b + 4 * c + 8 * d
            /\ k % 2 = a /\ k % 4 = a + 2 * b /\ k % 8 = a + 2 * b + 4 * c
            /\ k % 16 = k
            /\ (k \div 2) % 2 = b /\ (k \div 4) % 2 = c /\ (k \div 8) % 2 = d
  BY FlagSum
<1>2. \A p : p \in Rising(k) <=> \/ p = <<0, 1>> /\ a = 1
                                 \/ p = <<a, 2>> /\ b = 1
                                 \/ p = <<a + 2 * b, 4>> /\ c = 1
                                 \/ p = <<a + 2 * b + 4 * c, 8>> /\ d = 1
  <2>1. k % 1 = 0
    OBVIOUS
  <2> QED
    BY <1>1, <2>1, FlagPieces DEF Rising
<1>3. ASSUME NEW o \in Int PROVE In(o, Rising(k)) <=> o \in 0 .. (k - 1)
  <2>1. ASSUME In(o, Rising(k)) PROVE o \in 0 .. (k - 1)
    <3>1. PICK p \in Rising(k) : o \in p[1] .. (p[1] + p[2] - 1)
      BY <2>1 DEF In
    <3> QED
      BY <1>1, <1>2, <3>1
  <2>2. ASSUME o \in 0 .. (k - 1) PROVE In(o, Rising(k))
    <3>1. \E p \in {<<0, 1>>, <<a, 2>>, <<a + 2 * b, 4>>,
                    <<a + 2 * b + 4 * c, 8>>} :
             p \in Rising(k) /\ o \in p[1] .. (p[1] + p[2] - 1)
      <4>1. CASE o < a
        BY <1>1, <1>2, <2>2, <4>1
      <4>2. CASE o >= a /\ o < a + 2 * b
        BY <1>1, <1>2, <2>2, <4>2
      <4>3. CASE o >= a + 2 * b /\ o < a + 2 * b + 4 * c
        BY <1>1, <1>2, <2>2, <4>3
      <4>4. CASE o >= a + 2 * b + 4 * c
        BY <1>1, <1>2, <2>2, <4>4
      <4> QED
        BY <1>1, <2>2, <4>1, <4>2, <4>3, <4>4
    <3> QED
      BY <3>1 DEF In
  <2> QED
    BY <2>1, <2>2
<1>4. \A p \in Rising(k) : /\ p[1] \in Nat /\ p[2] \in {1, 2, 4, 8}
                           /\ p[1] + p[2] <= k
  BY <1>1, <1>2
<1> QED
  BY <1>3, <1>4 DEF Whole

LEMMA FallingWhole ==
  ASSUME NEW k \in 0 .. 15
  PROVE  Whole(k, Falling(k))
<1>1. PICK a, b, c, d \in 0 .. 1 :
            /\ k = a + 2 * b + 4 * c + 8 * d
            /\ k % 2 = a /\ k % 4 = a + 2 * b /\ k % 8 = a + 2 * b + 4 * c
            /\ k % 16 = k
            /\ (k \div 2) % 2 = b /\ (k \div 4) % 2 = c /\ (k \div 8) % 2 = d
  BY FlagSum
<1>2. \A p : p \in Falling(k) <=> \/ p = <<8 * d + 4 * c + 2 * b, 1>> /\ a = 1
                                  \/ p = <<8 * d + 4 * c, 2>> /\ b = 1
                                  \/ p = <<8 * d, 4>> /\ c = 1
                                  \/ p = <<0, 8>> /\ d = 1
  <2>1. k % 1 = 0
    OBVIOUS
  <2>2. /\ 1 \in Flags(k) <=> a = 1
        /\ 2 \in Flags(k) <=> b = 1
        /\ 4 \in Flags(k) <=> c = 1
        /\ 8 \in Flags(k) <=> d = 1
        /\ Flags(k) \subseteq {1, 2, 4, 8}
    BY <1>1, FlagPieces DEF Flags
  <2>3. ASSUME NEW p PROVE p \in Falling(k) <=> \/ p = <<8 * d + 4 * c + 2 * b, 1>> /\ a = 1
                                                \/ p = <<8 * d + 4 * c, 2>> /\ b = 1
                                                \/ p = <<8 * d, 4>> /\ c = 1
                                                \/ p = <<0, 8>> /\ d = 1
    <3>1. /\ k - (k % (2 * 1)) = 8 * d + 4 * c + 2 * b
          /\ k - (k % (2 * 2)) = 8 * d + 4 * c
          /\ k - (k % (2 * 4)) = 8 * d
          /\ k - (k % (2 * 8)) = 0
      BY <1>1
    <3> QED
      BY <2>2, <3>1 DEF Falling
  <2> QED
    BY <2>3
<1>3. ASSUME NEW o \in Int PROVE In(o, Falling(k)) <=> o \in 0 .. (k - 1)
  <2>1. ASSUME In(o, Falling(k)) PROVE o \in 0 .. (k - 1)
    <3>1. PICK p \in Falling(k) : o \in p[1] .. (p[1] + p[2] - 1)
      BY <2>1 DEF In
    <3> QED
      BY <1>1, <1>2, <3>1
  <2>2. ASSUME o \in 0 .. (k - 1) PROVE In(o, Falling(k))
    <3>1. CASE o < 8 * d
      <4>1. d = 1 /\ o \in (0) .. ((0) + 8 - 1)
        BY <1>1, <2>2, <3>1
      <4>2. <<0, 8>> \in Falling(k)
        BY <1>2, <4>1
      <4> QED
        BY <4>1, <4>2 DEF In
    <3>2. CASE o >= 8 * d /\ o < 8 * d + 4 * c
      <4>1. c = 1 /\ o \in (8 * d) .. ((8 * d) + 4 - 1)
        BY <1>1, <2>2, <3>2
      <4>2. <<8 * d, 4>> \in Falling(k)
        BY <1>2, <4>1
      <4> QED
        BY <4>1, <4>2 DEF In
    <3>3. CASE o >= 8 * d + 4 * c /\ o < 8 * d + 4 * c + 2 * b
      <4>1. b = 1 /\ o \in (8 * d + 4 * c) .. ((8 * d + 4 * c) + 2 - 1)
        BY <1>1, <2>2, <3>3
      <4>2. <<8 * d + 4 * c, 2>> \in Falling(k)
        BY <1>2, <4>1
      <4> QED
        BY <4>1, <4>2 DEF In
    <3>4. CASE o >= 8 * d + 4 * c + 2 * b
      <4>1. a = 1 /\ o \in (8 * d + 4 * c + 2 * b) .. ((8 * d + 4 * c + 2 * b) + 1 - 1)
        BY <1>1, <2>2, <3>4
      <4>2. <<8 * d + 4 * c + 2 * b, 1>> \in Falling(k)
        BY <1>2, <4>1
      <4> QED
        BY <4>1, <4>2 DEF In
    <3> QED
      BY <1>1, <2>2, <3>1, <3>2, <3>3, <3>4
  <2> QED
    BY <2>1, <2>2
<1>4. \A p \in Falling(k) : /\ p[1] \in Nat /\ p[2] \in {1, 2, 4, 8}
                           /\ p[1] + p[2] <= k
  BY <1>1, <1>2
<1> QED
  BY <1>3, <1>4 DEF Whole

LEMMA FromTopWhole ==
  ASSUME NEW k \in 0 .. 15
  PROVE  Whole(k, FromTop(k))
<1>1. PICK a, b, c, d \in 0 .. 1 :
            /\ k = a + 2 * b + 4 * c + 8 * d
            /\ k % 2 = a /\ k % 4 = a + 2 * b /\ k % 8 = a + 2 * b + 4 * c
            /\ k % 16 = k
            /\ (k \div 2) % 2 = b /\ (k \div 4) % 2 = c /\ (k \div 8) % 2 = d
  BY FlagSum
<1>2. \A p : p \in FromTop(k) <=> \/ p = <<2 * b + 4 * c + 8 * d, 1>> /\ a = 1
                                  \/ p = <<4 * c + 8 * d, 2>> /\ b = 1
                                  \/ p = <<8 * d, 4>> /\ c = 1
                                  \/ p = <<0, 8>> /\ d = 1
  <2>1. k % 1 = 0
    OBVIOUS
  <2>2. /\ 1 \in Flags(k) <=> a = 1
        /\ 2 \in Flags(k) <=> b = 1
        /\ 4 \in Flags(k) <=> c = 1
        /\ 8 \in Flags(k) <=> d = 1
        /\ Flags(k) \subseteq {1, 2, 4, 8}
    BY <1>1, FlagPieces DEF Flags
  <2>3. ASSUME NEW p PROVE p \in FromTop(k) <=> \/ p = <<2 * b + 4 * c + 8 * d, 1>> /\ a = 1
                                                \/ p = <<4 * c + 8 * d, 2>> /\ b = 1
                                                \/ p = <<8 * d, 4>> /\ c = 1
                                                \/ p = <<0, 8>> /\ d = 1
    <3>1. /\ a = 1 => k - (k % 1) - 1 = 2 * b + 4 * c + 8 * d
          /\ b = 1 => k - (k % 2) - 2 = 4 * c + 8 * d
          /\ c = 1 => k - (k % 4) - 4 = 8 * d
          /\ d = 1 => k - (k % 8) - 8 = 0
      BY <1>1, <2>1
    <3> QED
      BY <2>2, <3>1 DEF FromTop
  <2> QED
    BY <2>3
<1>3. ASSUME NEW o \in Int PROVE In(o, FromTop(k)) <=> o \in 0 .. (k - 1)
  <2>1. ASSUME In(o, FromTop(k)) PROVE o \in 0 .. (k - 1)
    <3>1. PICK p \in FromTop(k) : o \in p[1] .. (p[1] + p[2] - 1)
      BY <2>1 DEF In
    <3> QED
      BY <1>1, <1>2, <3>1
  <2>2. ASSUME o \in 0 .. (k - 1) PROVE In(o, FromTop(k))
    <3>1. CASE o < 8 * d
      <4>1. d = 1 /\ o \in (0) .. ((0) + 8 - 1)
        BY <1>1, <2>2, <3>1
      <4>2. <<0, 8>> \in FromTop(k)
        BY <1>2, <4>1
      <4> QED
        BY <4>1, <4>2 DEF In
    <3>2. CASE o >= 8 * d /\ o < 4 * c + 8 * d
      <4>1. c = 1 /\ o \in (8 * d) .. ((8 * d) + 4 - 1)
        BY <1>1, <2>2, <3>2
      <4>2. <<8 * d, 4>> \in FromTop(k)
        BY <1>2, <4>1
      <4> QED
        BY <4>1, <4>2 DEF In
    <3>3. CASE o >= 4 * c + 8 * d /\ o < 2 * b + 4 * c + 8 * d
      <4>1. b = 1 /\ o \in (4 * c + 8 * d) .. ((4 * c + 8 * d) + 2 - 1)
        BY <1>1, <2>2, <3>3
      <4>2. <<4 * c + 8 * d, 2>> \in FromTop(k)
        BY <1>2, <4>1
      <4> QED
        BY <4>1, <4>2 DEF In
    <3>4. CASE o >= 2 * b + 4 * c + 8 * d
      <4>1. a = 1 /\ o \in (2 * b + 4 * c + 8 * d) .. ((2 * b + 4 * c + 8 * d) + 1 - 1)
        BY <1>1, <2>2, <3>4
      <4>2. <<2 * b + 4 * c + 8 * d, 1>> \in FromTop(k)
        BY <1>2, <4>1
      <4> QED
        BY <4>1, <4>2 DEF In
    <3> QED
      BY <1>1, <2>2, <3>1, <3>2, <3>3, <3>4
  <2> QED
    BY <2>1, <2>2
<1>4. \A p \in FromTop(k) : /\ p[1] \in Nat /\ p[2] \in {1, 2, 4, 8}
                           /\ p[1] + p[2] <= k
  BY <1>1, <1>2
<1> QED
  BY <1>3, <1>4 DEF Whole

-----------------------------------------------------------------------------
(* The pieces are aligned when the range starts, or ends, where the code   *)
(* has brought the pointer.                                                *)

Unit(width) == IF width = 8 THEN 4 ELSE width

Aligned(base, pieces) == \A p \in pieces : (base + p[1]) % Unit(p[2]) = 0

LEMMA BytesAligned ==
  ASSUME NEW k \in Nat, NEW a \in Nat
  PROVE  Aligned(a, Bytes(k))
<1>1. \A p \in Bytes(k) : p[1] \in Nat /\ Unit(p[2]) = 1
  BY DEF Bytes, Unit
<1> QED
  BY <1>1 DEF Aligned

LEMMA WordsAligned ==
  ASSUME NEW k \in Nat, NEW a \in Nat, k % 4 = 0, a % 4 = 0
  PROVE  Aligned(a, Words(k))
<1>1. \A p \in Words(k) : p[1] \in Nat /\ p[1] % 4 = 0 /\ Unit(p[2]) = 4
  BY WordsWhole DEF Whole, Unit
<1> QED
  BY <1>1 DEF Aligned

LEMMA RisingAligned ==
  ASSUME NEW k \in 0 .. 15, NEW a \in Nat, (a + k) % 4 = 0
  PROVE  Aligned(a, Rising(k))
<1> SUFFICES ASSUME NEW w \in {1, 2, 4, 8}
             PROVE  (a + (k % w)) % Unit(w) = 0
  BY DEF Aligned, Rising, Flags
<1>1. \A n \in Nat : n % 1 = 0
  OBVIOUS
<1>2. CASE w = 8
  BY <1>2 DEF Unit
<1>3. CASE w = 4
  BY <1>3 DEF Unit
<1>4. CASE w = 2
  BY <1>4 DEF Unit
<1>5. CASE w = 1
  BY <1>1, <1>5 DEF Unit
<1> QED
  BY <1>2, <1>3, <1>4, <1>5

LEMMA FallingAligned ==
  ASSUME NEW k \in 0 .. 15, NEW a \in Nat, a % 4 = 0
  PROVE  Aligned(a, Falling(k)) /\ Aligned(a, FromTop(k))
<1> SUFFICES ASSUME NEW w \in {1, 2, 4, 8}
             PROVE  /\ (a + (k - (k % (2 * w)))) % Unit(w) = 0
                    /\ (a + ((k - (k % w)) - w)) % Unit(w) = 0
  BY DEF Aligned, Falling, FromTop, Flags
<1>1. \A n \in Int : n % 1 = 0
  OBVIOUS
<1>2. CASE w = 8
  BY <1>2 DEF Unit
<1>3. CASE w = 4
  BY <1>3 DEF Unit
<1>4. CASE w = 2
  BY <1>4 DEF Unit
<1>5. CASE w = 1
  BY <1>1, <1>5 DEF Unit
<1> QED
  BY <1>2, <1>3, <1>4, <1>5

-----------------------------------------------------------------------------
(* The inductive invariant.  At every label, the pointers say how much has *)
(* been moved, memory is what moving that much makes of it, and enough is  *)
(* left for what the code will move before it tests the length again.      *)

D == call.dst
S == call.src
L == call.len

\* n bytes moved, from the bottom up; all but n, from the top down; n filled.
Copied(n) == [x \in Addr |-> IF x \in D .. (D + n - 1) THEN Before[x - D + S]
                                                       ELSE Before[x]]
CopiedDown(n) ==
    [x \in Addr |-> IF x \in (D + n) .. (D + L - 1) THEN Before[x - D + S]
                                                     ELSE Before[x]]
Filled(n) == [x \in Addr |-> IF x \in D .. (D + n - 1) THEN Filler ELSE Before[x]]

Registers == /\ call \in Requests
             /\ r0 \in Nat /\ r1 \in Nat /\ r2 \in 0 .. L /\ r12 \in Nat

\* Moving upwards is right where the destination is lower, or apart.
Upwards == ~call.fill /\ (D < S \/ S + L <= D)

MovingUp == /\ Registers /\ Upwards
            /\ r0 = D + L - r2 /\ r1 = S + L - r2
            /\ mem = Copied(L - r2)

MovingDown == /\ Registers /\ ~call.fill /\ S < D
              /\ r0 = D + r2 /\ r1 = S + r2
              /\ mem = CopiedDown(r2)

Filling == /\ Registers /\ call.fill
           /\ r0 = D + L - r2
           /\ mem = Filled(L - r2)

\* Between the loads and the stores of the shifting loops: shift bytes from
\* r0 on are in r4, and memory need not hold them.
Shifting ==
    LET shift == Len(r4)
        n == r0 + shift - D
    IN /\ Registers /\ Upwards
       /\ shift \in 1 .. 3 /\ r4 = [i \in 1 .. shift |-> Copied(n)[r0 + i - 1]]
       /\ n \in 0 .. L /\ r1 = S + n /\ r0 % 4 = 0 /\ r1 % 4 = 0
       /\ n + 4 * r12 + (r2 % 4) = L
       /\ mem \in [Addr -> Nat]
       /\ \A x \in Addr : \/ x >= D /\ x \in r0 .. (r0 + shift - 1)
                          \/ mem[x] = Copied(n)[x]

Up(label)   == pc = label /\ MovingUp
Down(label) == pc = label /\ MovingDown
Fill(label) == pc = label /\ Filling

Here ==
    \/ /\ pc = "memmove" /\ Registers /\ ~call.fill
       /\ r0 = D /\ r1 = S /\ r2 = L /\ mem = Before
    \/ Up("Lsimilarlyunaligned") /\ Similar /\ r2 >= 64
    \/ /\ Up("Lsimilarlyunaligned_8") /\ Similar /\ r2 >= 57
       /\ r12 \in {0, 8} /\ (r0 + r12) % 16 = 0
    \/ Up("Lunaligned_32") /\ Similar /\ r2 >= 49 /\ r0 % 16 = 0
    \/ Up("L64loop") /\ Similar /\ r2 >= 64 /\ r0 % 4 = 0
    \/ Up("L64loop_second") /\ Similar /\ r2 >= 32 /\ r0 % 4 = 0
    \/ Up("Llessthan64_aligned") /\ Similar /\ r0 % 4 = 0
    \/ Up("Lbytewise2") /\ r2 >= 1
    \/ Up("Lbytewise") /\ r2 >= 1
    \/ Up("Lwordalignloop") /\ Similar /\ (r1 % 4 = 0 \/ r2 + (r1 % 4) >= 4)
    \/ /\ Up("Lwordalignloop2") /\ ~Similar /\ r2 >= 4
       /\ r1 % 4 = 0 \/ r2 + (r1 % 4) >= 8
    \/ pc = "Lalign_forward_loop" /\ Shifting /\ r12 >= 1
    \/ pc = "Lalign_forward_end" /\ Shifting /\ r12 = 0
    \/ /\ pc = "Loverlap_srclower" /\ Registers /\ ~call.fill /\ S < D
       /\ r0 = D /\ r1 = S /\ r2 = L /\ L >= 1 /\ mem = Before
    \/ Down("Lunaligned_reverse_similarly") /\ Similar /\ r2 >= 64
    \/ /\ Down("Lunaligned_reverse_8") /\ Similar /\ r2 >= 57
       /\ r12 \in {0, 8} /\ r12 <= r0 /\ (r0 - r12) % 16 = 0
    \/ Down("Lunaligned_32_reverse_similarly") /\ Similar /\ r2 >= 49 /\ r0 % 16 = 0
    \/ Down("L64loop_reverse") /\ Similar /\ r2 >= 64 /\ r0 % 4 = 0
    \/ Down("L64loop_reverse_second") /\ Similar /\ r2 >= 32 /\ r0 % 4 = 0
    \/ Down("Lbytewise_reverse") /\ r2 >= 1
    \/ Fill("bzero") /\ r2 = L
    \/ Fill("L_unaligned") /\ r2 >= 32
    \/ Fill("L_unaligned_32") /\ r2 >= 16 /\ r0 % 16 = 0
    \/ Fill("L_64loop") /\ r2 >= 64 /\ r0 % 4 = 0
    \/ Fill("L_lessthan64aligned") /\ r0 % 4 = 0
    \/ Fill("L_bytewise") /\ r2 >= 1
    \/ pc = "Lexit" /\ call \in Requests /\ Moved

MoveInv == Here /\ AccessesSound

-----------------------------------------------------------------------------
(* What a move of k bytes does, whatever the pieces it is made in.         *)

LEMMA RequestFacts ==
  ASSUME call \in Requests
  PROVE  /\ D \in Nat /\ S \in Nat /\ L \in Nat /\ MemSize \in Nat
         /\ D >= 3 /\ D < MemSize
         /\ D + L <= MemSize /\ S + L <= MemSize
         /\ call.fill \in BOOLEAN
         /\ Before \in [Addr -> Nat] /\ Filler \in Nat
  BY BlockAssumption DEF Request, Addr, D, S, L

LEMMA WithinRange ==
  ASSUME call \in Requests, NEW x \in Addr
  PROVE  /\ M!Within(x, D, L) <=> x \in D .. (D + L - 1)
         /\ x \in D .. (D + L - 1) => M!Plus(S, M!Minus(x, D)) = x - D + S
<1>1. x \in Nat /\ x < MemSize
  BY RequestFacts DEF Addr
<1>2. (x - D) % MemSize = IF D <= x THEN x - D ELSE x - D + MemSize
  <2>1. MemSize \in Nat \ {0} /\ D \in Nat /\ D < MemSize
    BY <1>1, RequestFacts
  <2> QED
    BY <1>1, <2>1
<1>3. ASSUME x \in D .. (D + L - 1)
      PROVE  (S + (x - D)) % MemSize = x - D + S
  BY <1>1, <1>3, RequestFacts
<1> QED
  BY <1>1, <1>2, <1>3, RequestFacts DEF M!Within, M!Plus, M!Minus

\* All copied, or filled, is what Memory says.
LEMMA Done ==
  ASSUME call \in Requests, call' = call, pc' = "Lexit",
         \/ ~call.fill /\ mem' = Copied(L)
         \/ ~call.fill /\ mem' = CopiedDown(0)
         \/ call.fill /\ mem' = Filled(L)
  PROVE  Moved'
<1>1. Copied(L) = M!Bcopy(Before, S, D, L) /\ CopiedDown(0) = Copied(L)
  <2>1. Copied(L) = CopiedDown(0)
    BY RequestFacts DEF Copied, CopiedDown
  <2>2. M!Addr = Addr
    BY DEF M!Addr, Addr
  <2>3. Copied(L) = M!Bcopy(Before, S, D, L)
    BY <2>2, WithinRange, Zenon DEF Copied, M!Bcopy
  <2> QED
    BY <2>1, <2>3
<1>2. Filled(L) = [x \in Addr |-> IF M!Within(x, D, L) THEN Filler ELSE Before[x]]
  BY WithinRange, Zenon DEF Filled
<1> QED
  BY <1>1, <1>2 DEF Moved, D, S, L

LEMMA HullHolds ==
  ASSUME NEW a \in Nat, NEW k \in Nat, NEW p \in Nat, NEW w \in Nat,
         a <= p, p + w <= a + k
  PROVE  p .. (p + w - 1) \subseteq Hull(a, k)
  BY DEF Hull

LEMMA ForwardStep ==
  ASSUME MovingUp, NEW k \in 0 .. r2, NEW pieces, Whole(k, pieces),
         Aligned(r0, pieces), Aligned(r1, pieces),
         Forward(k, pieces), r12' \in Nat
  PROVE  /\ MovingUp' /\ AccessesSound'
         /\ r0' = r0 + k /\ r1' = r1 + k /\ r2' = r2 - k
         /\ r2' = 0 /\ pc' = "Lexit" => Moved'
<1>0. /\ Registers /\ Upwards /\ mem = Copied(L - r2)
      /\ r0 = D + (L - r2) /\ r1 = S + (L - r2)
  BY DEF MovingUp
<1>1. /\ k \in Nat /\ k <= r2 /\ r2 <= L /\ r2 \in Nat
      /\ r0 \in Nat /\ r1 \in Nat
      /\ r0' = r0 + k /\ r1' = r1 + k /\ r2' = r2 - k /\ call' = call
      /\ call \in Requests
  BY <1>0, RequestFacts DEF Forward, Registers
<1>7. /\ D \in Nat /\ S \in Nat /\ L \in Nat /\ MemSize \in Nat
      /\ D >= 3 /\ D + L <= MemSize /\ S + L <= MemSize
  BY <1>1, RequestFacts
<1>2. ASSUME NEW x \in Addr
      PROVE  mem'[x] = IF x \in D .. (D + ((L - r2') - 1)) THEN Before[x - D + S]
                                                      ELSE Before[x]
  <2>0. x \in Nat /\ x < MemSize
    BY <1>7 DEF Addr
  <2>1. In(x - r0, pieces) <=> x - r0 \in 0 .. (k - 1)
    BY <1>1, <2>0 DEF Whole
  <2>2. mem'[x] = IF x - r0 \in 0 .. (k - 1) THEN mem[x - r0 + r1] ELSE mem[x]
    BY <1>0, <2>1 DEF Forward
  <2>3. CASE x - r0 \in 0 .. (k - 1)
    <3>1. x - r0 + r1 = x - D + S
      BY <1>0, <1>1, <1>7, <2>0
    <3>4. x - D + S \in Addr
      BY <1>0, <1>1, <1>7, <2>0, <2>3 DEF Addr
    <3>2. ~(x - D + S \in D .. (D + ((L - r2) - 1)))
      BY <1>0, <1>1, <1>7, <2>0, <2>3 DEF Upwards
    <3>3. mem[x - D + S] = Before[x - D + S]
      BY <1>0, <3>4, <3>2 DEF Copied
    <3> QED
      BY <1>0, <1>1, <1>7, <2>0, <2>2, <2>3, <3>1, <3>3
  <2>4. CASE ~(x - r0 \in 0 .. (k - 1))
    <3>1. mem'[x] = IF x \in D .. (D + ((L - r2) - 1)) THEN Before[x - D + S]
                                                  ELSE Before[x]
      BY <1>0, <2>2, <2>4 DEF Copied
    <3> QED
      BY <1>0, <1>1, <1>7, <2>0, <2>4, <3>1
  <2> QED
    BY <2>3, <2>4
<1>3. mem' = Copied(L - r2')
  BY <1>2 DEF Copied, Forward
<1>4. MovingUp'
  BY <1>0, <1>1, <1>3, <1>7 DEF MovingUp, Registers, Upwards, Copied, D, S, L
<1>5. AccessesSound'
  <2>1. ASSUME NEW p \in pieces
        PROVE  /\ p[1] \in Nat /\ p[2] \in Nat /\ p[1] + p[2] <= k
               /\ (r0 + p[1]) % Unit(p[2]) = 0 /\ (r1 + p[1]) % Unit(p[2]) = 0
    BY DEF Whole, Aligned
  <2>2. ASSUME NEW p \in pieces
        PROVE  /\ (r0 + p[1]) .. ((r0 + p[1]) + p[2] - 1) \subseteq Hull(D, L)
               /\ (r1 + p[1]) .. ((r1 + p[1]) + p[2] - 1) \subseteq S .. (S + L - 1)
    <3>1. r0 + p[1] \in Nat /\ D <= r0 + p[1] /\ (r0 + p[1]) + p[2] <= D + L
      BY <1>0, <1>1, <1>7, <2>1
    <3>2. r1 + p[1] \in Nat /\ S <= r1 + p[1] /\ (r1 + p[1]) + p[2] <= S + L
      BY <1>0, <1>1, <1>7, <2>1
    <3>3. (r0 + p[1]) .. ((r0 + p[1]) + p[2] - 1) \subseteq Hull(D, L)
      BY <1>7, <2>1, <3>1, HullHolds
    <3> QED
      BY <1>7, <2>1, <3>2, <3>3
  <2>3. /\ loads' = {<<r1 + p[1], p[2]>> : p \in pieces}
        /\ stores' = {<<r0 + p[1], p[2]>> : p \in pieces}
    BY DEF Forward, At
  <2>4. \A a \in loads' \cup stores' : a[1] % Unit(a[2]) = 0
    BY <2>1, <2>3
  <2>5. \A a \in stores' : Cover(a) \subseteq Hull(D, L)
    BY <2>2, <2>3 DEF Cover
  <2>6. \A a \in loads' : Cover(a) \subseteq Hull(D, L) \cup (S .. (S + L - 1))
    BY <2>2, <2>3 DEF Cover
  <2> QED
    BY <1>1, <2>4, <2>5, <2>6 DEF AccessesSound, Unit, D, S, L
<1>6. r2' = 0 /\ pc' = "Lexit" => Moved'
  <2> SUFFICES ASSUME r2' = 0, pc' = "Lexit" PROVE Moved'
    OBVIOUS
  <2>1. mem' = Copied(L)
    BY <1>3, <1>1, <1>7
  <2> QED
    BY <1>0, <1>1, <2>1, Done DEF Upwards
<1> QED
  BY <1>1, <1>4, <1>5, <1>6

LEMMA BackwardStep ==
  ASSUME MovingDown, NEW k \in 0 .. r2, NEW pieces, Whole(k, pieces),
         Aligned(r0 - k, pieces), Aligned(r1 - k, pieces),
         Backward(k, pieces), r12' \in Nat
  PROVE  /\ MovingDown' /\ AccessesSound'
         /\ r0' = r0 - k /\ r1' = r1 - k /\ r2' = r2 - k
         /\ r2' = 0 /\ pc' = "Lexit" => Moved'
<1>1. /\ Registers /\ ~call.fill /\ S < D /\ mem = CopiedDown(r2)
      /\ r0 = D + r2 /\ r1 = S + r2
  BY DEF MovingDown
<1>2. /\ k \in Nat /\ k <= r2 /\ r2 <= L /\ r2 \in Nat
      /\ r0 \in Nat /\ r1 \in Nat
      /\ r0' = r0 - k /\ r1' = r1 - k /\ r2' = r2 - k /\ call' = call
      /\ call \in Requests
  BY <1>1, RequestFacts DEF Backward, Registers
<1>3. /\ D \in Nat /\ S \in Nat /\ L \in Nat /\ MemSize \in Nat
      /\ D >= 3 /\ D + L <= MemSize /\ S + L <= MemSize
  BY <1>2, RequestFacts
<1>4. ASSUME NEW x \in Addr
      PROVE  mem'[x] = IF x \in (D + r2') .. (D + L - 1) THEN Before[x - D + S]
                                                        ELSE Before[x]
  <2>1. x \in Nat /\ x < MemSize
    BY <1>3 DEF Addr
  <2>2. In(x - (r0 - k), pieces) <=> x - (r0 - k) \in 0 .. (k - 1)
    BY <1>2, <2>1 DEF Whole
  <2>3. mem'[x] = IF x - (r0 - k) \in 0 .. (k - 1) THEN mem[x - r0 + r1]
                                                   ELSE mem[x]
    BY <2>2 DEF Backward
  <2>4. CASE x - (r0 - k) \in 0 .. (k - 1)
    <3>1. x - r0 + r1 = x - D + S
      BY <1>1, <1>2, <1>3, <2>1
    <3>2. x - D + S \in Addr
      BY <1>1, <1>2, <1>3, <2>1, <2>4 DEF Addr
    <3>3. ~(x - D + S \in (D + r2) .. (D + L - 1))
      BY <1>1, <1>2, <1>3, <2>1, <2>4
    <3>4. mem[x - D + S] = Before[x - D + S]
      BY <1>1, <3>2, <3>3 DEF CopiedDown
    <3> QED
      BY <1>1, <1>2, <1>3, <2>1, <2>3, <2>4, <3>1, <3>4
  <2>5. CASE ~(x - (r0 - k) \in 0 .. (k - 1))
    <3>1. mem'[x] = IF x \in (D + r2) .. (D + L - 1) THEN Before[x - D + S]
                                                    ELSE Before[x]
      BY <1>1, <2>3, <2>5 DEF CopiedDown
    <3> QED
      BY <1>1, <1>2, <1>3, <2>1, <2>5, <3>1
  <2> QED
    BY <2>4, <2>5
<1>5. mem' = CopiedDown(r2')
  BY <1>4 DEF CopiedDown, Backward
<1>6. MovingDown'
  BY <1>1, <1>2, <1>5, <1>3 DEF MovingDown, Registers, CopiedDown, D, S, L
<1>7. AccessesSound'
  <2>1. ASSUME NEW p \in pieces
        PROVE  /\ p[1] \in Nat /\ p[2] \in Nat /\ p[1] + p[2] <= k
               /\ (r0 - k + p[1]) % Unit(p[2]) = 0
               /\ (r1 - k + p[1]) % Unit(p[2]) = 0
    BY DEF Whole, Aligned
  <2>2. ASSUME NEW p \in pieces
        PROVE  /\ (r0 - k + p[1]) .. ((r0 - k + p[1]) + p[2] - 1)
                     \subseteq Hull(D, L)
               /\ (r1 - k + p[1]) .. ((r1 - k + p[1]) + p[2] - 1)
                     \subseteq S .. (S + L - 1)
    <3>1. r0 - k + p[1] \in Nat /\ D <= r0 - k + p[1]
          /\ (r0 - k + p[1]) + p[2] <= D + L
      BY <1>1, <1>2, <1>3, <2>1
    <3>2. r1 - k + p[1] \in Nat /\ S <= r1 - k + p[1]
          /\ (r1 - k + p[1]) + p[2] <= S + L
      BY <1>1, <1>2, <1>3, <2>1
    <3>3. (r0 - k + p[1]) .. ((r0 - k + p[1]) + p[2] - 1) \subseteq Hull(D, L)
      BY <1>3, <2>1, <3>1, HullHolds
    <3> QED
      BY <1>3, <2>1, <3>2, <3>3
  <2>3. /\ loads' = {<<r1 - k + p[1], p[2]>> : p \in pieces}
        /\ stores' = {<<r0 - k + p[1], p[2]>> : p \in pieces}
    BY DEF Backward, At
  <2>4. \A a \in loads' \cup stores' : a[1] % Unit(a[2]) = 0
    BY <2>1, <2>3
  <2>5. \A a \in stores' : Cover(a) \subseteq Hull(D, L)
    BY <2>2, <2>3 DEF Cover
  <2>6. \A a \in loads' : Cover(a) \subseteq Hull(D, L) \cup (S .. (S + L - 1))
    BY <2>2, <2>3 DEF Cover
  <2> QED
    BY <1>2, <2>4, <2>5, <2>6 DEF AccessesSound, Unit, D, S, L
<1>8. r2' = 0 /\ pc' = "Lexit" => Moved'
  BY <1>1, <1>2, <1>5, Done
<1> QED
  BY <1>2, <1>6, <1>7, <1>8

LEMMA StoreStep ==
  ASSUME Filling, NEW k \in 0 .. r2, NEW pieces, Whole(k, pieces),
         Aligned(r0, pieces), Store(k, pieces)
  PROVE  /\ Filling' /\ AccessesSound'
         /\ r0' = r0 + k /\ r2' = r2 - k
         /\ r2' = 0 /\ pc' = "Lexit" => Moved'
<1>1. /\ Registers /\ call.fill /\ mem = Filled(L - r2) /\ r0 = D + (L - r2)
  BY DEF Filling
<1>2. /\ k \in Nat /\ k <= r2 /\ r2 <= L /\ r2 \in Nat /\ r0 \in Nat
      /\ r0' = r0 + k /\ r1' = r1 /\ r2' = r2 - k /\ r12' = r12
      /\ call' = call /\ call \in Requests
  BY <1>1, RequestFacts DEF Store, Registers
<1>3. /\ D \in Nat /\ L \in Nat /\ MemSize \in Nat /\ D + L <= MemSize
  BY <1>2, RequestFacts
<1>4. ASSUME NEW x \in Addr
      PROVE  mem'[x] = IF x \in D .. (D + (L - r2') - 1) THEN Filler ELSE Before[x]
  <2>1. x \in Nat /\ x < MemSize
    BY <1>3 DEF Addr
  <2>2. In(x - r0, pieces) <=> x - r0 \in 0 .. (k - 1)
    BY <1>2, <2>1 DEF Whole
  <2>3. mem'[x] = IF x - r0 \in 0 .. (k - 1) THEN Filler
                  ELSE IF x \in D .. (D + (L - r2) - 1) THEN Filler ELSE Before[x]
    BY <1>1, <2>2 DEF Store, Filled
  <2> QED
    BY <1>1, <1>2, <1>3, <2>1, <2>3
<1>5. mem' = Filled(L - r2')
  BY <1>4 DEF Filled, Store
<1>6. Filling'
  BY <1>1, <1>2, <1>3, <1>5 DEF Filling, Registers, Filled, D, S, L
<1>7. AccessesSound'
  <2>1. ASSUME NEW p \in pieces
        PROVE  /\ p[1] \in Nat /\ p[2] \in Nat /\ p[1] + p[2] <= k
               /\ (r0 + p[1]) % Unit(p[2]) = 0
    BY DEF Whole, Aligned
  <2>2. ASSUME NEW p \in pieces
        PROVE  (r0 + p[1]) .. ((r0 + p[1]) + p[2] - 1) \subseteq Hull(D, L)
    <3>1. r0 + p[1] \in Nat /\ D <= r0 + p[1] /\ (r0 + p[1]) + p[2] <= D + L
      BY <1>1, <1>2, <1>3, <2>1
    <3> QED
      BY <1>3, <2>1, <3>1, HullHolds
  <2>3. loads' = {} /\ stores' = {<<r0 + p[1], p[2]>> : p \in pieces}
    BY DEF Store, At
  <2>4. \A a \in loads' \cup stores' : a[1] % Unit(a[2]) = 0
    BY <2>1, <2>3
  <2>5. \A a \in stores' : Cover(a) \subseteq Hull(D, L)
    BY <2>2, <2>3 DEF Cover
  <2> QED
    BY <1>2, <2>3, <2>4, <2>5 DEF AccessesSound, Unit, D, S, L
<1>8. r2' = 0 /\ pc' = "Lexit" => Moved'
  BY <1>1, <1>2, <1>3, <1>5, Done
<1> QED
  BY <1>2, <1>6, <1>7, <1>8

-----------------------------------------------------------------------------
(* Each action.                                                            *)

LEMMA Pieces ==
  /\ \A k \in Nat, a \in Nat : Whole(k, Bytes(k)) /\ Aligned(a, Bytes(k))
  /\ \A k \in Nat : k % 4 = 0 =>
        Whole(k, Words(k)) /\ \A a \in Nat : a % 4 = 0 => Aligned(a, Words(k))
  /\ \A k \in 0 .. 15 :
        /\ Whole(k, Rising(k)) /\ Whole(k, Falling(k)) /\ Whole(k, FromTop(k))
        /\ \A a \in Nat : (a + k) % 4 = 0 => Aligned(a, Rising(k))
        /\ \A a \in Nat :
              a % 4 = 0 => Aligned(a, Falling(k)) /\ Aligned(a, FromTop(k))
  BY BytesWhole, BytesAligned, WordsWhole, WordsAligned, RisingWhole,
     RisingAligned, FallingWhole, FallingAligned, FromTopWhole

\* Branches access nothing.
LEMMA NoAccess ==
  ASSUME loads' = {}, stores' = {}
  PROVE  AccessesSound'
  BY DEF AccessesSound

LEMMA NatRegisters ==
  ASSUME Registers
  PROVE  /\ r0 \in Nat /\ r1 \in Nat /\ r2 \in Nat /\ r12 \in Nat /\ r2 <= L
         /\ call \in Requests /\ L \in Nat
  BY RequestFacts DEF Registers

LEMMA CopiedNothing ==
  ASSUME call \in Requests
  PROVE  Copied(0) = Before /\ (L = 0 \/ D = S => Copied(L) = Before)
<1> DEFINE same == [x \in Addr |-> Before[x]]
<1>1. Before = same
  BY RequestFacts
<1>2. Copied(0) = same
  <2>1. \A x \in Addr : ~(x \in D .. (D + 0 - 1))
    BY RequestFacts DEF Addr
  <2> QED
    BY <2>1, Zenon DEF Copied
<1>3. ASSUME D = S PROVE Copied(L) = same
  <2>1. \A x \in Addr : x - D + S = x
    BY <1>3, RequestFacts DEF Addr
  <2>2. \A x \in Addr : Copied(L)[x] = Before[x]
    BY <2>1 DEF Copied
  <2> QED
    BY <2>2 DEF Copied
<1> QED
  BY <1>1, <1>2, <1>3

LEMMA MemmoveStep ==
  ASSUME Here, Memmove
  PROVE  Here' /\ AccessesSound'
<1>1. /\ Registers /\ ~call.fill /\ r0 = D /\ r1 = S /\ r2 = L /\ mem = Before
      /\ UNCHANGED <<call, mem, r0, r1, r2, r4, r12>>
      /\ loads' = {} /\ stores' = {}
  BY DEF Here, Memmove, Up, Down, Fill, Branch
<1>2. /\ D \in Nat /\ S \in Nat /\ L \in Nat
  BY <1>1, NatRegisters, RequestFacts
<1>3. Registers' /\ ~call'.fill /\ D' = D /\ S' = S /\ L' = L
  BY <1>1 DEF Registers, D, S, L
<1>4. CASE L = 0 \/ D = S
  <2>1. mem = Copied(L)
    BY <1>1, <1>2, <1>4, CopiedNothing DEF Registers
  <2> QED
    BY <1>1, <1>4, <2>1, NoAccess, Done DEF Here, Memmove, Branch, Registers
<1>5. CASE L # 0 /\ S < D /\ D - S < L
  <2>1. pc' = "Loverlap_srclower"
    BY <1>1, <1>2, <1>5 DEF Memmove, Branch, Overlaps, Distance
  <2> QED
    BY <1>1, <1>2, <1>3, <1>5, <2>1, NoAccess DEF Here
<1>6. CASE L # 0 /\ D # S /\ (D < S \/ S + L <= D)
  <2>1. MovingUp'
    <3>1. mem = Copied(0)
      BY <1>1, <1>2, CopiedNothing DEF Registers
    <3>2. mem' = Copied(L - r2)'
      BY <1>1, <1>2, <3>1 DEF Copied, D, S, L
    <3> QED
      BY <1>1, <1>2, <1>3, <1>6, <3>2 DEF MovingUp, Upwards, D, S, L
  <2>2. pc' = Normal \/ pc' \in {"Lbytewise2", "Lbytewise"}
    BY <1>1, <1>2, <1>6 DEF Memmove, Branch, Overlaps, Distance, DestLower
  <2>3. CASE pc' \in {"Lbytewise2", "Lbytewise"}
    BY <1>1, <1>2, <1>6, <2>1, <2>3, NoAccess DEF Here, Up
  <2>4. CASE pc' = Normal /\ ~Similar
    BY <1>1, <1>2, <1>6, <2>1, <2>4, NoAccess DEF Here, Up, Normal, Similar
  <2>5. CASE pc' = Normal /\ Similar
    BY <1>1, <1>2, <1>6, <2>1, <2>5, NoAccess DEF Here, Up, Normal, Similar
  <2> QED
    BY <2>2, <2>3, <2>4, <2>5
<1> QED
  BY <1>2, <1>4, <1>5, <1>6

LEMMA SimilarlyunalignedStep ==
  ASSUME Here, Similarlyunaligned
  PROVE  Here' /\ AccessesSound'
<1> DEFINE k == (16 - (r0 % 16)) % 16
           P == Rising(k % 8)
<1>1. MovingUp /\ Similar /\ r2 >= 64
  BY DEF Here, Similarlyunaligned, Up, Down, Fill
<1>2. r0 \in Nat /\ r1 \in Nat /\ r2 \in Nat /\ r12 \in Nat /\ r0 % 4 = r1 % 4
  BY <1>1, NatRegisters DEF MovingUp, Similar
<1>3. /\ k \in 0 .. 15 /\ k % 8 \in 0 .. 7 /\ k - (k % 8) \in {0, 8}
      /\ (r0 + k) % 16 = 0 /\ (r0 + (k % 8)) % 4 = 0 /\ (r1 + (k % 8)) % 4 = 0
  BY <1>2
<1> HIDE DEF k
<1>4. Whole(k % 8, P) /\ Aligned(r0, P) /\ Aligned(r1, P)
  BY <1>2, <1>3, Pieces
<1>5. /\ Forward(k % 8, P) /\ r12' = k - (k % 8)
      /\ pc' = "Lsimilarlyunaligned_8"
  BY DEF Similarlyunaligned, k
<1>6. /\ MovingUp' /\ AccessesSound'
      /\ r0' = r0 + (k % 8) /\ r1' = r1 + (k % 8) /\ r2' = r2 - (k % 8)
  BY <1>1, <1>2, <1>3, <1>4, <1>5, ForwardStep
<1>7. /\ r0' % 4 = r1' % 4 /\ r2' >= 57
      /\ r12' \in {0, 8} /\ (r0' + r12') % 16 = 0
  BY <1>1, <1>2, <1>3, <1>5, <1>6
<1> QED
  BY <1>5, <1>6, <1>7 DEF Here, Up, Similar

LEMMA Similarlyunaligned_8Step ==
  ASSUME Here, Similarlyunaligned_8
  PROVE  Here' /\ AccessesSound'
<1> DEFINE k == r12
           P == Rising(k)
<1>1. MovingUp /\ Similar /\ r2 >= 57 /\ r12 \in {0, 8} /\ (r0 + r12) % 16 = 0
  BY DEF Here, Similarlyunaligned_8, Up, Down, Fill
<1>2. r0 \in Nat /\ r1 \in Nat /\ r2 \in Nat /\ r12 \in Nat /\ r0 % 4 = r1 % 4
  BY <1>1, NatRegisters DEF MovingUp, Similar
<1>3. k \in 0 .. r2 /\ k = r12 /\ k \in 0 .. 15 /\ (r0 + k) % 4 = 0 /\ (r1 + k) % 4 = 0
  BY <1>1, <1>2
<1> HIDE DEF k
<1>4. Whole(k, P) /\ Aligned(r0, P) /\ Aligned(r1, P)
  BY <1>2, <1>3, Pieces
<1>5. Forward(k, P) /\ r12' = r12 /\ pc' = IF r2' = 0 THEN "Lexit" ELSE "Lunaligned_32"
  BY <1>1 DEF Similarlyunaligned_8, k
<1>6. /\ MovingUp' /\ AccessesSound' /\ r12' \in Nat
      /\ r0' = r0 + k /\ r1' = r1 + k /\ r2' = r2 - k
      /\ r2' = 0 /\ pc' = "Lexit" => Moved'
  BY <1>1, <1>2, <1>3, <1>4, <1>5, ForwardStep
<1>7. r0' % 4 = r1' % 4 /\ r2' >= 49 /\ r0' % 16 = 0
  BY <1>1, <1>2, <1>3, <1>5, <1>6
<1>8. call' \in Requests
  BY <1>6 DEF MovingUp, Registers
<1> QED
  BY <1>1, <1>2, <1>5, <1>6, <1>7, <1>8 DEF Here, Up, Similar

LEMMA Unaligned_32Step ==
  ASSUME Here, Unaligned_32
  PROVE  Here' /\ AccessesSound'
<1> DEFINE k == r0 % 32
           P == Words(k)
<1>1. MovingUp /\ Similar /\ r2 >= 49 /\ r0 % 16 = 0
  BY DEF Here, Unaligned_32, Up, Down, Fill
<1>2. r0 \in Nat /\ r1 \in Nat /\ r2 \in Nat /\ r12 \in Nat /\ r0 % 4 = r1 % 4
  BY <1>1, NatRegisters DEF MovingUp, Similar
<1>3. k \in 0 .. r2 /\ k \in Nat /\ k % 4 = 0 /\ r0 % 4 = 0 /\ r1 % 4 = 0
  BY <1>1, <1>2
<1> HIDE DEF k
<1>4. Whole(k, P) /\ Aligned(r0, P) /\ Aligned(r1, P)
  BY <1>2, <1>3, Pieces
<1>5. Forward(k, P) /\ r12' = r12 /\ pc' = IF r2' >= 64 THEN "L64loop" ELSE "Llessthan64_aligned"
  BY <1>1 DEF Unaligned_32, k
<1>6. /\ MovingUp' /\ AccessesSound' /\ r12' \in Nat
      /\ r0' = r0 + k /\ r1' = r1 + k /\ r2' = r2 - k
      /\ r2' = 0 /\ pc' = "Lexit" => Moved'
  BY <1>1, <1>2, <1>3, <1>4, <1>5, ForwardStep
<1>7. r0' % 4 = r1' % 4 /\ r0' % 4 = 0
  BY <1>1, <1>2, <1>3, <1>5, <1>6
<1>8. call' \in Requests
  BY <1>6 DEF MovingUp, Registers
<1> QED
  BY <1>1, <1>2, <1>5, <1>6, <1>7, <1>8 DEF Here, Up, Similar

LEMMA L64loopStep ==
  ASSUME Here, L64loop
  PROVE  Here' /\ AccessesSound'
<1> DEFINE k == 32
           P == Words(k)
<1>1. MovingUp /\ Similar /\ r0 % 4 = 0 /\ (IF pc = "L64loop" THEN r2 >= 64 ELSE r2 >= 32)
  BY DEF Here, L64loop, Up, Down, Fill
<1>2. r0 \in Nat /\ r1 \in Nat /\ r2 \in Nat /\ r12 \in Nat /\ r0 % 4 = r1 % 4
  BY <1>1, NatRegisters DEF MovingUp, Similar
<1>3. k \in 0 .. r2 /\ k = 32 /\ k \in Nat /\ k % 4 = 0 /\ r0 % 4 = 0 /\ r1 % 4 = 0
  BY <1>1, <1>2
<1> HIDE DEF k
<1>4. Whole(k, P) /\ Aligned(r0, P) /\ Aligned(r1, P)
  BY <1>2, <1>3, Pieces
<1>5. Forward(k, P) /\ r12' = r12 /\ pc' = IF pc = "L64loop" THEN "L64loop_second" ELSE After64
  BY <1>1 DEF L64loop, k
<1>6. /\ MovingUp' /\ AccessesSound' /\ r12' \in Nat
      /\ r0' = r0 + k /\ r1' = r1 + k /\ r2' = r2 - k
      /\ r2' = 0 /\ pc' = "Lexit" => Moved'
  BY <1>1, <1>2, <1>3, <1>4, <1>5, ForwardStep
<1>7. r0' % 4 = r1' % 4 /\ r0' % 4 = 0 /\ (pc = "L64loop" => r2' >= 32)
  BY <1>1, <1>2, <1>3, <1>5, <1>6
<1>8. call' \in Requests
  BY <1>6 DEF MovingUp, Registers
<1> QED
  BY <1>1, <1>2, <1>5, <1>6, <1>7, <1>8 DEF Here, Up, After64, Similar

LEMMA Lessthan64_alignedStep ==
  ASSUME Here, Lessthan64_aligned
  PROVE  Here' /\ AccessesSound'
<1> DEFINE k == IF r2 >= 16 THEN 16 ELSE r2
           P == IF r2 >= 16 THEN Words(k) ELSE Falling(k)
<1>1. MovingUp /\ Similar /\ r0 % 4 = 0
  BY DEF Here, Lessthan64_aligned, Up, Down, Fill
<1>2. r0 \in Nat /\ r1 \in Nat /\ r2 \in Nat /\ r12 \in Nat /\ r0 % 4 = r1 % 4
  BY <1>1, NatRegisters DEF MovingUp, Similar
<1>3. /\ k \in 0 .. r2 /\ k \in Nat /\ k \in 0 .. 16 /\ r1 % 4 = 0
      /\ r2 >= 16 => k % 4 = 0 /\ k = 16
      /\ r2 < 16 => k \in 0 .. 15 /\ k = r2
  BY <1>1, <1>2
<1>4. /\ Forward(k, P) /\ r12' = r12
      /\ \/ pc' = "Lexit" /\ (r2' = 0 \/ r2 < 16)
         \/ pc' = "Llessthan64_aligned" /\ r2 >= 16
  <2>1. CASE r2 >= 16
    BY <2>1 DEF Lessthan64_aligned
  <2>2. CASE ~(r2 >= 16)
    BY <1>2, <2>2 DEF Lessthan64_aligned
  <2> QED
    BY <2>1, <2>2
<1> HIDE DEF k
<1>5. Whole(k, P) /\ Aligned(r0, P) /\ Aligned(r1, P)
  BY <1>1, <1>2, <1>3, Pieces
<1> HIDE DEF P
<1>6. /\ MovingUp' /\ AccessesSound' /\ r12' \in Nat
      /\ r0' = r0 + k /\ r1' = r1 + k /\ r2' = r2 - k
      /\ r2' = 0 /\ pc' = "Lexit" => Moved'
  BY <1>1, <1>2, <1>3, <1>4, <1>5, ForwardStep
<1>7. /\ r2 >= 16 => r0' % 4 = r1' % 4 /\ r0' % 4 = 0
      /\ r2 < 16 => r2' = 0
  BY <1>1, <1>2, <1>3, <1>6
<1>8. call' \in Requests
  BY <1>6 DEF MovingUp, Registers
<1> QED
  BY <1>2, <1>4, <1>6, <1>7, <1>8 DEF Here, Up, Similar

LEMMA Bytewise2Step ==
  ASSUME Here, Bytewise2
  PROVE  Here' /\ AccessesSound'
<1> DEFINE k == IF r2 >= 2 THEN 2 ELSE 1
           P == Bytes(k)
<1>1. MovingUp /\ r2 >= 1
  BY DEF Here, Bytewise2, Up, Down, Fill
<1>2. r0 \in Nat /\ r1 \in Nat /\ r2 \in Nat /\ r12 \in Nat
  BY <1>1, NatRegisters DEF MovingUp
<1>3. k \in 0 .. r2 /\ k \in Nat /\ (r2 >= 2 => k = 2) /\ (r2 < 2 => k = 1)
  BY <1>1, <1>2
<1> HIDE DEF k
<1>4. Whole(k, P) /\ Aligned(r0, P) /\ Aligned(r1, P)
  BY <1>2, <1>3, Pieces
<1>5. Forward(k, P) /\ r12' = r12 /\ pc' = IF r2 > 2 THEN "Lbytewise2" ELSE "Lexit"
  BY <1>1 DEF Bytewise2, k
<1>6. /\ MovingUp' /\ AccessesSound' /\ r12' \in Nat
      /\ r0' = r0 + k /\ r1' = r1 + k /\ r2' = r2 - k
      /\ r2' = 0 /\ pc' = "Lexit" => Moved'
  BY <1>1, <1>2, <1>3, <1>4, <1>5, ForwardStep
<1>7. IF r2 > 2 THEN r2' >= 1 ELSE r2' = 0
  BY <1>1, <1>2, <1>3, <1>5, <1>6
<1>8. call' \in Requests
  BY <1>6 DEF MovingUp, Registers
<1> QED
  BY <1>1, <1>2, <1>5, <1>6, <1>7, <1>8 DEF Here, Up

LEMMA BytewiseStep ==
  ASSUME Here, Bytewise
  PROVE  Here' /\ AccessesSound'
<1> DEFINE k == 1
           P == Bytes(k)
<1>1. MovingUp /\ r2 >= 1
  BY DEF Here, Bytewise, Up, Down, Fill
<1>2. r0 \in Nat /\ r1 \in Nat /\ r2 \in Nat /\ r12 \in Nat
  BY <1>1, NatRegisters DEF MovingUp
<1>3. k \in 0 .. r2 /\ k \in Nat /\ k = 1
  BY <1>1, <1>2
<1> HIDE DEF k
<1>4. Whole(k, P) /\ Aligned(r0, P) /\ Aligned(r1, P)
  BY <1>2, <1>3, Pieces
<1>5. Forward(k, P) /\ r12' = r12 /\ pc' = IF r2 > 1 THEN "Lbytewise" ELSE "Lexit"
  BY <1>1 DEF Bytewise, k
<1>6. /\ MovingUp' /\ AccessesSound' /\ r12' \in Nat
      /\ r0' = r0 + k /\ r1' = r1 + k /\ r2' = r2 - k
      /\ r2' = 0 /\ pc' = "Lexit" => Moved'
  BY <1>1, <1>2, <1>3, <1>4, <1>5, ForwardStep
<1>7. IF r2 > 1 THEN r2' >= 1 ELSE r2' = 0
  BY <1>1, <1>2, <1>3, <1>5, <1>6
<1>8. call' \in Requests
  BY <1>6 DEF MovingUp, Registers
<1> QED
  BY <1>1, <1>2, <1>5, <1>6, <1>7, <1>8 DEF Here, Up

LEMMA WordalignloopByte ==
  ASSUME Here, Wordalignloop, r1 % 4 # 0
  PROVE  Here' /\ AccessesSound'
<1> DEFINE k == 1
           P == Bytes(k)
<1>1. MovingUp /\ Similar /\ r2 + (r1 % 4) >= 4 /\ pc = "Lwordalignloop"
  BY DEF Here, Wordalignloop, Up, Down, Fill
<1>2. r0 \in Nat /\ r1 \in Nat /\ r2 \in Nat /\ r12 \in Nat /\ r0 % 4 = r1 % 4
  BY <1>1, NatRegisters DEF MovingUp, Similar
<1>3. k \in 0 .. r2 /\ k \in Nat /\ k = 1
  BY <1>1, <1>2
<1> HIDE DEF k
<1>4. Whole(k, P) /\ Aligned(r0, P) /\ Aligned(r1, P)
  BY <1>2, <1>3, Pieces
<1>5. Forward(k, P) /\ r12' = r12 /\ pc' = "Lwordalignloop"
  BY <1>1 DEF Wordalignloop, k
<1>6. /\ MovingUp' /\ AccessesSound' /\ r12' \in Nat
      /\ r0' = r0 + k /\ r1' = r1 + k /\ r2' = r2 - k
      /\ r2' = 0 /\ pc' = "Lexit" => Moved'
  BY <1>1, <1>2, <1>3, <1>4, <1>5, ForwardStep
<1>7. r0' % 4 = r1' % 4 /\ (r1' % 4 = 0 \/ r2' + (r1' % 4) >= 4)
  BY <1>1, <1>2, <1>3, <1>5, <1>6
<1>8. call' \in Requests
  BY <1>6 DEF MovingUp, Registers
<1> QED
  BY <1>1, <1>2, <1>5, <1>6, <1>7, <1>8 DEF Here, Up, Similar

LEMMA WordalignloopStep ==
  ASSUME Here, Wordalignloop
  PROVE  Here' /\ AccessesSound'
<1>1. CASE r1 % 4 # 0
  BY <1>1, WordalignloopByte
<1>2. CASE r1 % 4 = 0
  <2>1. MovingUp /\ Similar /\ pc' = "Llessthan64_aligned"
        /\ UNCHANGED <<call, mem, r0, r1, r2, r12>> /\ loads' = {} /\ stores' = {}
    BY <1>2 DEF Here, Wordalignloop, Branch, Up, Down, Fill
  <2>2. MovingUp'
    BY <2>1 DEF MovingUp, Registers, Upwards, Copied, D, S, L
  <2> QED
    BY <1>2, <2>1, <2>2, NoAccess DEF Here, Up, Similar
<1> QED
  BY <1>1, <1>2

LEMMA Align_forwardByte ==
  ASSUME Here, Align_forward, r1 % 4 # 0
  PROVE  Here' /\ AccessesSound'
<1> DEFINE k == 1
           P == Bytes(k)
<1>1. MovingUp /\ ~Similar /\ r2 + (r1 % 4) >= 8 /\ pc = "Lwordalignloop2"
  BY DEF Here, Align_forward, Up, Down, Fill
<1>2. r0 \in Nat /\ r1 \in Nat /\ r2 \in Nat /\ r12 \in Nat /\ r0 % 4 # r1 % 4
  BY <1>1, NatRegisters DEF MovingUp, Similar
<1>3. k \in 0 .. r2 /\ k \in Nat /\ k = 1
  BY <1>1, <1>2
<1> HIDE DEF k
<1>4. Whole(k, P) /\ Aligned(r0, P) /\ Aligned(r1, P)
  BY <1>2, <1>3, Pieces
<1>5. Forward(k, P) /\ r12' = r12 /\ pc' = "Lwordalignloop2"
  BY <1>1 DEF Align_forward, k
<1>6. /\ MovingUp' /\ AccessesSound' /\ r12' \in Nat
      /\ r0' = r0 + k /\ r1' = r1 + k /\ r2' = r2 - k
      /\ r2' = 0 /\ pc' = "Lexit" => Moved'
  BY <1>1, <1>2, <1>3, <1>4, <1>5, ForwardStep
<1>7. r0' % 4 # r1' % 4 /\ r2' >= 4 /\ (r1' % 4 = 0 \/ r2' + (r1' % 4) >= 8)
  BY <1>1, <1>2, <1>3, <1>5, <1>6
<1>8. call' \in Requests
  BY <1>6 DEF MovingUp, Registers
<1> QED
  BY <1>1, <1>2, <1>5, <1>6, <1>7, <1>8 DEF Here, Up, Similar

\* The shifting loop is entered with the destination's first bytes in r4.
LEMMA Align_forwardStep ==
  ASSUME Here, Align_forward
  PROVE  Here' /\ AccessesSound'
<1>1. CASE r1 % 4 # 0
  BY <1>1, Align_forwardByte
<1>2. CASE r1 % 4 = 0
  <2> DEFINE shift == r0 % 4
  <2>1. MovingUp /\ ~Similar /\ r2 >= 4
    BY DEF Here, Align_forward, Up, Down, Fill
  <2>2. /\ r0 \in Nat /\ r1 \in Nat /\ r2 \in Nat /\ r2 <= L /\ r0 % 4 # r1 % 4
        /\ D \in Nat /\ S \in Nat /\ L \in Nat /\ D >= 3 /\ MemSize \in Nat
        /\ D + L <= MemSize
        /\ r0 = D + (L - r2) /\ r1 = S + (L - r2) /\ mem = Copied(L - r2)
        /\ Upwards /\ call \in Requests
    BY <2>1, NatRegisters, RequestFacts DEF MovingUp, Similar, Registers
  <2>3. /\ r12' = r2 \div 4 /\ r0' = r0 - shift
        /\ r4' = [i \in 1 .. shift |-> mem[r0 - shift + i - 1]]
        /\ loads' = {<<r0 - shift, IF shift = 3 THEN 4 ELSE shift>>}
        /\ stores' = {} /\ pc' = "Lalign_forward_loop"
        /\ UNCHANGED <<call, mem, r1, r2>>
    BY <1>2 DEF Align_forward
  <2>4. /\ shift \in 1 .. 3 /\ shift \in Nat /\ r0 - shift \in Nat
        /\ (r0 - shift) % 4 = 0
        /\ r2 \div 4 \in Nat /\ r2 \div 4 >= 1 /\ 4 * (r2 \div 4) + (r2 % 4) = r2
    BY <1>2, <2>1, <2>2
  <2> HIDE DEF shift
  <2>5. Len(r4') = shift
    BY <2>3, <2>4
  <2>6. r0' + shift = r0 /\ r0' + shift - D = L - r2
    BY <2>2, <2>3, <2>4
  <2>7. Shifting'
    <3>1. r4' = [i \in 1 .. shift |-> Copied(r0' + shift - D)[r0' + i - 1]]
      BY <2>2, <2>3, <2>6
    <3>2. mem \in [Addr -> Nat]
      <4>1. \A x \in Addr : Copied(L - r2)[x] \in Nat
        <5>1. \A x \in Addr : x \in D .. (D + (L - r2) - 1) => x - D + S \in Addr
          BY <2>2, RequestFacts DEF Addr
        <5> QED
          BY <2>2, <5>1, RequestFacts DEF Copied
      <4> QED
        BY <2>2, <4>1 DEF Copied
    <3>3. \A x \in Addr : mem'[x] = Copied(r0' + shift - D)[x]
      BY <2>2, <2>3, <2>6
    <3>4. /\ Registers' /\ Upwards'
      BY <2>1, <2>2, <2>3, <2>4 DEF MovingUp, Registers, Upwards, D, S, L
    <3>5. /\ r0' + shift - D \in 0 .. L /\ r1' = S + (r0' + shift - D)
          /\ r0' % 4 = 0 /\ r1' % 4 = 0
          /\ (r0' + shift - D) + 4 * r12' + (r2' % 4) = L
      BY <1>2, <2>2, <2>3, <2>4, <2>6
    <3>6. D' = D /\ S' = S /\ L' = L /\ \A n \in Int : Copied(n)' = Copied(n)
      BY <2>3 DEF D, S, L, Copied
    <3>7. r0' + shift - D \in Int /\ mem' = mem
      BY <2>3, <3>5
    <3> QED
      BY <2>4, <2>5, <3>1, <3>2, <3>3, <3>4, <3>5, <3>6, <3>7 DEF Shifting
  <2>8. AccessesSound'
    <3> DEFINE w == IF shift = 3 THEN 4 ELSE shift
    <3>1. w \in {1, 2, 4} /\ (r0 - shift) % w = 0
      BY <2>4
    <3>2. (r0 - shift) .. (r0 - shift + w - 1) \subseteq Hull(D, L)
      <4>1. (r0 - shift) >= D - (D % 4)
        BY <2>1, <2>2, <2>4
      <4>2. r0 - shift + w - 1 <= r0 - shift + 3
        BY <2>2, <2>4
      <4>3. r0 - shift + 3 <= 4 * ((D + L + 3) \div 4) - 1
        BY <2>1, <2>2, <2>4
      <4> QED
        BY <2>2, <2>4, <3>1, <4>1, <4>2, <4>3 DEF Hull
    <3> HIDE DEF w
    <3>3. loads' = {<<r0 - shift, w>>} /\ stores' = {}
      BY <2>3 DEF w
    <3> QED
      <4>1. \A a \in loads' : a[1] = r0 - shift /\ a[2] = w
        BY <3>3
      <4>2. \A a \in loads' \cup stores' :
               a[1] % (IF a[2] = 8 THEN 4 ELSE a[2]) = 0
        BY <3>1, <3>3, <4>1
      <4>3. \A a \in loads' : Cover(a) \subseteq Hull(D, L)
        BY <3>2, <4>1 DEF Cover
      <4>4. D' = D /\ S' = S /\ L' = L
        BY <2>3 DEF D, S, L
      <4> QED
        BY <3>3, <4>2, <4>3, <4>4 DEF AccessesSound, D, S, L
  <2> QED
    BY <2>3, <2>4, <2>7, <2>8 DEF Here
<1> QED
  BY <1>1, <1>2

\* While words are shifted, shift bytes are carried and n have been loaded.
Carried(shift, n) ==
    /\ shift = Len(r4) /\ n = r0 + shift - D
    /\ shift \in 1 .. 3 /\ shift \in Nat /\ r0 \in Nat /\ r1 \in Nat
    /\ r2 \in Nat /\ r2 <= L /\ r12 \in Nat /\ n \in 0 .. L
    /\ D \in Nat /\ S \in Nat /\ L \in Nat /\ MemSize \in Nat
    /\ D >= 3 /\ D + L <= MemSize /\ S + L <= MemSize
    /\ r1 = S + n /\ n + 4 * r12 + (r2 % 4) = L
    /\ r4 = [i \in 1 .. shift |-> Copied(n)[r0 + i - 1]]
    /\ \A x \in Addr : \/ x >= D /\ x \in r0 .. (r0 + shift - 1)
                       \/ mem[x] = Copied(n)[x]
    /\ r0 % 4 = 0 /\ r1 % 4 = 0 /\ (D < S \/ S + L <= D) /\ ~call.fill
    /\ call \in Requests /\ mem \in [Addr -> Nat] /\ Registers

LEMMA ShiftingFacts ==
  ASSUME Shifting
  PROVE  \E shift, n : Carried(shift, n)
<1> DEFINE shift == Len(r4)
           n == r0 + shift - D
<1>1. Registers
  BY DEF Shifting
<1>2. /\ r0 \in Nat /\ r1 \in Nat /\ r2 \in Nat /\ r12 \in Nat /\ r2 <= L
      /\ call \in Requests
      /\ D \in Nat /\ S \in Nat /\ L \in Nat /\ MemSize \in Nat
      /\ D >= 3 /\ D + L <= MemSize /\ S + L <= MemSize
  BY <1>1, NatRegisters, RequestFacts
<1>3. /\ shift \in 1 .. 3 /\ n \in 0 .. L
      /\ r1 = S + n /\ n + 4 * r12 + (r2 % 4) = L
      /\ r4 = [i \in 1 .. shift |-> Copied(n)[r0 + i - 1]]
      /\ \A x \in Addr : \/ x >= D /\ x \in r0 .. (r0 + shift - 1)
                         \/ mem[x] = Copied(n)[x]
      /\ r0 % 4 = 0 /\ r1 % 4 = 0 /\ (D < S \/ S + L <= D) /\ ~call.fill
      /\ mem \in [Addr -> Nat]
  BY Zenon DEF Shifting, Upwards
<1>4. shift \in Nat
  BY <1>3
<1>5. Carried(shift, n)
  BY <1>1, <1>2, <1>3, <1>4, Zenon DEF Carried
<1> QED
  BY <1>5

LEMMA Align_forward_loopStep ==
  ASSUME Here, Align_forward_loop
  PROVE  Here' /\ AccessesSound'
<1>1. Shifting /\ r12 >= 1
  BY DEF Here, Align_forward_loop, Up, Down, Fill
<1>a. PICK shift, n : Carried(shift, n)
  BY <1>1, ShiftingFacts
<1>2. /\ shift \in 1 .. 3 /\ shift \in Nat /\ r0 \in Nat /\ r1 \in Nat
      /\ r2 \in Nat /\ r2 <= L /\ r12 \in Nat /\ n \in 0 .. L
      /\ D \in Nat /\ S \in Nat /\ L \in Nat /\ MemSize \in Nat
      /\ D >= 3 /\ D + L <= MemSize /\ S + L <= MemSize
      /\ r1 = S + n /\ n + 4 * r12 + (r2 % 4) = L
      /\ r4 = [i \in 1 .. shift |-> Copied(n)[r0 + i - 1]]
      /\ \A x \in Addr : \/ x >= D /\ x \in r0 .. (r0 + shift - 1)
                         \/ mem[x] = Copied(n)[x]
      /\ r0 % 4 = 0 /\ r1 % 4 = 0 /\ (D < S \/ S + L <= D) /\ ~call.fill
      /\ call \in Requests /\ mem \in [Addr -> Nat] /\ Registers
  BY <1>a, Zenon DEF Carried
<1>3. /\ r0 + shift = D + n
      /\ shift \in 1 .. 3 /\ r0 \in Nat /\ r1 \in Nat /\ r2 \in Nat /\ r12 \in Nat
      /\ n \in 0 .. L /\ D \in Nat /\ S \in Nat /\ L \in Nat /\ MemSize \in Nat
      /\ D >= 3 /\ D + L <= MemSize /\ S + L <= MemSize /\ r1 = S + n
      /\ r0 % 4 = 0 /\ (D < S \/ S + L <= D)
  <2>1. r0 \in Nat /\ shift \in Nat /\ D \in Nat
    BY <1>2, Zenon
  <2>2. r0 + shift = D + n
    BY <1>a, <2>1 DEF Carried
  <2> QED
    BY <1>2, <2>2, Zenon
<1>4. /\ mem' = [x \in Addr |->
                    IF x - r0 \in 0 .. (shift - 1) THEN r4[x - r0 + 1]
                    ELSE IF x - r0 \in shift .. 3 THEN mem[r1 + (x - r0 - shift)]
                    ELSE mem[x]]
      /\ r4' = [i \in 1 .. shift |-> mem[r1 + 4 - shift + i - 1]]
      /\ r0' = r0 + 4 /\ r1' = r1 + 4 /\ r12' = r12 - 1
      /\ loads' = {<<r1, 4>>} /\ stores' = {<<r0, 4>>}
      /\ pc' = IF r12' = 0 THEN "Lalign_forward_end" ELSE "Lalign_forward_loop"
      /\ call' = call /\ r2' = r2
  BY <1>a DEF Carried, Align_forward_loop, LeftOver
<1>5. Len(r4') = shift
  BY <1>2, <1>4
<1>6. /\ n + 4 <= L /\ r0' \in Nat /\ r1' \in Nat /\ r12' \in Nat
      /\ r0' % 4 = 0 /\ r1' % 4 = 0 /\ n + 4 \in 0 .. L
      /\ r1' = S + (n + 4) /\ (n + 4) + 4 * r12' + (r2' % 4) = L
      /\ r0' + shift = D + (n + 4) /\ r0' + shift - D = n + 4
  BY <1>1, <1>2, <1>3, <1>4
\* What the word that is loaded holds has not been overwritten.
<1>7. ASSUME NEW j \in 0 .. 3
      PROVE  mem[r1 + j] = Before[S + n + j] /\ S + n + j \in Addr
  <2>1. r1 + j \in Addr /\ r1 + j = S + n + j
    BY <1>3, <1>6 DEF Addr
  <2>2. ~(r1 + j >= D /\ r1 + j \in r0 .. (r0 + shift - 1))
    BY <1>3, <1>6
  <2>3. ~(r1 + j \in D .. (D + n - 1))
    BY <1>3, <1>6
  <2>4. mem[r1 + j] = Copied(n)[r1 + j]
    BY <1>2, <2>1, <2>2
  <2> QED
    BY <2>1, <2>3, <2>4 DEF Copied
<1>8. ASSUME NEW i \in 1 .. shift
      PROVE  r4'[i] = Copied(n + 4)[r0' + i - 1]
  <2> DEFINE x == r0' + i - 1
             j == 4 - shift + i - 1
  <2>1. /\ j \in 0 .. 3 /\ r1 + 4 - shift + i - 1 = r1 + j
        /\ x \in Addr /\ x \in D .. (D + (n + 4) - 1) /\ x - D + S = S + n + j
    BY <1>2, <1>3, <1>4, <1>6 DEF Addr
  <2>2. r4'[i] = mem[r1 + j]
    BY <1>4, <2>1
  <2> HIDE DEF x, j
  <2>3. Copied(n + 4)[x] = Before[x - D + S]
    BY <2>1 DEF Copied
  <2>4. r4'[i] = Copied(n + 4)[x]
    BY <1>7, <2>1, <2>2, <2>3
  <2> QED
    BY <2>4 DEF x
<1>9. ASSUME NEW x \in Addr
      PROVE  \/ x >= D /\ x \in r0' .. (r0' + shift - 1)
             \/ mem'[x] = Copied(n + 4)[x]
  <2>0. x \in Nat
    BY <1>2 DEF Addr
  <2>1. CASE x - r0 \in 0 .. (shift - 1)
    <3>1. x - r0 + 1 \in 1 .. shift /\ r0 + (x - r0 + 1) - 1 = x
      BY <1>2, <2>0, <2>1
    <3>2. mem'[x] = r4[x - r0 + 1]
      BY <1>4, <2>1
    <3>3. mem'[x] = Copied(n)[x]
      BY <1>2, <3>1, <3>2
    <3>4. x \in D .. (D + n - 1) <=> x \in D .. (D + (n + 4) - 1)
      BY <1>2, <1>3, <2>0, <2>1
    <3> QED
      BY <3>3, <3>4 DEF Copied
  <2>2. CASE x - r0 \in shift .. 3
    <3> DEFINE j == x - r0 - shift
    <3>1. /\ j \in 0 .. 3 /\ x \in D .. (D + (n + 4) - 1)
          /\ x - D + S = S + n + j
      BY <1>2, <1>3, <2>0, <2>2
    <3>2. mem'[x] = mem[r1 + j]
      BY <1>2, <1>4, <2>0, <2>2
    <3> HIDE DEF j
    <3>3. mem'[x] = Before[x - D + S]
      BY <1>7, <3>1, <3>2
    <3> QED
      BY <3>1, <3>3 DEF Copied
  <2>3. CASE x \in r0' .. (r0' + shift - 1)
    BY <1>3, <1>4, <2>0, <2>3
  <2>4. CASE x - r0 \notin 0 .. 3 /\ x \notin r0' .. (r0' + shift - 1)
    <3>1. mem'[x] = mem[x]
      BY <1>3, <1>4, <2>0, <2>4
    <3>2. mem[x] = Copied(n)[x]
      <4>1. x \notin r0 .. (r0 + shift - 1)
        BY <1>3, <2>0, <2>4
      <4> QED
        BY <1>2, <4>1
    <3>3. x \in D .. (D + n - 1) <=> x \in D .. (D + (n + 4) - 1)
      BY <1>3, <1>4, <2>0, <2>4
    <3> QED
      BY <3>1, <3>2, <3>3 DEF Copied
  <2> QED
    BY <1>3, <2>0, <2>1, <2>2, <2>3, <2>4
<1>10. mem' \in [Addr -> Nat]
  <2>1. ASSUME NEW x \in Addr PROVE mem'[x] \in Nat
    <3>0. x \in Nat
      BY <1>2 DEF Addr
    <3>1. CASE x - r0 \in 0 .. (shift - 1)
      <4>1. /\ x - r0 + 1 \in 1 .. shift /\ r0 + (x - r0 + 1) - 1 = x
        BY <1>2, <3>0, <3>1
      <4>2. mem'[x] = Copied(n)[x]
        BY <1>2, <1>4, <3>1, <4>1
      <4>3. x \in D .. (D + n - 1) => x - D + S \in Addr
        BY <1>2, <3>0 DEF Addr
      <4> QED
        BY <1>2, <4>2, <4>3, RequestFacts DEF Copied
    <3>2. CASE x - r0 \in shift .. 3
      <4>1. x - r0 - shift \in 0 .. 3
        BY <1>2, <3>0, <3>2
      <4>2. mem'[x] = mem[r1 + (x - r0 - shift)]
        BY <1>2, <1>4, <3>0, <3>2
      <4> QED
        BY <1>2, <1>7, <4>1, <4>2, RequestFacts
    <3>3. CASE x - r0 \notin 0 .. 3
      BY <1>2, <1>4, <3>0, <3>3
    <3> QED
      BY <1>2, <3>0, <3>1, <3>2, <3>3
  <2> QED
    BY <1>4, <2>1
<1>11. Shifting'
  <2>1. r4' = [i \in 1 .. shift |-> Copied(n + 4)[r0' + i - 1]]
    BY <1>4, <1>8
  <2>2. D' = D /\ S' = S /\ L' = L
    BY <1>4 DEF D, S, L
  <2>3. Registers' /\ Upwards'
    BY <1>2, <1>4, <1>6 DEF Registers, Upwards, D, S, L
  <2>4. \A m \in Int : Copied(m)' = Copied(m)
    BY <1>4 DEF D, S, L, Copied
  <2>5. r0' + shift - D = n + 4 /\ shift \in 1 .. 3
    BY <1>3, <1>6, Zenon
  <2>6. n + 4 \in Int
    <3>1. n \in 0 .. L /\ L \in Nat
      BY <1>3, Zenon
    <3> QED
      BY <3>1
  <2> QED
    BY <1>5, <1>6, <1>9, <1>10, <2>1, <2>2, <2>3, <2>4, <2>5, <2>6 DEF Shifting
<1>12. AccessesSound'
  <2>1. r0 .. (r0 + 4 - 1) \subseteq Hull(D, L)
    <3>1. r0 >= D - (D % 4)
      BY <1>3
    <3>2. r0 + 3 <= 4 * ((D + L + 3) \div 4) - 1
      BY <1>3, <1>6
    <3> QED
      BY <1>2, <3>1, <3>2 DEF Hull
  <2>2. r1 .. (r1 + 4 - 1) \subseteq S .. (S + L - 1)
    BY <1>2, <1>6
  <2> QED
    <3>1. D' = D /\ S' = S /\ L' = L
      BY <1>4 DEF D, S, L
    <3>2. \A a \in stores' : a[1] = r0 /\ a[2] = 4
      BY <1>4
    <3>3. \A a \in loads' : a[1] = r1 /\ a[2] = 4
      BY <1>4
    <3>4. \A a \in loads' \cup stores' :
             a[1] % (IF a[2] = 8 THEN 4 ELSE a[2]) = 0
      BY <1>2, <3>2, <3>3
    <3>5. \A a \in stores' : Cover(a) \subseteq Hull(D, L)
      BY <2>1, <3>2 DEF Cover
    <3>6. \A a \in loads' : Cover(a) \subseteq S .. (S + L - 1)
      BY <2>2, <3>3 DEF Cover
    <3> QED
      BY <3>1, <3>4, <3>5, <3>6 DEF AccessesSound, D, S, L
<1>13. CASE r12' = 0
  <2>1. pc' = "Lalign_forward_end"
    BY <1>4, <1>13
  <2> QED
    BY <1>11, <1>12, <1>13, <2>1, Zenon DEF Here
<1>14. CASE r12' # 0
  <2>1. r12' \in Nat /\ pc' = "Lalign_forward_loop"
    BY <1>4, <1>6, <1>14, Zenon
  <2>2. r12' >= 1
    BY <1>14, <2>1
  <2> QED
    BY <1>11, <1>12, <2>1, <2>2, Zenon DEF Here
<1> QED
  BY <1>13, <1>14

LEMMA Align_forward_endStep ==
  ASSUME Here, Align_forward_end
  PROVE  Here' /\ AccessesSound'
<1>1. Shifting /\ r12 = 0
  BY DEF Here, Align_forward_end, Up, Down, Fill
<1>a. PICK shift, n : Carried(shift, n)
  BY <1>1, ShiftingFacts
<1>2. /\ shift \in 1 .. 3 /\ shift \in Nat /\ r0 \in Nat /\ r1 \in Nat
      /\ r2 \in Nat /\ r2 <= L /\ r12 \in Nat /\ n \in 0 .. L
      /\ D \in Nat /\ S \in Nat /\ L \in Nat /\ MemSize \in Nat
      /\ D >= 3 /\ D + L <= MemSize /\ S + L <= MemSize
      /\ r1 = S + n /\ n + 4 * r12 + (r2 % 4) = L
      /\ r4 = [i \in 1 .. shift |-> Copied(n)[r0 + i - 1]]
      /\ \A x \in Addr : \/ x >= D /\ x \in r0 .. (r0 + shift - 1)
                         \/ mem[x] = Copied(n)[x]
      /\ r0 % 4 = 0 /\ r1 % 4 = 0 /\ (D < S \/ S + L <= D) /\ ~call.fill
      /\ call \in Requests /\ mem \in [Addr -> Nat] /\ Registers
  BY <1>a, Zenon DEF Carried
<1>3. /\ r0 + shift = D + n /\ n = L - (r2 % 4) /\ r2 % 4 \in 0 .. 3
      /\ shift \in 1 .. 3 /\ r0 \in Nat /\ r1 \in Nat /\ r2 \in Nat
      /\ n \in 0 .. L /\ D \in Nat /\ S \in Nat /\ L \in Nat /\ MemSize \in Nat
      /\ D >= 3 /\ D + L <= MemSize /\ S + L <= MemSize /\ r1 = S + n
      /\ r0 % 4 = 0 /\ r2 % 4 \in 0 .. L /\ r0 + shift \in Nat
  <2>1. /\ r0 \in Nat /\ shift \in Nat /\ D \in Nat /\ n \in 0 .. L /\ L \in Nat
        /\ r2 \in Nat /\ n + 4 * r12 + (r2 % 4) = L /\ r12 = 0
    BY <1>1, <1>2, Zenon
  <2>2. r0 + shift = D + n
    BY <1>a, <2>1 DEF Carried
  <2>3. n = L - (r2 % 4) /\ r2 % 4 \in 0 .. 3 /\ r2 % 4 \in 0 .. L
    BY <2>1
  <2>4. r0 + shift \in Nat
    BY <2>1
  <2> QED
    BY <1>2, <2>2, <2>3, <2>4, Zenon
<1>4. /\ mem' = [x \in Addr |-> IF x - r0 \in 0 .. (shift - 1)
                                 THEN r4[x - r0 + 1] ELSE mem[x]]
      /\ r0' = r0 + shift /\ stores' = At(r0, Falling(shift))
      /\ r2' = r2 % 4 /\ loads' = {} /\ call' = call /\ r1' = r1 /\ r12' = r12
      /\ pc' = IF r2' = 0 THEN "Lexit" ELSE "Lbytewise2"
  BY <1>a DEF Carried, Align_forward_end
<1>5. ASSUME NEW x \in Addr
      PROVE  mem'[x] = Copied(n)[x]
  <2>1. x \in Nat
    BY <1>3 DEF Addr
  <2>2. CASE x - r0 \in 0 .. (shift - 1)
    <3>1. x - r0 + 1 \in 1 .. shift /\ r0 + (x - r0 + 1) - 1 = x
      BY <1>3, <2>1, <2>2
    <3> QED
      BY <1>2, <1>4, <2>2, <3>1
  <2>3. CASE ~(x - r0 \in 0 .. (shift - 1))
    <3>1. x \notin r0 .. (r0 + shift - 1)
      BY <1>3, <2>1, <2>3
    <3> QED
      BY <1>2, <1>4, <2>3, <3>1
  <2> QED
    BY <2>2, <2>3
<1>6. mem' = Copied(n)
  BY <1>4, <1>5 DEF Copied
<1>7. MovingUp'
  <2>1. D' = D /\ S' = S /\ L' = L /\ \A m \in Int : Copied(m)' = Copied(m)
    BY <1>4 DEF D, S, L, Copied
  <2>2. r2' = r2 % 4 /\ L - r2' = n /\ L - r2' \in Int
    BY <1>3, <1>4
  <2>3. mem' = Copied(L - r2')
    BY <1>6, <2>2
  <2>4. /\ call' \in Requests /\ r0' \in Nat /\ r1' \in Nat /\ r2' \in 0 .. L
        /\ r12' \in Nat /\ ~call'.fill
    BY <1>2, <1>3, <1>4
  <2>5. r0' = D + (L - r2') /\ r1' = S + (L - r2')
    BY <1>3, <1>4, <2>2
  <2> QED
    BY <1>2, <2>1, <2>2, <2>3, <2>4, <2>5 DEF MovingUp, Registers, Upwards
<1>8. AccessesSound'
  <2>1. Whole(shift, Falling(shift)) /\ Aligned(r0, Falling(shift))
    BY <1>3, Pieces
  <2>2. ASSUME NEW p \in Falling(shift)
        PROVE  /\ (r0 + p[1]) % Unit(p[2]) = 0
               /\ (r0 + p[1]) .. ((r0 + p[1]) + p[2] - 1) \subseteq Hull(D, L)
    <3>1. p[1] \in Nat /\ p[2] \in Nat /\ p[1] + p[2] <= shift
      BY <2>1 DEF Whole
    <3>2. r0 >= D - (D % 4)
      BY <1>3
    <3>3. (r0 + p[1]) + p[2] <= D + L
      BY <1>3, <3>1
    <3>4. D + L <= 4 * ((D + L + 3) \div 4)
      BY <1>3
    <3> QED
      BY <1>3, <2>1, <3>1, <3>2, <3>3, <3>4 DEF Aligned, Hull
  <2>3. stores' = {<<r0 + p[1], p[2]>> : p \in Falling(shift)}
    BY <1>4 DEF At
  <2>4. D' = D /\ S' = S /\ L' = L
    BY <1>4 DEF D, S, L
  <2>5. \A a \in stores' : a[1] % Unit(a[2]) = 0 /\ Cover(a) \subseteq Hull(D, L)
    BY <2>2, <2>3 DEF Cover
  <2>6. loads' = {}
    BY <1>4
  <2> QED
    BY <2>4, <2>5, <2>6 DEF AccessesSound, Unit, D, S, L
<1>9. CASE r2' = 0
  <2>1. n = L /\ pc' = "Lexit" /\ call' = call /\ call \in Requests /\ ~call.fill
    BY <1>2, <1>3, <1>4, <1>9
  <2>2. Moved'
    BY <1>6, <2>1, Done
  <2> QED
    BY <1>8, <2>1, <2>2 DEF Here
<1>10. CASE r2' # 0
  <2>1. r2' >= 1 /\ pc' = "Lbytewise2"
    BY <1>3, <1>4, <1>10
  <2> QED
    BY <1>7, <1>8, <2>1 DEF Here, Up
<1> QED
  BY <1>9, <1>10

LEMMA Overlap_srclowerStep ==
  ASSUME Here, Overlap_srclower
  PROVE  Here' /\ AccessesSound'
<1>1. /\ Registers /\ ~call.fill /\ S < D /\ r0 = D /\ r1 = S /\ r2 = L /\ L >= 1
      /\ mem = Before
  BY DEF Here, Overlap_srclower, Up, Down, Fill
<1>2. /\ D \in Nat /\ S \in Nat /\ L \in Nat /\ MemSize \in Nat /\ r12 \in Nat
      /\ call \in Requests /\ D + L <= MemSize
  BY <1>1, NatRegisters, RequestFacts
<1>3. /\ r0' = D + L /\ r1' = S + L /\ loads' = {} /\ stores' = {}
      /\ UNCHANGED <<call, mem, r2, r12>>
      /\ \/ pc' = "Lbytewise_reverse"
         \/ /\ pc' = "Lunaligned_reverse_similarly" /\ r2 >= 64 /\ Similar'
         \/ /\ pc' = "Lunaligned_32_reverse_similarly" /\ r2 >= 64 /\ Similar'
            /\ r0' % 16 = 0
  BY <1>1, <1>2 DEF Overlap_srclower
<1>4. MovingDown'
  <2>1. CopiedDown(L) = Before
    <3>1. \A x \in Addr : ~(x \in (D + L) .. (D + L - 1))
      BY <1>2 DEF Addr
    <3>2. CopiedDown(L) = [x \in Addr |-> Before[x]]
      BY <3>1, Zenon DEF CopiedDown
    <3> QED
      BY <1>2, <3>2, RequestFacts
  <2>2. mem' = CopiedDown(r2)'
    BY <1>1, <1>3, <2>1 DEF CopiedDown, D, S, L
  <2>3. Registers' /\ D' = D /\ S' = S /\ L' = L
    BY <1>1, <1>2, <1>3 DEF Registers, D, S, L
  <2> QED
    BY <1>1, <1>3, <2>2, <2>3 DEF MovingDown
<1> QED
  BY <1>1, <1>2, <1>3, <1>4, NoAccess DEF Here, Down

LEMMA Unaligned_reverse_8Step ==
  ASSUME Here, Unaligned_reverse_8
  PROVE  Here' /\ AccessesSound'
<1> DEFINE k == r12
           P == FromTop(k)
<1>1. MovingDown /\ Similar /\ r2 >= 57 /\ r12 \in {0, 8} /\ r12 <= r0 /\ (r0 - r12) % 16 = 0
  BY DEF Here, Unaligned_reverse_8, Up, Down, Fill
<1>2. r0 \in Nat /\ r1 \in Nat /\ r2 \in Nat /\ r12 \in Nat /\ r0 % 4 = r1 % 4
      /\ r2 <= r0 /\ r2 <= r1
  <2>1. /\ r0 \in Nat /\ r1 \in Nat /\ r2 \in Nat /\ r12 \in Nat
        /\ call \in Requests /\ r0 = D + r2 /\ r1 = S + r2
    BY <1>1, NatRegisters DEF MovingDown
  <2>2. D \in Nat /\ S \in Nat
    BY <2>1, RequestFacts
  <2> QED
    BY <1>1, <2>1, <2>2 DEF Similar
<1>3. k \in 0 .. r2 /\ k = r12 /\ k \in 0 .. 15 /\ r0 - k \in Nat /\ r1 - k \in Nat /\ (r0 - k) % 4 = 0 /\ (r1 - k) % 4 = 0
  BY <1>1, <1>2
<1> HIDE DEF k
<1>4. Whole(k, P) /\ Aligned(r0 - k, P) /\ Aligned(r1 - k, P)
  BY <1>2, <1>3, Pieces
<1>5. Backward(k, P) /\ r12' = r12 /\ pc' = IF r2' = 0 THEN "Lexit" ELSE "Lunaligned_32_reverse_similarly"
  BY <1>1 DEF Unaligned_reverse_8, k
<1>6. /\ MovingDown' /\ AccessesSound' /\ r12' \in Nat
      /\ r0' = r0 - k /\ r1' = r1 - k /\ r2' = r2 - k
      /\ r2' = 0 /\ pc' = "Lexit" => Moved'
  BY <1>1, <1>2, <1>3, <1>4, <1>5, BackwardStep
<1>7. r0' % 4 = r1' % 4 /\ r2' >= 49 /\ r0' % 16 = 0
  BY <1>1, <1>2, <1>3, <1>5, <1>6
<1>8. call' \in Requests
  BY <1>6 DEF MovingDown, Registers
<1> QED
  BY <1>1, <1>2, <1>5, <1>6, <1>7, <1>8 DEF Here, Down, Similar

LEMMA Unaligned_32_reverseStep ==
  ASSUME Here, Unaligned_32_reverse
  PROVE  Here' /\ AccessesSound'
<1> DEFINE k == r0 % 32
           P == Words(k)
<1>1. MovingDown /\ Similar /\ r2 >= 49 /\ r0 % 16 = 0
  BY DEF Here, Unaligned_32_reverse, Up, Down, Fill
<1>2. r0 \in Nat /\ r1 \in Nat /\ r2 \in Nat /\ r12 \in Nat /\ r0 % 4 = r1 % 4
      /\ r2 <= r0 /\ r2 <= r1
  BY <1>1, NatRegisters, RequestFacts DEF MovingDown, Similar
<1>3. k \in 0 .. r2 /\ k \in Nat /\ k <= 16 /\ k % 4 = 0 /\ r0 - k \in Nat /\ r1 - k \in Nat /\ (r0 - k) % 4 = 0 /\ (r1 - k) % 4 = 0
  BY <1>1, <1>2
<1> HIDE DEF k
<1>4. Whole(k, P) /\ Aligned(r0 - k, P) /\ Aligned(r1 - k, P)
  BY <1>2, <1>3, Pieces
<1>5. Backward(k, P) /\ r12' = r12 /\ pc' = IF r2' >= 64 THEN "L64loop_reverse" ELSE "Lbytewise_reverse"
  BY <1>1 DEF Unaligned_32_reverse, k
<1>6. /\ MovingDown' /\ AccessesSound' /\ r12' \in Nat
      /\ r0' = r0 - k /\ r1' = r1 - k /\ r2' = r2 - k
      /\ r2' = 0 /\ pc' = "Lexit" => Moved'
  BY <1>1, <1>2, <1>3, <1>4, <1>5, BackwardStep
<1>7. r0' % 4 = r1' % 4 /\ r0' % 4 = 0 /\ r2' >= 1
  BY <1>1, <1>2, <1>3, <1>5, <1>6
<1>8. call' \in Requests
  BY <1>6 DEF MovingDown, Registers
<1> QED
  BY <1>1, <1>2, <1>5, <1>6, <1>7, <1>8 DEF Here, Down, Similar

LEMMA L64loop_reverseStep ==
  ASSUME Here, L64loop_reverse
  PROVE  Here' /\ AccessesSound'
<1> DEFINE k == 32
           P == Words(k)
<1>1. MovingDown /\ Similar /\ r0 % 4 = 0 /\ (IF pc = "L64loop_reverse" THEN r2 >= 64 ELSE r2 >= 32)
  BY DEF Here, L64loop_reverse, Up, Down, Fill
<1>2. r0 \in Nat /\ r1 \in Nat /\ r2 \in Nat /\ r12 \in Nat /\ r0 % 4 = r1 % 4
      /\ r2 <= r0 /\ r2 <= r1
  BY <1>1, NatRegisters, RequestFacts DEF MovingDown, Similar
<1>3. k \in 0 .. r2 /\ k = 32 /\ k \in Nat /\ k % 4 = 0 /\ r0 - k \in Nat /\ r1 - k \in Nat /\ (r0 - k) % 4 = 0 /\ (r1 - k) % 4 = 0
  BY <1>1, <1>2
<1> HIDE DEF k
<1>4. Whole(k, P) /\ Aligned(r0 - k, P) /\ Aligned(r1 - k, P)
  BY <1>2, <1>3, Pieces
<1>5. Backward(k, P) /\ r12' = r12 /\ pc' = IF pc = "L64loop_reverse" THEN "L64loop_reverse_second" ELSE IF r2' >= 64 THEN "L64loop_reverse" ELSE IF r2' = 0 THEN "Lexit" ELSE "Lbytewise_reverse"
  BY <1>1 DEF L64loop_reverse, k
<1>6. /\ MovingDown' /\ AccessesSound' /\ r12' \in Nat
      /\ r0' = r0 - k /\ r1' = r1 - k /\ r2' = r2 - k
      /\ r2' = 0 /\ pc' = "Lexit" => Moved'
  BY <1>1, <1>2, <1>3, <1>4, <1>5, BackwardStep
<1>7. r0' % 4 = r1' % 4 /\ r0' % 4 = 0 /\ r2' \in Nat /\ (pc = "L64loop_reverse" => r2' >= 32)
  BY <1>1, <1>2, <1>3, <1>5, <1>6
<1>8. call' \in Requests
  BY <1>6 DEF MovingDown, Registers
<1> QED
  BY <1>1, <1>2, <1>5, <1>6, <1>7, <1>8 DEF Here, Down, Similar

LEMMA Bytewise_reverseStep ==
  ASSUME Here, Bytewise_reverse
  PROVE  Here' /\ AccessesSound'
<1> DEFINE k == 1
           P == Bytes(k)
<1>1. MovingDown /\ r2 >= 1
  BY DEF Here, Bytewise_reverse, Up, Down, Fill
<1>2. r0 \in Nat /\ r1 \in Nat /\ r2 \in Nat /\ r12 \in Nat
      /\ r2 <= r0 /\ r2 <= r1
  BY <1>1, NatRegisters, RequestFacts DEF MovingDown
<1>3. k \in 0 .. r2 /\ k \in Nat /\ k = 1 /\ r0 - k \in Nat /\ r1 - k \in Nat
  BY <1>1, <1>2
<1> HIDE DEF k
<1>4. Whole(k, P) /\ Aligned(r0 - k, P) /\ Aligned(r1 - k, P)
  BY <1>2, <1>3, Pieces
<1>5. Backward(k, P) /\ r12' = r12 /\ pc' = IF r2 > 1 THEN "Lbytewise_reverse" ELSE "Lexit"
  BY <1>1 DEF Bytewise_reverse, k
<1>6. /\ MovingDown' /\ AccessesSound' /\ r12' \in Nat
      /\ r0' = r0 - k /\ r1' = r1 - k /\ r2' = r2 - k
      /\ r2' = 0 /\ pc' = "Lexit" => Moved'
  BY <1>1, <1>2, <1>3, <1>4, <1>5, BackwardStep
<1>7. IF r2 > 1 THEN r2' >= 1 ELSE r2' = 0
  BY <1>1, <1>2, <1>3, <1>5, <1>6
<1>8. call' \in Requests
  BY <1>6 DEF MovingDown, Registers
<1> QED
  BY <1>1, <1>2, <1>5, <1>6, <1>7, <1>8 DEF Here, Down

LEMMA Unaligned_reverseStep ==
  ASSUME Here, Unaligned_reverse
  PROVE  Here' /\ AccessesSound'
<1> DEFINE k == r0 % 16
           j == k % 8
           P == FromTop(j)
<1>1. MovingDown /\ Similar /\ r2 >= 64
  BY DEF Here, Unaligned_reverse, Up, Down, Fill
<1>2. /\ r0 \in Nat /\ r1 \in Nat /\ r2 \in Nat /\ r12 \in Nat /\ r0 % 4 = r1 % 4
      /\ r2 <= r0 /\ r2 <= r1
  BY <1>1, NatRegisters, RequestFacts DEF MovingDown, Similar
<1>3. /\ k \in 0 .. 15 /\ j \in 0 .. 7 /\ k - j \in {0, 8}
      /\ r0 - j \in Nat /\ r1 - j \in Nat
      /\ ((r0 - j) - (k - j)) % 16 = 0 /\ (r0 - j) % 4 = 0 /\ (r1 - j) % 4 = 0
  BY <1>1, <1>2
<1>4. /\ Backward(j, P) /\ r12' = k - j
      /\ pc' = "Lunaligned_reverse_8"
  BY DEF Unaligned_reverse
<1> HIDE DEF k, j
<1>5. Whole(j, P) /\ Aligned(r0 - j, P) /\ Aligned(r1 - j, P)
  BY <1>2, <1>3, Pieces
<1> HIDE DEF P
<1>6. /\ MovingDown' /\ AccessesSound'
      /\ r0' = r0 - j /\ r1' = r1 - j /\ r2' = r2 - j
  BY <1>1, <1>2, <1>3, <1>4, <1>5, BackwardStep
<1>7. /\ r0' % 4 = r1' % 4 /\ r2' >= 57 /\ r12' <= r0'
      /\ r12' \in {0, 8} /\ (r0' - r12') % 16 = 0
  BY <1>1, <1>2, <1>3, <1>4, <1>6
<1> QED
  BY <1>4, <1>6, <1>7 DEF Here, Down, Similar

LEMMA BzeroStep ==
  ASSUME Here, Bzero
  PROVE  Here' /\ AccessesSound'
<1>1. Filling /\ r2 = L
  BY DEF Here, Bzero, Up, Down, Fill
<1>2. /\ r0 \in Nat /\ r2 \in Nat /\ call.fill /\ call \in Requests
      /\ mem = Filled(L - r2)
  BY <1>1, NatRegisters DEF Filling
<1>3. /\ UNCHANGED <<call, mem, r0, r1, r2, r12>> /\ loads' = {} /\ stores' = {}
      /\ pc' = IF r2 = 0 THEN "Lexit"
                ELSE IF r2 < 32 THEN "L_bytewise"
                ELSE IF r0 % 32 # 0 THEN "L_unaligned"
                ELSE IF r2 >= 64 THEN "L_64loop" ELSE "L_lessthan64aligned"
  BY DEF Bzero, Branch
<1>4. Filling'
  BY <1>1, <1>3 DEF Filling, Registers, Filled, D, S, L
<1>5. AccessesSound'
  BY <1>3, NoAccess
<1>6. CASE r2 = 0
  <2>1. L - r2 = L /\ pc' = "Lexit"
    BY <1>1, <1>3, <1>6
  <2> QED
    BY <1>2, <1>3, <1>5, <2>1, Done DEF Here
<1>7. CASE r2 # 0 /\ r2 < 32
  BY <1>2, <1>3, <1>4, <1>5, <1>7 DEF Here, Fill
<1>8. CASE r2 >= 32 /\ r0 % 32 # 0
  BY <1>2, <1>3, <1>4, <1>5, <1>8 DEF Here, Fill
<1>9. CASE r2 >= 32 /\ r0 % 32 = 0
  <2>1. r0 % 4 = 0
    BY <1>2, <1>9
  <2> QED
    BY <1>2, <1>3, <1>4, <1>5, <1>9, <2>1 DEF Here, Fill
<1> QED
  BY <1>2, <1>6, <1>7, <1>8, <1>9

LEMMA BzeroUnalignedStep ==
  ASSUME Here, BzeroUnaligned
  PROVE  Here' /\ AccessesSound'
<1> DEFINE k == (16 - (r0 % 16)) % 16
           P == Rising(k)
<1>1. Filling /\ r2 >= 32
  BY DEF Here, BzeroUnaligned, Up, Down, Fill
<1>2. r0 \in Nat /\ r1 \in Nat /\ r2 \in Nat /\ r12 \in Nat
  BY <1>1, NatRegisters DEF Filling
<1>3. k \in 0 .. r2 /\ k \in 0 .. 15 /\ (r0 + k) % 4 = 0 /\ (r0 + k) % 16 = 0
  BY <1>1, <1>2
<1> HIDE DEF k
<1>4. Whole(k, P) /\ Aligned(r0, P)
  BY <1>2, <1>3, Pieces
<1>5. Store(k, P) /\ pc' = IF r2' = 0 THEN "Lexit" ELSE "L_unaligned_32"
  BY <1>1 DEF BzeroUnaligned, k
<1>6. /\ Filling' /\ AccessesSound'
      /\ r0' = r0 + k /\ r2' = r2 - k
      /\ r2' = 0 /\ pc' = "Lexit" => Moved'
  BY <1>1, <1>2, <1>3, <1>4, <1>5, StoreStep
<1>7. r2' >= 16 /\ r0' % 16 = 0
  BY <1>1, <1>2, <1>3, <1>5, <1>6
<1>8. call' \in Requests
  BY <1>6 DEF Filling, Registers
<1> QED
  BY <1>1, <1>2, <1>5, <1>6, <1>7, <1>8 DEF Here, Fill

LEMMA BzeroUnaligned_32Step ==
  ASSUME Here, BzeroUnaligned_32
  PROVE  Here' /\ AccessesSound'
<1> DEFINE k == r0 % 32
           P == Words(k)
<1>1. Filling /\ r2 >= 16 /\ r0 % 16 = 0
  BY DEF Here, BzeroUnaligned_32, Up, Down, Fill
<1>2. r0 \in Nat /\ r1 \in Nat /\ r2 \in Nat /\ r12 \in Nat
  BY <1>1, NatRegisters DEF Filling
<1>3. k \in 0 .. r2 /\ k \in Nat /\ k % 4 = 0 /\ r0 % 4 = 0 /\ (r0 + k) % 4 = 0
  BY <1>1, <1>2
<1> HIDE DEF k
<1>4. Whole(k, P) /\ Aligned(r0, P)
  BY <1>2, <1>3, Pieces
<1>5. Store(k, P) /\ pc' = IF r2' >= 64 THEN "L_64loop" ELSE "L_lessthan64aligned"
  BY <1>1 DEF BzeroUnaligned_32, k
<1>6. /\ Filling' /\ AccessesSound'
      /\ r0' = r0 + k /\ r2' = r2 - k
      /\ r2' = 0 /\ pc' = "Lexit" => Moved'
  BY <1>1, <1>2, <1>3, <1>4, <1>5, StoreStep
<1>7. r0' % 4 = 0
  BY <1>1, <1>2, <1>3, <1>5, <1>6
<1>8. call' \in Requests
  BY <1>6 DEF Filling, Registers
<1> QED
  BY <1>1, <1>2, <1>5, <1>6, <1>7, <1>8 DEF Here, Fill

LEMMA Bzero64loopStep ==
  ASSUME Here, Bzero64loop
  PROVE  Here' /\ AccessesSound'
<1> DEFINE k == 64
           P == Words(k)
<1>1. Filling /\ r2 >= 64 /\ r0 % 4 = 0
  BY DEF Here, Bzero64loop, Up, Down, Fill
<1>2. r0 \in Nat /\ r1 \in Nat /\ r2 \in Nat /\ r12 \in Nat
  BY <1>1, NatRegisters DEF Filling
<1>3. k \in 0 .. r2 /\ k = 64 /\ k \in Nat /\ k % 4 = 0
  BY <1>1, <1>2
<1> HIDE DEF k
<1>4. Whole(k, P) /\ Aligned(r0, P)
  BY <1>1, <1>2, <1>3, Pieces
<1>5. Store(k, P) /\ pc' = IF r2' >= 64 THEN "L_64loop" ELSE IF r2' = 0 THEN "Lexit" ELSE "L_lessthan64aligned"
  BY <1>1 DEF Bzero64loop, k
<1>6. /\ Filling' /\ AccessesSound'
      /\ r0' = r0 + k /\ r2' = r2 - k
      /\ r2' = 0 /\ pc' = "Lexit" => Moved'
  BY <1>1, <1>2, <1>3, <1>4, <1>5, StoreStep
<1>7. r0' % 4 = 0
  BY <1>1, <1>2, <1>3, <1>5, <1>6
<1>8. call' \in Requests
  BY <1>6 DEF Filling, Registers
<1> QED
  BY <1>1, <1>2, <1>5, <1>6, <1>7, <1>8 DEF Here, Fill

LEMMA BzeroBytewiseStep ==
  ASSUME Here, BzeroBytewise
  PROVE  Here' /\ AccessesSound'
<1> DEFINE k == IF r2 >= 2 THEN 2 ELSE 1
           P == Bytes(k)
<1>1. Filling /\ r2 >= 1
  BY DEF Here, BzeroBytewise, Up, Down, Fill
<1>2. r0 \in Nat /\ r1 \in Nat /\ r2 \in Nat /\ r12 \in Nat
  BY <1>1, NatRegisters DEF Filling
<1>3. k \in 0 .. r2 /\ k \in Nat /\ (r2 >= 2 => k = 2) /\ (r2 < 2 => k = 1)
  BY <1>1, <1>2
<1> HIDE DEF k
<1>4. Whole(k, P) /\ Aligned(r0, P)
  BY <1>2, <1>3, Pieces
<1>5. Store(k, P) /\ pc' = IF r2 > 2 THEN "L_bytewise" ELSE "Lexit"
  BY <1>1 DEF BzeroBytewise, k
<1>6. /\ Filling' /\ AccessesSound'
      /\ r0' = r0 + k /\ r2' = r2 - k
      /\ r2' = 0 /\ pc' = "Lexit" => Moved'
  BY <1>1, <1>2, <1>3, <1>4, <1>5, StoreStep
<1>7. IF r2 > 2 THEN r2' >= 1 ELSE r2' = 0
  BY <1>1, <1>2, <1>3, <1>5, <1>6
<1>8. call' \in Requests
  BY <1>6 DEF Filling, Registers
<1> QED
  BY <1>1, <1>2, <1>5, <1>6, <1>7, <1>8 DEF Here, Fill

LEMMA BzeroLessthan64Step ==
  ASSUME Here, BzeroLessthan64
  PROVE  Here' /\ AccessesSound'
<1> DEFINE k == IF r2 >= 16 THEN 16 ELSE r2
           P == IF r2 >= 16 THEN Words(k) ELSE Falling(k)
<1>1. Filling /\ r0 % 4 = 0
  BY DEF Here, BzeroLessthan64, Up, Down, Fill
<1>2. r0 \in Nat /\ r1 \in Nat /\ r2 \in Nat /\ r12 \in Nat
  BY <1>1, NatRegisters DEF Filling
<1>3. /\ k \in 0 .. r2 /\ k \in Nat /\ k \in 0 .. 16
      /\ r2 >= 16 => k % 4 = 0 /\ k = 16
      /\ r2 < 16 => k \in 0 .. 15 /\ k = r2
  BY <1>1, <1>2
<1>4. /\ Store(k, P)
      /\ \/ pc' = "Lexit" /\ (r2' = 0 \/ r2 < 16)
         \/ pc' = "L_lessthan64aligned" /\ r2 >= 16
  <2>1. CASE r2 >= 16
    BY <2>1 DEF BzeroLessthan64
  <2>2. CASE ~(r2 >= 16)
    BY <1>2, <2>2 DEF BzeroLessthan64
  <2> QED
    BY <2>1, <2>2
<1> HIDE DEF k
<1>5. Whole(k, P) /\ Aligned(r0, P)
  BY <1>1, <1>2, <1>3, Pieces
<1> HIDE DEF P
<1>6. /\ Filling' /\ AccessesSound'
      /\ r0' = r0 + k /\ r2' = r2 - k
      /\ r2' = 0 /\ pc' = "Lexit" => Moved'
  BY <1>1, <1>2, <1>3, <1>4, <1>5, StoreStep
<1>7. /\ r2 >= 16 => r0' % 4 = 0
      /\ r2 < 16 => r2' = 0
  BY <1>1, <1>2, <1>3, <1>6
<1>8. call' \in Requests
  BY <1>6 DEF Filling, Registers
<1> QED
  BY <1>2, <1>4, <1>6, <1>7, <1>8 DEF Here, Fill

-----------------------------------------------------------------------------

LEMMA InitHere == Init => MoveInv
<1> SUFFICES ASSUME Init PROVE MoveInv
  OBVIOUS
<1>1. /\ call \in Requests /\ mem = Before /\ loads = {} /\ stores = {}
      /\ r0 = D /\ r1 = S /\ r2 = L /\ r12 = 0
      /\ pc = IF call.fill THEN "bzero" ELSE "memmove"
  BY DEF Init, D, S, L
<1>2. /\ D \in Nat /\ S \in Nat /\ L \in Nat /\ call.fill \in BOOLEAN
  BY <1>1, RequestFacts
<1>3. Registers
  BY <1>1, <1>2 DEF Registers
<1>4. AccessesSound
  BY <1>1 DEF AccessesSound
<1>5. CASE call.fill
  <2>1. \A x \in Addr : ~(x \in D .. (D + 0 - 1))
    BY <1>2, <1>1, RequestFacts DEF Addr
  <2>2. Filled(0) = [x \in Addr |-> Before[x]]
    BY <2>1, Zenon DEF Filled
  <2>3. mem = Filled(0)
    BY <1>1, <2>2, RequestFacts
  <2>4. Filling
    BY <1>1, <1>2, <1>3, <1>5, <2>3 DEF Filling
  <2> QED
    BY <1>1, <1>4, <1>5, <2>4, Zenon DEF Here, Fill, MoveInv
<1>6. CASE ~call.fill
  BY <1>1, <1>3, <1>4, <1>6, Zenon DEF Here, MoveInv
<1> QED
  BY <1>5, <1>6

LEMMA NextHere == MoveInv /\ [Next]_vars => MoveInv'
<1> SUFFICES ASSUME MoveInv, [Next]_vars PROVE MoveInv'
  OBVIOUS
<1>1. Here /\ AccessesSound
  BY DEF MoveInv
<1>2. CASE Next
  <2>1. Here' /\ AccessesSound'
    BY <1>1, <1>2, MemmoveStep, SimilarlyunalignedStep,
       Similarlyunaligned_8Step, Unaligned_32Step, L64loopStep,
       Lessthan64_alignedStep, Bytewise2Step, BytewiseStep,
       WordalignloopStep, Align_forwardStep, Align_forward_loopStep,
       Align_forward_endStep, Overlap_srclowerStep, Unaligned_reverseStep,
       Unaligned_reverse_8Step, Unaligned_32_reverseStep,
       L64loop_reverseStep, Bytewise_reverseStep, BzeroStep,
       BzeroUnalignedStep, BzeroUnaligned_32Step, Bzero64loopStep,
       BzeroLessthan64Step, BzeroBytewiseStep, Zenon DEF Next
  <2> QED
    BY <2>1 DEF MoveInv
<1>3. CASE UNCHANGED vars
  <2>1. /\ pc' = pc /\ call' = call /\ mem' = mem /\ r0' = r0 /\ r1' = r1
        /\ r2' = r2 /\ r4' = r4 /\ r12' = r12 /\ loads' = loads
        /\ stores' = stores
    BY <1>3 DEF vars
  <2>2. D' = D /\ S' = S /\ L' = L
    BY <2>1 DEF D, S, L
  <2>3. AccessesSound'
    BY <1>1, <2>1 DEF AccessesSound
  <2>4. Here'
    <3>1. /\ MovingUp => MovingUp'
          /\ MovingDown => MovingDown'
          /\ Filling => Filling'
          /\ Similar <=> Similar'
          /\ Registers => Registers'
      BY <2>1 DEF MovingUp, MovingDown, Filling, Registers, Upwards, Copied,
         CopiedDown, Filled, D, S, L, Similar
    <3>2. Shifting => Shifting'
      <4>1. \A k : Copied(k)' = Copied(k)
        BY <2>1 DEF Copied, D, S
      <4>2. Registers' = Registers /\ Upwards' = Upwards
        BY <2>1 DEF Registers, Upwards, D, S, L
      <4> QED
        BY <2>1, <2>2, <4>1, <4>2 DEF Shifting
    <3>3. Moved => Moved'
      BY <2>1 DEF Moved
    <3> QED
      BY <1>1, <2>1, <2>2, <3>1, <3>2, <3>3 DEF Here, Up, Down, Fill
  <2> QED
    BY <2>3, <2>4 DEF MoveInv
<1> QED
  BY <1>2, <1>3

\* The routines do what Memory says: whatever the memory, the ranges and
\* the length, and however the ranges overlap, at Lexit the bytes asked for
\* are where they should be, and no other byte has changed.
THEOREM MovedCorrect == Spec => []Moved
<1>1. MoveInv => Moved
  <2> SUFFICES ASSUME MoveInv, pc = "Lexit" PROVE Moved
    BY DEF Moved
  <2> QED
    BY Zenon DEF MoveInv, Here, Up, Down, Fill
<1> QED
  BY <1>1, InitHere, NextHere, PTL DEF Spec

\* With the MMU off, no access of any path faults for its alignment, and
\* none leaves the words of the two ranges.
THEOREM AccessesSoundCorrect == Spec => []AccessesSound
<1>1. MoveInv => AccessesSound
  BY DEF MoveInv
<1> QED
  BY <1>1, InitHere, NextHere, PTL DEF Spec
=============================================================================
