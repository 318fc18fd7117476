----------------------------- MODULE TlsfProofs -----------------------------
(***************************************************************************)
(* The heap's three structures stay consistent with each other, whatever   *)
(* the size of the pool, the sizes of the matrix and the calls.            *)
(***************************************************************************)
EXTENDS Tlsf, Induction

-----------------------------------------------------------------------------
(* The inductive invariant, of an allocator t and what its client holds.   *)

Pool == [hdr : [Spots -> Block], matrix : [Class -> Pointer],
         sl : SUBSET Class, fl : SUBSET (0 .. (Levels - 1))]

HeadsOf(t) == {x \in Spots : t.hdr[x].size >= MinBlock} \cup {Last}
FreeOf(t)  == {x \in Spots : t.hdr[x].free}
UsedOf(t)  == {x \in HeadsOf(t) \ {Area, Last} : ~t.hdr[x].free}
ClassOf(t, b) == MappingInsert(t.hdr[b].size)

\* The first two headers and the sentinel.
Ends(t) ==
    /\ t.hdr[Area].size = AreaInfo /\ ~t.hdr[Area].free
    /\ ~t.hdr[Area].prevFree /\ t.hdr[Area].prev_hdr = NULL
    /\ t.hdr[First].size >= MinBlock /\ t.hdr[First].prev_hdr = NULL
    /\ t.hdr[Last].size = 0 /\ ~t.hdr[Last].free /\ t.hdr[Last].prev_hdr # NULL

NoTags(h) == h.size = 0 /\ ~h.free /\ ~h.prevFree /\ h.prev_hdr = NULL

\* Every other header is a block's, or none.
Plain(t) ==
    \A x \in Spots \ {Last} : NoTags(t.hdr[x]) \/ t.hdr[x].size >= MinBlock

Adjacent(t) ==
    \A b \in HeadsOf(t) \ {Last} :
        /\ NextBlock(t, b) \in HeadsOf(t)
        /\ \A c \in HeadsOf(t) : c <= b \/ c >= NextBlock(t, b)

\* The tags around block b.
Tagged(t, b) ==
    LET n == NextBlock(t, b) IN
    /\ t.hdr[n].prevFree = t.hdr[b].free
    /\ t.hdr[b].free => t.hdr[n].prev_hdr = b /\ ~t.hdr[n].free

\* The blocks tile the pool, and the tags of all but those of S are right.
SoundBut(t, S) ==
    /\ t \in Pool /\ Ends(t) /\ Plain(t) /\ Adjacent(t)
    /\ \A b \in HeadsOf(t) \ ({Last} \cup S) : Tagged(t, b)

Sound(t) == SoundBut(t, {})

\* The blocks of F, and no others, are in the lists of their classes.
Linked(t, F) ==
    \A b \in F :
        LET n == t.hdr[b].next
            p == t.hdr[b].prev
            c == ClassOf(t, b)
        IN  /\ c \in Class
            /\ n # NULL => n \in F /\ ClassOf(t, n) = c /\ t.hdr[n].prev = b
            /\ p # NULL => p \in F /\ ClassOf(t, p) = c /\ t.hdr[p].next = b
            /\ p = NULL => t.matrix[c] = b

Headed(t, F) ==
    \A c \in Class :
        t.matrix[c] # NULL => /\ t.matrix[c] \in F
                              /\ ClassOf(t, t.matrix[c]) = c
                              /\ t.hdr[t.matrix[c]].prev = NULL

Unlinked(t, F) ==
    \A x \in Spots \ F : t.hdr[x].prev = NULL /\ t.hdr[x].next = NULL

Mapped(t) == /\ t.sl = {c \in Class : t.matrix[c] # NULL}
             /\ t.fl = {c[1] : c \in t.sl}

\* Along a list some number grows, so that it cannot come round.
Ranked(t, F) ==
    \E rank \in [Spots -> Nat] :
        \A b \in F : t.hdr[b].next # NULL => rank[b] < rank[t.hdr[b].next]

Lists(t, F) == /\ t \in Pool /\ F \subseteq Spots
               /\ Linked(t, F) /\ Headed(t, F) /\ Unlinked(t, F) /\ Mapped(t)
               /\ Ranked(t, F)

\* The used blocks are the client's, each buffer's its own.
Held(t, p, a) ==
    /\ p \in [Buffers -> Pointer] /\ a \in [Buffers -> Nat]
    /\ UsedOf(t) = {p[b] - Overhead : b \in {d \in Buffers : p[d] # NULL}}
    /\ \A b \in Buffers : p[b] # NULL => t.hdr[p[b] - Overhead].size >= a[b]
    /\ \A b, d \in Buffers : p[b] # NULL /\ p[b] = p[d] => b = d

HeapInv == /\ Sound(tlsf)
           /\ Lists(tlsf, FreeOf(tlsf))
           /\ Held(tlsf, ptr, asked)

-----------------------------------------------------------------------------
(* Powers of two.                                                          *)

LEMMA Pow2Def ==
  \A k \in 0 .. 30 : Pow2[k] = IF k = 0 THEN 1 ELSE 2 * Pow2[k - 1]
<1> DEFINE Double == [k \in 1 .. 30 |-> [n \in Nat |-> 2 * n]]
           P(f) == f = [k \in 0 .. 30 |-> IF k = 0 THEN 1 ELSE 2 * f[k - 1]]
<1>1. Double \in [1 .. 30 -> [Nat -> Nat]]
  OBVIOUS
<1>2. PICK f \in [0 .. 30 -> Nat] : Follows(f, 1, Double, 30)
  <2> HIDE DEF Double
  <2> QED
    BY <1>1, Recursion
<1>3. f[0] = 1 /\ \A k \in 1 .. 30 : f[k] = Double[k][f[k - 1]]
  BY <1>2, Zenon DEF Follows
<1>4. \A k \in 0 .. 30 : f[k] = IF k = 0 THEN 1 ELSE 2 * f[k - 1]
  <2> SUFFICES ASSUME NEW k \in 0 .. 30, k # 0 PROVE f[k] = 2 * f[k - 1]
    BY <1>3
  <2>1. k \in 1 .. 30 /\ k - 1 \in 0 .. 30
    OBVIOUS
  <2>2. f[k] = Double[k][f[k - 1]] /\ f[k - 1] \in Nat
    BY <1>3, <2>1
  <2> QED
    BY <2>1, <2>2
<1>5. P(f)
  BY <1>4
<1>6. Pow2 = CHOOSE g : P(g)
  BY DEF Pow2
<1> HIDE DEF P
<1>7. P(Pow2)
  BY <1>5, <1>6
<1> USE DEF P
<1> QED
  BY <1>7

LEMMA Pow2Positive ==
  \A k \in 0 .. 30 : Pow2[k] \in Nat \ {0}
<1> DEFINE S == {k \in 0 .. 30 : Pow2[k] \in Nat \ {0}}
<1>1. 0 \in S
  BY Pow2Def
<1>2. ASSUME NEW k \in 0 .. 29, k \in S PROVE k + 1 \in S
  <2>1. k + 1 \in 0 .. 30 /\ k + 1 # 0 /\ (k + 1) - 1 = k
    OBVIOUS
  <2>2. Pow2[k + 1] = 2 * Pow2[k]
    BY <2>1, Pow2Def
  <2> QED
    BY <1>2, <2>1, <2>2
<1> HIDE DEF S
<1>3. \A k \in 0 .. 30 : k \in S
  BY <1>1, <1>2, BoundedInduction
<1> USE DEF S
<1> QED
  BY <1>3

LEMMA Pow2Next ==
  ASSUME NEW k \in 0 .. 29
  PROVE  Pow2[k + 1] = 2 * Pow2[k]
<1>1. k + 1 \in 0 .. 30 /\ k + 1 # 0 /\ (k + 1) - 1 = k
  OBVIOUS
<1> QED
  BY <1>1, Pow2Def

LEMMA Pow2Sum ==
  ASSUME NEW i \in 0 .. 30, NEW j \in 0 .. 30, i + j <= 30
  PROVE  Pow2[i + j] = Pow2[i] * Pow2[j]
<1> DEFINE S == {n \in 0 .. (30 - i) : Pow2[i + n] = Pow2[i] * Pow2[n]}
<1>1. 0 \in S
  BY Pow2Def, Pow2Positive
<1>2. ASSUME NEW n \in 0 .. ((30 - i) - 1), n \in S PROVE n + 1 \in S
  <2>1. /\ i + n \in 0 .. 29 /\ n \in 0 .. 29 /\ i + (n + 1) = (i + n) + 1
        /\ n + 1 \in 0 .. (30 - i)
    OBVIOUS
  <2>2. Pow2[i + (n + 1)] = 2 * Pow2[i + n] /\ Pow2[n + 1] = 2 * Pow2[n]
    BY <2>1, Pow2Next
  <2>3. Pow2[i] \in Nat /\ Pow2[n] \in Nat
    BY <2>1, Pow2Positive
  <2>4. \A x, y \in Nat : 2 * (x * y) = x * (2 * y)
    OBVIOUS
  <2>5. Pow2[i + n] = Pow2[i] * Pow2[n]
    BY <1>2
  <2>6. Pow2[i + (n + 1)] = Pow2[i] * Pow2[n + 1]
    BY <2>2, <2>3, <2>4, <2>5
  <2> QED
    BY <2>1, <2>6
<1>3. \A n \in 0 .. (30 - i) : n \in S
  <2> HIDE DEF S
  <2>1. 30 - i \in Nat
    OBVIOUS
  <2> QED
    BY <1>1, <1>2, <2>1, BoundedInduction
<1> QED
  BY <1>3

LEMMA Pow2Grows ==
  ASSUME NEW i \in 0 .. 30, NEW j \in 0 .. 30, i <= j
  PROVE  Pow2[i] <= Pow2[j]
<1>1. j - i \in 0 .. 30 /\ i + (j - i) = j
  OBVIOUS
<1>2. Pow2[j] = Pow2[i] * Pow2[j - i]
  BY <1>1, Pow2Sum
<1>3. Pow2[i] \in Nat /\ Pow2[j - i] \in Nat \ {0}
  BY <1>1, Pow2Positive
<1>4. \A x \in Nat, y \in Nat \ {0} : x <= x * y
  OBVIOUS
<1> QED
  BY <1>2, <1>3, <1>4

\* ms_bit finds the one bit it looks for.
LEMMA MsBitIs ==
  ASSUME NEW r \in Nat, NEW k \in 0 .. 29, Pow2[k] <= r, r < Pow2[k + 1]
  PROVE  MsBit(r) = k
<1>1. ASSUME NEW i \in 0 .. 29, Pow2[i] <= r, r < Pow2[i + 1] PROVE i = k
  <2>1. i + 1 \in 0 .. 30 /\ k + 1 \in 0 .. 30 /\ i \in 0 .. 30 /\ k \in 0 .. 30
    OBVIOUS
  <2>2. /\ Pow2[i] \in Nat /\ Pow2[k] \in Nat
        /\ Pow2[i + 1] \in Nat /\ Pow2[k + 1] \in Nat
    BY <2>1, Pow2Positive
  <2>3. CASE i + 1 <= k
    BY <1>1, <2>1, <2>2, <2>3, Pow2Grows
  <2>4. CASE k + 1 <= i
    BY <1>1, <2>1, <2>2, <2>4, Pow2Grows
  <2> QED
    BY <2>3, <2>4
<1> DEFINE P(i) == Pow2[i] <= r /\ r < Pow2[i + 1]
<1>2. MsBit(r) = CHOOSE i \in 0 .. 29 : P(i)
  BY DEF MsBit
<1>3. P(k) /\ \A i \in 0 .. 29 : P(i) => i = k
  BY <1>1
<1> HIDE DEF P
<1> QED
  BY <1>2, <1>3

LEMMA MsBitFound ==
  ASSUME NEW r \in Nat, 1 <= r, r < Pow2[30]
  PROVE  /\ MsBit(r) \in 0 .. 29
         /\ Pow2[MsBit(r)] <= r /\ r < Pow2[MsBit(r) + 1]
<1> DEFINE S == {k \in 0 .. 29 : Pow2[k] <= r}
<1>1. S \in SUBSET (0 .. 29) /\ 0 \in S
  BY Pow2Def
<1>2. PICK k \in S : \A n \in S : n <= k
  <2> HIDE DEF S
  <2> QED
    BY <1>1, Greatest
<1>3. r < Pow2[k + 1]
  <2>1. CASE k = 29
    BY <2>1
  <2>2. CASE k # 29
    <3>1. k + 1 \in 0 .. 29 /\ k + 1 \notin S
      BY <1>2, <2>2
    <3>2. Pow2[k + 1] \in Nat
      BY <3>1, Pow2Positive
    <3> QED
      BY <3>1, <3>2
  <2> QED
    BY <2>1, <2>2
<1> QED
  BY <1>2, <1>3, MsBitIs

-----------------------------------------------------------------------------
(* The size classes are intervals of sizes, and in the order of the sizes. *)

LEMMA Quotient ==
  ASSUME NEW p \in Nat \ {0}, NEW r \in Nat
  PROVE  /\ r \div p \in Nat
         /\ (r \div p) * p <= r /\ r < (r \div p) * p + p
  OBVIOUS

LEMMA Multiples ==
  ASSUME NEW p \in Nat \ {0}, NEW m \in Nat, NEW n \in Nat
  PROVE  /\ m <= n => m * p <= n * p
         /\ m < n => m * p + p <= n * p
         /\ m * p \in Nat /\ m <= m * p
<1>1. m * p \in Nat /\ m <= m * p /\ n * p \in Nat
  OBVIOUS
<1>2. ASSUME m <= n PROVE m * p <= n * p
  <2>1. n * p = m * p + (n - m) * p /\ (n - m) * p >= 0
    BY <1>2
  <2> QED
    BY <1>1, <2>1
<1>3. ASSUME m < n PROVE m * p + p <= n * p
  <2>1. (m + 1) * p = m * p + p
    OBVIOUS
  <2>2. n * p = (m + 1) * p + (n - (m + 1)) * p /\ (n - (m + 1)) * p >= 0
    BY <1>3
  <2> QED
    BY <1>1, <2>1, <2>2
<1> QED
  BY <1>1, <1>2, <1>3

LEMMA Parameters ==
  /\ Log2Sli \in 1 .. 29 /\ Levels \in Nat \ {0} /\ Levels - 1 + Log2Sli \in 1 .. 29
  /\ MaxSli \in Nat \ {0} /\ MaxSli >= 2 /\ MaxSli = Pow2[Log2Sli]
  /\ FirstSize \in Nat /\ FirstSize >= 2 /\ FirstSize < Pow2[Levels - 1 + Log2Sli]
  /\ Pow2[29] \in Nat /\ Pow2[30] = 2 * Pow2[29]
  /\ Requests \subseteq 0 .. (Pow2[29] - 2)
  /\ AreaSize \in Nat
<1>1. /\ Log2Sli \in Nat \ {0} /\ Levels \in Nat \ {0} /\ AreaSize \in Nat
      /\ Levels - 1 + Log2Sli <= 29 /\ MinBlock <= FirstSize
      /\ FirstSize < Pow2[Levels - 1 + Log2Sli]
      /\ Requests \subseteq 0 .. (Pow2[29] - 2)
  BY TlsfAssumption
<1>2. Log2Sli \in 1 .. 29 /\ Levels - 1 + Log2Sli \in 1 .. 29
  BY <1>1
<1>3. MaxSli \in Nat \ {0} /\ MaxSli >= 2 /\ MaxSli = Pow2[Log2Sli]
  <2>1. Pow2[1] = 2
    <3>1. Pow2[0] = 1 /\ 0 + 1 = 1
      BY Pow2Def
    <3>2. Pow2[0 + 1] = 2 * Pow2[0]
      BY Pow2Next
    <3> QED
      BY <3>1, <3>2
  <2>2. Pow2[1] <= Pow2[Log2Sli] /\ Pow2[Log2Sli] \in Nat \ {0}
    BY <1>2, Pow2Grows, Pow2Positive
  <2> QED
    BY <2>1, <2>2 DEF MaxSli
<1>4. Pow2[29] \in Nat /\ Pow2[30] = 2 * Pow2[29]
  <2>1. Pow2[29 + 1] = 2 * Pow2[29]
    BY Pow2Next
  <2> QED
    BY <2>1, Pow2Positive
<1>5. FirstSize \in Nat /\ FirstSize >= 2
  BY <1>1 DEF FirstSize, Align, Overhead, AreaInfo, MinBlock
<1> QED
  BY <1>1, <1>2, <1>3, <1>4, <1>5

\* The level and the list of a size that has its most significant bit at k.
LEMMA InsertHigh ==
  ASSUME NEW r \in Nat, NEW k \in Log2Sli .. 29, Pow2[k] <= r, r < Pow2[k + 1],
         NEW step, step = Pow2[k - Log2Sli]
  PROVE  /\ MappingInsert(r) = <<k - Log2Sli + 1, (r \div step) - MaxSli>>
         /\ step \in Nat \ {0} /\ Pow2[k] = MaxSli * step
         /\ Pow2[k + 1] = (2 * MaxSli) * step
         /\ MaxSli <= r \div step /\ r \div step < 2 * MaxSli
         /\ r >= MaxSli /\ r \div step \in Nat
<1>1. k \in 0 .. 29 /\ k \in 0 .. 30 /\ k - Log2Sli \in 0 .. 30
      /\ Log2Sli \in 0 .. 30 /\ Log2Sli + (k - Log2Sli) = k
  BY Parameters
<1>2. /\ step \in Nat \ {0} /\ Pow2[k] = MaxSli * step
      /\ MaxSli \in Nat \ {0}
  <2>1. Pow2[Log2Sli + (k - Log2Sli)] = Pow2[Log2Sli] * Pow2[k - Log2Sli]
    BY <1>1, Pow2Sum
  <2>2. step \in Nat \ {0}
    BY <1>1, Pow2Positive
  <2>3. MaxSli \in Nat \ {0} /\ MaxSli = Pow2[Log2Sli]
    BY Parameters
  <2> QED
    BY <1>1, <2>1, <2>2, <2>3
<1>3. Pow2[k + 1] = (2 * MaxSli) * step
  <2>1. Pow2[k + 1] = 2 * Pow2[k]
    BY <1>1, Pow2Next
  <2>2. \A x, y \in Nat : 2 * (x * y) = (2 * x) * y
    OBVIOUS
  <2> QED
    BY <1>2, <2>1, <2>2
<1>4. MsBit(r) = k
  BY <1>1, MsBitIs
<1>5. r >= MaxSli
  <2>1. MaxSli <= MaxSli * step /\ MaxSli * step \in Nat
    BY <1>2, Multiples
  <2> QED
    BY <1>2, <2>1
<1>6. MappingInsert(r) = <<k - Log2Sli + 1, (r \div step) - MaxSli>>
  BY <1>2, <1>4, <1>5 DEF MappingInsert
<1> DEFINE q == r \div step
<1>7. q \in Nat /\ q * step <= r /\ r < q * step + step
  BY <1>2, Quotient
<1> HIDE DEF q
<1>8. q >= MaxSli
  <2> SUFFICES ASSUME q < MaxSli PROVE FALSE
    BY <1>2, <1>7
  <2>1. q * step + step <= MaxSli * step /\ q * step \in Nat /\ MaxSli * step \in Nat
    BY <1>2, <1>7, Multiples
  <2> QED
    BY <1>2, <1>7, <2>1
<1>9. q < 2 * MaxSli
  <2> SUFFICES ASSUME 2 * MaxSli <= q PROVE FALSE
    BY <1>2, <1>7
  <2>1. 2 * MaxSli \in Nat
    BY <1>2
  <2>2. (2 * MaxSli) * step <= q * step /\ q * step \in Nat /\ (2 * MaxSli) * step \in Nat
    BY <1>2, <1>7, <2>1, Multiples
  <2> QED
    BY <1>2, <1>3, <1>7, <2>2
<1> QED
  BY <1>2, <1>3, <1>5, <1>6, <1>7, <1>8, <1>9 DEF q

LEMMA HighBit ==
  ASSUME NEW r \in Nat, MaxSli <= r, r < Pow2[30]
  PROVE  \E k \in Log2Sli .. 29 : /\ Pow2[k] <= r /\ r < Pow2[k + 1]
                                 /\ MsBit(r) = k
<1> DEFINE k == MsBit(r)
<1>1. k \in 0 .. 29 /\ Pow2[k] <= r /\ r < Pow2[k + 1]
  BY Parameters, MsBitFound
<1> HIDE DEF k
<1>2. k >= Log2Sli
  <2> SUFFICES ASSUME k + 1 <= Log2Sli PROVE FALSE
    BY <1>1, Parameters
  <2>1. k + 1 \in 0 .. 30 /\ Log2Sli \in 0 .. 30
    BY <1>1, Parameters
  <2>2. Pow2[k + 1] <= MaxSli /\ Pow2[k + 1] \in Nat
    BY <2>1, Pow2Grows, Pow2Positive, Parameters
  <2> QED
    BY <1>1, <2>2, Parameters
<1>3. k \in Log2Sli .. 29
  BY <1>1, <1>2, Parameters
<1> QED
  BY <1>1, <1>3 DEF k

\* Every block that fits into the pool has a list.
LEMMA ClassInMatrix ==
  ASSUME NEW r \in 0 .. FirstSize
  PROVE  MappingInsert(r) \in Class
<1>1. r \in Nat /\ r < Pow2[Levels - 1 + Log2Sli] /\ r < Pow2[30]
  <2>1. Levels - 1 + Log2Sli \in 0 .. 30
    BY Parameters
  <2>2. /\ Pow2[Levels - 1 + Log2Sli] <= Pow2[30]
        /\ Pow2[Levels - 1 + Log2Sli] \in Nat /\ Pow2[30] \in Nat
    BY <2>1, Pow2Grows, Pow2Positive
  <2> QED
    BY <2>2, Parameters
<1>2. CASE r < MaxSli
  <2>1. MappingInsert(r) = <<0, r>>
    BY <1>2 DEF MappingInsert
  <2> QED
    BY <1>1, <1>2, <2>1, Parameters DEF Class
<1>3. CASE ~(r < MaxSli)
  <2>1. PICK k \in Log2Sli .. 29 : Pow2[k] <= r /\ r < Pow2[k + 1]
    BY <1>1, <1>3, HighBit, Parameters
  <2>2. /\ MappingInsert(r) = <<k - Log2Sli + 1, (r \div Pow2[k - Log2Sli]) - MaxSli>>
        /\ MaxSli <= r \div Pow2[k - Log2Sli]
        /\ r \div Pow2[k - Log2Sli] < 2 * MaxSli
        /\ r \div Pow2[k - Log2Sli] \in Nat
    BY <1>1, <2>1, InsertHigh
  <2>3. k - Log2Sli + 1 <= Levels - 1
    <3> SUFFICES ASSUME Levels - 1 + Log2Sli <= k PROVE FALSE
      BY Parameters
    <3>1. Levels - 1 + Log2Sli \in 0 .. 30 /\ k \in 0 .. 30
      BY Parameters
    <3>2. /\ Pow2[Levels - 1 + Log2Sli] <= Pow2[k]
          /\ Pow2[Levels - 1 + Log2Sli] \in Nat /\ Pow2[k] \in Nat
      BY <3>1, Pow2Grows, Pow2Positive
    <3> QED
      BY <1>1, <2>1, <3>2
  <2>4. /\ k - Log2Sli + 1 \in 0 .. (Levels - 1)
        /\ (r \div Pow2[k - Log2Sli]) - MaxSli \in 0 .. (MaxSli - 1)
    BY <2>2, <2>3, Parameters
  <2> QED
    BY <2>2, <2>4 DEF Class
<1> QED
  BY <1>2, <1>3

\* Class c is at d or above it.
Reaches(c, d) == c[1] > d[1] \/ (c[1] = d[1] /\ c[2] >= d[2])

\* The sizes from the least of a class on are those of that class and of the
\* ones above it.
LEMMA ClassesInOrder ==
  ASSUME NEW k \in Log2Sli .. 29, NEW m \in Nat, MaxSli <= m, m < 2 * MaxSli,
         NEW z \in Nat, z < Pow2[30]
  PROVE  Reaches(MappingInsert(z), <<k - Log2Sli + 1, m - MaxSli>>)
            <=> z >= m * Pow2[k - Log2Sli]
<1> DEFINE step == Pow2[k - Log2Sli]
<1>1. /\ k \in 0 .. 29 /\ k \in 0 .. 30 /\ k - Log2Sli \in 0 .. 30
      /\ Log2Sli \in 0 .. 30 /\ Log2Sli + (k - Log2Sli) = k /\ k + 1 \in 0 .. 30
  BY Parameters
<1>2. /\ step \in Nat \ {0} /\ Pow2[k] = MaxSli * step
      /\ MaxSli \in Nat \ {0} /\ 2 * MaxSli \in Nat
  <2>1. Pow2[Log2Sli + (k - Log2Sli)] = Pow2[Log2Sli] * Pow2[k - Log2Sli]
    BY <1>1, Pow2Sum
  <2>2. step \in Nat \ {0}
    BY <1>1, Pow2Positive
  <2>3. MaxSli \in Nat \ {0} /\ MaxSli = Pow2[Log2Sli]
    BY Parameters
  <2> QED
    BY <1>1, <2>1, <2>2, <2>3
<1>3. Pow2[k + 1] = (2 * MaxSli) * step
  <2>1. Pow2[k + 1] = 2 * Pow2[k]
    BY <1>1, Pow2Next
  <2>2. \A x, y \in Nat : 2 * (x * y) = (2 * x) * y
    OBVIOUS
  <2> QED
    BY <1>2, <2>1, <2>2
<1>4. /\ Pow2[k] <= m * step /\ m * step < Pow2[k + 1]
      /\ m * step \in Nat /\ m <= m * step
      /\ Pow2[k] \in Nat /\ Pow2[k + 1] \in Nat
  <2>1. /\ MaxSli * step <= m * step /\ m * step + step <= (2 * MaxSli) * step
        /\ m * step \in Nat /\ m <= m * step
    BY <1>2, Multiples
  <2> QED
    BY <1>1, <1>2, <1>3, <2>1, Pow2Positive
<1> HIDE DEF step
<1>5. CASE z < MaxSli
  <2>1. MappingInsert(z) = <<0, z>>
    BY <1>5 DEF MappingInsert
  <2>2. z < m * step
    BY <1>2, <1>4, <1>5
  <2>3. ~Reaches(MappingInsert(z), <<k - Log2Sli + 1, m - MaxSli>>)
    BY <1>1, <2>1, Parameters DEF Reaches
  <2> QED
    BY <1>4, <2>2, <2>3 DEF step
<1>6. CASE ~(z < MaxSli)
  <2>1. PICK j \in Log2Sli .. 29 : Pow2[j] <= z /\ z < Pow2[j + 1]
    BY <1>2, <1>6, HighBit
  <2>2. MappingInsert(z) = <<j - Log2Sli + 1, (z \div Pow2[j - Log2Sli]) - MaxSli>>
    BY <2>1, InsertHigh
  <2>3. j \in 0 .. 30 /\ j + 1 \in 0 .. 30
    BY Parameters
  <2>4. Pow2[j] \in Nat /\ Pow2[j + 1] \in Nat
    BY <2>3, Pow2Positive
  <2>5. CASE j + 1 <= k
    <3>1. Pow2[j + 1] <= Pow2[k]
      BY <1>1, <2>3, <2>5, Pow2Grows
    <3>2. z < m * step
      BY <1>4, <2>1, <2>4, <3>1
    <3>3. ~Reaches(MappingInsert(z), <<k - Log2Sli + 1, m - MaxSli>>)
      BY <2>2, <2>3, <2>5, Parameters DEF Reaches
    <3> QED
      BY <1>4, <3>2, <3>3 DEF step
  <2>6. CASE k + 1 <= j
    <3>1. Pow2[k + 1] <= Pow2[j]
      BY <1>1, <2>3, <2>6, Pow2Grows
    <3>2. z >= m * step
      BY <1>4, <2>1, <2>4, <3>1
    <3>3. Reaches(MappingInsert(z), <<k - Log2Sli + 1, m - MaxSli>>)
      BY <2>2, <2>3, <2>6, Parameters DEF Reaches
    <3> QED
      BY <1>4, <3>2, <3>3 DEF step
  <2>7. CASE j = k
    <3> DEFINE q == z \div step
    <3>1. q \in Nat /\ q * step <= z /\ z < q * step + step
      BY <1>2, Quotient
    <3>2. MappingInsert(z) = <<k - Log2Sli + 1, q - MaxSli>>
      BY <2>2, <2>7 DEF step
    <3> HIDE DEF q
    <3>3. m <= q <=> z >= m * step
      <4>1. CASE m <= q
        BY <1>2, <1>4, <3>1, <4>1, Multiples
      <4>2. CASE q < m
        <5>1. q * step + step <= m * step
          BY <1>2, <3>1, <4>2, Multiples
        <5>2. q * step \in Nat
          BY <1>2, <3>1
        <5> QED
          BY <1>2, <1>4, <3>1, <4>2, <5>1, <5>2
      <4> QED
        BY <3>1, <4>1, <4>2
    <3>4. Reaches(MappingInsert(z), <<k - Log2Sli + 1, m - MaxSli>>) <=> m <= q
      BY <1>1, <1>2, <3>1, <3>2, Parameters DEF Reaches
    <3> QED
      BY <3>3, <3>4 DEF step
  <2> QED
    BY <1>1, <2>3, <2>5, <2>6, <2>7
<1> QED
  BY <1>5, <1>6

\* MAPPING_SEARCH raises a request to a size that bounds the blocks of the
\* class it names, and of those above, from below, and all others from above.
LEMMA Search ==
  ASSUME NEW r \in 1 .. Pow2[29]
  PROVE  LET s == MappingSearch(r) IN
         /\ s.size \in Nat /\ s.size >= r /\ s.class \in Nat \X Nat
         /\ \A z \in Nat : z < Pow2[30] =>
               (Reaches(MappingInsert(z), s.class) <=> z >= s.size)
<1>1. r \in Nat /\ r >= 1 /\ r < Pow2[30]
  BY Parameters
<1>2. CASE r < MaxSli
  <2>1. MappingSearch(r) = [size |-> r, class |-> <<0, r>>]
    BY <1>2 DEF MappingSearch
  <2>2. ASSUME NEW z \in Nat, z < Pow2[30]
        PROVE  Reaches(MappingInsert(z), <<0, r>>) <=> z >= r
    <3>1. CASE z < MaxSli
      <4>1. MappingInsert(z) = <<0, z>>
        BY <3>1 DEF MappingInsert
      <4> QED
        BY <4>1 DEF Reaches
    <3>2. CASE ~(z < MaxSli)
      <4>1. PICK j \in Log2Sli .. 29 : Pow2[j] <= z /\ z < Pow2[j + 1]
        BY <2>2, <3>2, HighBit, Parameters
      <4>2. MappingInsert(z) = <<j - Log2Sli + 1, (z \div Pow2[j - Log2Sli]) - MaxSli>>
        BY <4>1, InsertHigh
      <4>3. j - Log2Sli + 1 > 0
        BY Parameters
      <4> QED
        BY <1>1, <1>2, <3>2, <4>2, <4>3, Parameters DEF Reaches
    <3> QED
      BY <3>1, <3>2
  <2> QED
    BY <1>1, <2>1, <2>2
<1>3. CASE ~(r < MaxSli)
  <2>1. PICK k \in Log2Sli .. 29 : /\ Pow2[k] <= r /\ r < Pow2[k + 1]
                                 /\ MsBit(r) = k
    BY <1>1, <1>3, HighBit, Parameters
  <2> DEFINE step == Pow2[k - Log2Sli]
             R == r + step - 1
             q == R \div step
  <2>2. MappingSearch(r) = [size |-> q * step, class |-> MappingInsert(R)]
    BY <1>3, <2>1 DEF MappingSearch
  <2>3. /\ step \in Nat \ {0} /\ Pow2[k] = MaxSli * step
        /\ Pow2[k + 1] = (2 * MaxSli) * step
    BY <1>1, <2>1, InsertHigh
  <2>4. /\ k \in 0 .. 29 /\ k \in 0 .. 30 /\ k + 1 \in 0 .. 30
        /\ Pow2[k] \in Nat /\ Pow2[k + 1] \in Nat
    <3>1. k \in 0 .. 30 /\ k + 1 \in 0 .. 30
      BY Parameters
    <3> QED
      BY <3>1, Pow2Positive, Parameters
  \* The step is at most half of the least power above r.
  <2>5. step + step <= Pow2[k]
    <3>1. MaxSli \in Nat /\ 2 <= MaxSli
      BY Parameters
    <3>2. 2 * step <= MaxSli * step
      BY <2>3, <3>1, Multiples
    <3> QED
      BY <2>3, <3>2
  <2> HIDE DEF step
  <2>6. R \in Nat /\ r <= R /\ R < r + step /\ R < Pow2[30]
    BY <1>1, <2>1, <2>3, <2>4, <2>5, Parameters
  <2>7. q \in Nat /\ q * step <= R /\ R < q * step + step
    BY <2>3, <2>6, Quotient
  <2>8. q * step >= r /\ q * step \in Nat
    <3>1. q * step \in Nat
      BY <2>3, <2>7
    <3> QED
      BY <1>1, <2>3, <2>6, <2>7, <3>1
  <2> HIDE DEF R
  <2>9. CASE R < Pow2[k + 1]
    <3>1. /\ MappingInsert(R) = <<k - Log2Sli + 1, q - MaxSli>>
          /\ MaxSli <= q /\ q < 2 * MaxSli
      BY <1>1, <2>1, <2>4, <2>6, <2>9, InsertHigh DEF step
    <3>2. \A z \in Nat : z < Pow2[30] =>
             (Reaches(MappingInsert(z), MappingInsert(R)) <=> z >= q * step)
      <4> HIDE DEF q
      <4> QED
        BY <2>7, <3>1, ClassesInOrder DEF step
    <3>3. MappingInsert(R) \in Nat \X Nat
      BY <2>7, <3>1, Parameters
    <3> QED
      BY <2>2, <2>8, <3>2, <3>3
  <2>10. CASE ~(R < Pow2[k + 1])
    <3>1. k + 1 <= 29
      <4> SUFFICES ASSUME k = 29 PROVE FALSE
        BY <2>4
      <4> QED
        BY <2>6, <2>10
    <3>2. k + 1 \in Log2Sli .. 29 /\ k + 1 \in 0 .. 29
      BY <2>4, <3>1, Parameters
    <3>3. R < Pow2[(k + 1) + 1]
      <4>1. Pow2[(k + 1) + 1] = 2 * Pow2[k + 1]
        BY <3>2, Pow2Next
      <4>2. Pow2[k + 1] = 2 * Pow2[k]
        BY <2>4, Pow2Next
      <4> QED
        BY <1>1, <2>1, <2>3, <2>4, <2>5, <2>6, <4>1, <4>2
    <3> DEFINE wide == Pow2[(k + 1) - Log2Sli]
               p == R \div wide
    <3>4. /\ MappingInsert(R) = <<(k + 1) - Log2Sli + 1, p - MaxSli>>
          /\ wide \in Nat \ {0} /\ Pow2[k + 1] = MaxSli * wide
          /\ MaxSli <= p /\ p \in Nat
      BY <2>6, <2>10, <2>4, <3>2, <3>3, InsertHigh
    <3>5. wide = 2 * step
      <4>1. k - Log2Sli \in 0 .. 29 /\ (k + 1) - Log2Sli = (k - Log2Sli) + 1
        BY <2>4, Parameters
      <4>2. Pow2[(k - Log2Sli) + 1] = 2 * Pow2[k - Log2Sli]
        BY <4>1, Pow2Next
      <4> QED
        BY <4>1, <4>2 DEF step
    <3>6. p * wide <= R /\ R < p * wide + wide
      BY <2>6, <3>4, Quotient
    <3> HIDE DEF wide, p
    \* Less than a step above a power of two, the list is the level's first.
    <3>7. R < Pow2[k + 1] + step
      BY <1>1, <2>1, <2>3, <2>4, <2>6
    <3>8. p = MaxSli
      <4> SUFFICES ASSUME MaxSli < p PROVE FALSE
        BY <3>4, Parameters
      <4>1. MaxSli * wide + wide <= p * wide /\ p * wide \in Nat
        BY <3>4, Multiples, Parameters
      <4> QED
        BY <2>3, <2>4, <2>6, <3>4, <3>5, <3>6, <3>7, <4>1
    <3>9. q * step = MaxSli * wide
      <4>1. q = 2 * MaxSli
        <5>1. 2 * MaxSli \in Nat
          BY Parameters
        <5>2. CASE q < 2 * MaxSli
          <6>1. q * step + step <= (2 * MaxSli) * step
            BY <2>3, <2>7, <5>1, <5>2, Multiples
          <6> QED
            BY <2>3, <2>4, <2>6, <2>7, <2>8, <2>10, <6>1
        <5>3. CASE 2 * MaxSli < q
          <6>1. (2 * MaxSli) * step + step <= q * step
            BY <2>3, <2>7, <5>1, <5>3, Multiples
          <6> QED
            BY <2>3, <2>4, <2>6, <2>7, <2>8, <3>7, <6>1
        <5> QED
          BY <2>7, <5>1, <5>2, <5>3
      <4> HIDE DEF q
      <4> QED
        BY <2>3, <3>4, <4>1
    <3>10. \A z \in Nat : z < Pow2[30] =>
              (Reaches(MappingInsert(z), MappingInsert(R)) <=> z >= q * step)
      <4>1. MaxSli < 2 * MaxSli /\ MaxSli \in Nat
        BY Parameters
      <4>2. \A z \in Nat : z < Pow2[30] =>
              (Reaches(MappingInsert(z), <<(k + 1) - Log2Sli + 1, MaxSli - MaxSli>>)
                 <=> z >= MaxSli * wide)
        BY <3>2, <4>1, ClassesInOrder DEF wide
      <4> QED
        BY <3>4, <3>8, <3>9, <4>2
    <3>11. MappingInsert(R) \in Nat \X Nat
      BY <2>4, <3>2, <3>4, Parameters
    <3> QED
      BY <2>2, <2>8, <3>10, <3>11
  <2> QED
    BY <2>9, <2>10
<1> QED
  BY <1>2, <1>3

-----------------------------------------------------------------------------
(* The lists.                                                              *)

LEMMA SpotsArePlaces ==
  /\ Spots \subseteq Nat /\ NULL \notin Spots /\ NULL = 0
  /\ Area \in Spots /\ First \in Spots /\ Last \in Spots
  /\ Area = 2 /\ First = 6 /\ Last = 8 + FirstSize
<1>1. Area = 2 /\ First = 6 /\ Last = 8 + FirstSize /\ NULL = 0
  BY Parameters DEF Area, First, Last, Overhead, AreaInfo, NULL
<1> QED
  BY <1>1, Parameters DEF Spots

\* Every block's tags are as they were.
SameTags(t, u) ==
    \A x \in Spots : /\ u.hdr[x].size = t.hdr[x].size
                     /\ u.hdr[x].free = t.hdr[x].free
                     /\ u.hdr[x].prevFree = t.hdr[x].prevFree
                     /\ u.hdr[x].prev_hdr = t.hdr[x].prev_hdr

LEMMA PoolFields ==
  ASSUME NEW t \in Pool
  PROVE  /\ t.hdr \in [Spots -> Block] /\ t.matrix \in [Class -> Pointer]
         /\ t.sl \in SUBSET Class /\ t.fl \in SUBSET (0 .. (Levels - 1))
         /\ t = [hdr |-> t.hdr, matrix |-> t.matrix, sl |-> t.sl, fl |-> t.fl]
  BY DEF Pool

LEMMA HeaderFields ==
  ASSUME NEW t \in Pool, NEW x \in Spots
  PROVE  /\ t.hdr[x] \in Block
         /\ t.hdr[x].size \in Nat /\ t.hdr[x].free \in BOOLEAN
         /\ t.hdr[x].prevFree \in BOOLEAN /\ t.hdr[x].prev_hdr \in Pointer
         /\ t.hdr[x].prev \in Pointer /\ t.hdr[x].next \in Pointer
  BY PoolFields DEF Block

\* What Extract does to each field.
LEMMA ExtractEffect ==
  ASSUME NEW t \in Pool, NEW b \in Spots, ClassOf(t, b) \in Class
  PROVE  LET u == Extract(t, b)
             c == ClassOf(t, b)
             n == t.hdr[b].next
             p == t.hdr[b].prev
             head == t.matrix[c] = b
         IN  /\ u \in Pool /\ SameTags(t, u)
             /\ \A x \in Spots :
                   /\ u.hdr[x].next = IF x = b THEN NULL
                                      ELSE IF x # n /\ x = p THEN n
                                      ELSE t.hdr[x].next
                   /\ u.hdr[x].prev = IF x = b THEN NULL
                                      ELSE IF x = n THEN p
                                      ELSE t.hdr[x].prev
             /\ u.matrix = [t.matrix EXCEPT ![c] = IF head THEN n ELSE @]
             /\ u.sl = IF head /\ n = NULL THEN t.sl \ {c} ELSE t.sl
             /\ u.fl = IF /\ head /\ n = NULL
                         /\ ~\E d \in t.sl \ {c} : d[1] = c[1]
                       THEN t.fl \ {c[1]} ELSE t.fl
<1> DEFINE h == t.hdr[b]
           c == MappingInsert(h.size)
           head == t.matrix[c] = b
           new == [x \in Spots |->
                           IF x = b THEN [h EXCEPT !.prev = NULL,
                                                   !.next = NULL]
                           ELSE IF x = h.next
                                THEN [t.hdr[x] EXCEPT !.prev = h.prev]
                           ELSE IF x = h.prev
                                THEN [t.hdr[x] EXCEPT !.next = h.next]
                           ELSE t.hdr[x]]
           lists == [t.matrix EXCEPT ![c] = IF head THEN h.next ELSE @]
           u == [t EXCEPT !.matrix[c] = IF head THEN h.next ELSE @, !.hdr = new]
           left == t.sl \ {c}
           rows == IF \E d \in left : d[1] = c[1] THEN t.fl ELSE t.fl \ {c[1]}
<1>1. c = ClassOf(t, b) /\ c \in Class
  BY DEF ClassOf
<1>2. /\ h \in Block /\ h.prev \in Pointer /\ h.next \in Pointer
      /\ \A x \in Spots : t.hdr[x] \in Block
  BY HeaderFields
<1>3. new \in [Spots -> Block]
  <2>1. ASSUME NEW x \in Spots PROVE new[x] \in Block
    <3>1. NULL \in Pointer
      BY DEF Pointer
    <3>2. \A g \in Block, p \in Pointer, n \in Pointer :
             /\ [g EXCEPT !.prev = p] \in Block
             /\ [g EXCEPT !.next = n] \in Block
             /\ [g EXCEPT !.prev = p, !.next = n] \in Block
      BY DEF Block
    <3> QED
      BY <1>2, <3>1, <3>2
  <2> QED
    BY <2>1
<1>4. lists \in [Class -> Pointer]
  BY <1>1, <1>2, PoolFields
<1>5. /\ u \in Pool /\ u.hdr = new /\ u.matrix = lists
      /\ u.sl = t.sl /\ u.fl = t.fl
  <2>1. /\ u.hdr = new /\ u.matrix = lists
        /\ u.sl = t.sl /\ u.fl = t.fl
    <3> HIDE DEF new, head, c
    <3> QED
      BY DEF Pool
  <2>2. \A g \in [Spots -> Block], e \in Class, p \in Pointer :
           [t EXCEPT !.matrix[e] = p, !.hdr = g] \in Pool
    BY DEF Pool
  <2>3. (IF head THEN h.next ELSE t.matrix[c]) \in Pointer
    BY <1>1, <1>2, PoolFields
  <2> DEFINE first == IF head THEN h.next ELSE t.matrix[c]
  <2>4. u = [t EXCEPT !.matrix[c] = first, !.hdr = new]
    <3> HIDE DEF new
    <3> QED
      OBVIOUS
  <2> HIDE DEF new, head, c, first, u
  <2>5. u \in Pool
    BY <1>1, <1>3, <2>2, <2>3, <2>4 DEF first
  <2> QED
    BY <2>1, <2>5
<1>6. Extract(t, b) = IF head /\ h.next = NULL THEN ClearBits(u, c) ELSE u
  BY ZenonT(40) DEF Extract
<1> DEFINE v == ClearBits(u, c)
<1>7. v \in Pool /\ v.hdr = new /\ v.matrix = lists /\ v.sl = left /\ v.fl = rows
  <2>1. \A w \in Pool : \A e \in Class :
           LET z == ClearBits(w, e)
           IN  /\ z \in Pool /\ z.hdr = w.hdr /\ z.matrix = w.matrix
               /\ z.sl = w.sl \ {e}
               /\ z.fl = IF \E d \in w.sl \ {e} : d[1] = e[1]
                         THEN w.fl ELSE w.fl \ {e[1]}
    BY DEF ClearBits, Pool
  <2> HIDE DEF new, lists, c, u
  <2> QED
    BY <1>1, <1>5, <2>1
<1>8. LET w == Extract(t, b)
      IN  /\ w \in Pool /\ w.hdr = new /\ w.matrix = lists
          /\ w.sl = IF head /\ h.next = NULL THEN left ELSE t.sl
          /\ w.fl = IF head /\ h.next = NULL THEN rows ELSE t.fl
  <2> HIDE DEF new, lists, head, left, rows, u, v, h
  <2> QED
    BY <1>5, <1>6, <1>7 DEF v
<1>10. ASSUME NEW x \in Spots
       PROVE  /\ new[x].next = IF x = b THEN NULL
                               ELSE IF x # h.next /\ x = h.prev THEN h.next
                               ELSE t.hdr[x].next
              /\ new[x].prev = IF x = b THEN NULL
                               ELSE IF x = h.next THEN h.prev
                               ELSE t.hdr[x].prev
              /\ new[x].size = t.hdr[x].size
              /\ new[x].free = t.hdr[x].free
              /\ new[x].prevFree = t.hdr[x].prevFree
              /\ new[x].prev_hdr = t.hdr[x].prev_hdr
  BY <1>2 DEF Block
<1> HIDE DEF new
<1>11. SameTags(t, Extract(t, b))
  BY <1>8, <1>10 DEF SameTags
<1> QED
  BY <1>1, <1>8, <1>10, <1>11

LEMMA InsertEffect ==
  ASSUME NEW t \in Pool, NEW b \in Spots, ClassOf(t, b) \in Class
  PROVE  LET u == Insert(t, b)
             c == ClassOf(t, b)
             n == t.matrix[c]
         IN  /\ u \in Pool /\ SameTags(t, u) /\ n \in Pointer
             /\ \A x \in Spots :
                   /\ u.hdr[x].next = IF x = b THEN n ELSE t.hdr[x].next
                   /\ u.hdr[x].prev = IF x = b THEN NULL
                                      ELSE IF x = n THEN b ELSE t.hdr[x].prev
             /\ u.matrix = [t.matrix EXCEPT ![c] = b]
             /\ u.sl = t.sl \cup {c}
             /\ u.fl = t.fl \cup {c[1]}
<1> DEFINE c == MappingInsert(t.hdr[b].size)
           n == t.matrix[c]
           new == [x \in Spots |->
                        IF x = b THEN [t.hdr[x] EXCEPT !.prev = NULL, !.next = n]
                        ELSE IF x = n THEN [t.hdr[x] EXCEPT !.prev = b]
                        ELSE t.hdr[x]]
           lists == [t.matrix EXCEPT ![c] = b]
<1>1. c = ClassOf(t, b) /\ c \in Class
  BY DEF ClassOf
<1>2. n \in Pointer /\ b \in Pointer /\ NULL \in Pointer
  BY <1>1, PoolFields DEF Pointer
<1>3. \A x \in Spots : t.hdr[x] \in Block
  BY HeaderFields
<1> HIDE DEF n
<1>4. new \in [Spots -> Block]
  <2>1. ASSUME NEW x \in Spots PROVE new[x] \in Block
    <3>1. \A g \in Block, p \in Pointer, m \in Pointer :
             /\ [g EXCEPT !.prev = p] \in Block
             /\ [g EXCEPT !.prev = p, !.next = m] \in Block
      BY DEF Block
    <3> QED
      BY <1>2, <1>3, <3>1
  <2> QED
    BY <2>1
<1>5. Insert(t, b) = [hdr |-> new, matrix |-> lists,
                      sl |-> t.sl \cup {c}, fl |-> t.fl \cup {c[1]}]
  BY Zenon DEF Insert, n
<1>6. lists \in [Class -> Pointer]
  BY <1>1, <1>2, PoolFields
<1>7. c[1] \in 0 .. (Levels - 1)
  BY <1>1 DEF Class
<1>8. ASSUME NEW x \in Spots
      PROVE  /\ new[x].next = IF x = b THEN n ELSE t.hdr[x].next
             /\ new[x].prev = IF x = b THEN NULL
                              ELSE IF x = n THEN b ELSE t.hdr[x].prev
             /\ new[x].size = t.hdr[x].size
             /\ new[x].free = t.hdr[x].free
             /\ new[x].prevFree = t.hdr[x].prevFree
             /\ new[x].prev_hdr = t.hdr[x].prev_hdr
  BY <1>3 DEF Block
<1> HIDE DEF new, lists, c
<1>9. Insert(t, b) \in Pool
  BY <1>1, <1>4, <1>5, <1>6, <1>7, PoolFields DEF Pool
<1>10. SameTags(t, Insert(t, b))
  BY <1>5, <1>8 DEF SameTags
<1> QED
  BY <1>1, <1>2, <1>5, <1>8, <1>9, <1>10 DEF lists, n

\* Where the neighbours of b in its list are.
LEMMA Neighbours ==
  ASSUME NEW t, NEW F, Lists(t, F), NEW b \in F
  PROVE  LET n == t.hdr[b].next
             p == t.hdr[b].prev
         IN  /\ t \in Pool /\ b \in Spots /\ ClassOf(t, b) \in Class
             /\ n \in Pointer /\ p \in Pointer
             /\ n # b /\ p # b /\ (n # NULL => n # p)
             /\ n # NULL => /\ n \in F /\ n \in Spots /\ t.hdr[n].prev = b
                            /\ ClassOf(t, n) = ClassOf(t, b)
             /\ p # NULL => /\ p \in F /\ p \in Spots /\ t.hdr[p].next = b
                            /\ ClassOf(t, p) = ClassOf(t, b)
             /\ p = NULL => t.matrix[ClassOf(t, b)] = b
<1>1. t \in Pool /\ F \subseteq Spots /\ Linked(t, F) /\ Ranked(t, F)
  BY DEF Lists
<1>2. b \in Spots /\ t.hdr[b].next \in Pointer /\ t.hdr[b].prev \in Pointer
  BY <1>1, HeaderFields
<1> DEFINE n == t.hdr[b].next
           p == t.hdr[b].prev
           c == ClassOf(t, b)
<1>3. /\ c \in Class
      /\ n # NULL => n \in F /\ ClassOf(t, n) = c /\ t.hdr[n].prev = b
      /\ p # NULL => p \in F /\ ClassOf(t, p) = c /\ t.hdr[p].next = b
      /\ p = NULL => t.matrix[c] = b
  BY <1>1 DEF Linked
<1>4. PICK rank \in [Spots -> Nat] :
         \A x \in F : t.hdr[x].next # NULL => rank[x] < rank[t.hdr[x].next]
  BY <1>1 DEF Ranked
<1>5. b # NULL
  BY <1>2, SpotsArePlaces
<1>6. n # NULL => rank[b] < rank[n]
  BY <1>4
<1>7. p # NULL => rank[p] < rank[b]
  BY <1>3, <1>4, <1>5
<1>8. /\ rank[b] \in Nat
      /\ n # NULL => rank[n] \in Nat
      /\ p # NULL => rank[p] \in Nat
  BY <1>1, <1>2, <1>3, <1>4
<1> HIDE DEF n, p, c
<1>9. n # b /\ p # b /\ (n # NULL => n # p)
  BY <1>5, <1>6, <1>7, <1>8
<1> QED
  BY <1>1, <1>2, <1>3, <1>9 DEF n, p, c

\* A block that leaves its list leaves the other lists, and its own, intact.
LEMMA ExtractLists ==
  ASSUME NEW t, NEW F, Lists(t, F), NEW b \in F
  PROVE  Lists(Extract(t, b), F \ {b}) /\ SameTags(t, Extract(t, b))
<1> DEFINE u == Extract(t, b)
           c == ClassOf(t, b)
           n == t.hdr[b].next
           p == t.hdr[b].prev
           head == t.matrix[c] = b
           G == F \ {b}
<1>1. /\ t \in Pool /\ F \subseteq Spots /\ Linked(t, F) /\ Headed(t, F)
      /\ Unlinked(t, F) /\ Mapped(t) /\ Ranked(t, F)
  BY DEF Lists
<1>2. /\ b \in Spots /\ c \in Class /\ n \in Pointer /\ p \in Pointer
      /\ n # b /\ p # b /\ (n # NULL => n # p)
      /\ n # NULL => n \in F /\ n \in Spots /\ t.hdr[n].prev = b /\ ClassOf(t, n) = c
      /\ p # NULL => p \in F /\ p \in Spots /\ t.hdr[p].next = b /\ ClassOf(t, p) = c
      /\ p = NULL => head
  BY Neighbours
<1>3. NULL \notin Spots
  BY SpotsArePlaces
<1>4. /\ u \in Pool /\ SameTags(t, u)
      /\ \A x \in Spots :
            /\ u.hdr[x].next = IF x = b THEN NULL
                               ELSE IF x # n /\ x = p THEN n
                               ELSE t.hdr[x].next
            /\ u.hdr[x].prev = IF x = b THEN NULL
                               ELSE IF x = n THEN p
                               ELSE t.hdr[x].prev
      /\ u.matrix = [t.matrix EXCEPT ![c] = IF head THEN n ELSE @]
      /\ u.sl = IF head /\ n = NULL THEN t.sl \ {c} ELSE t.sl
      /\ u.fl = IF /\ head /\ n = NULL
                  /\ ~\E d \in t.sl \ {c} : d[1] = c[1]
                THEN t.fl \ {c[1]} ELSE t.fl
  <2>1. t \in Pool /\ b \in Spots /\ ClassOf(t, b) \in Class
    BY <1>1, <1>2
  <2> QED
    BY <2>1, ExtractEffect
<1>5. \A x \in Spots : ClassOf(u, x) = ClassOf(t, x)
  BY <1>4 DEF SameTags, ClassOf
<1>6. \A d \in Class : u.matrix[d] = IF d = c /\ head THEN n ELSE t.matrix[d]
  BY <1>1, <1>4, PoolFields
<1> HIDE DEF u, c, n, p, head
<1>7. Linked(u, G)
  <2> SUFFICES ASSUME NEW x \in G
               PROVE  /\ ClassOf(u, x) \in Class
                      /\ u.hdr[x].next # NULL =>
                            /\ u.hdr[x].next \in G
                            /\ ClassOf(u, u.hdr[x].next) = ClassOf(u, x)
                            /\ u.hdr[u.hdr[x].next].prev = x
                      /\ u.hdr[x].prev # NULL =>
                            /\ u.hdr[x].prev \in G
                            /\ ClassOf(u, u.hdr[x].prev) = ClassOf(u, x)
                            /\ u.hdr[u.hdr[x].prev].next = x
                      /\ u.hdr[x].prev = NULL => u.matrix[ClassOf(u, x)] = x
    BY DEF Linked
  <2> DEFINE m == t.hdr[x].next
             q == t.hdr[x].prev
             d == ClassOf(t, x)
  <2>1. x \in F /\ x \in Spots /\ x # b
    BY <1>1
  <2>2. /\ d \in Class
        /\ m # NULL => m \in F /\ m \in Spots /\ ClassOf(t, m) = d /\ t.hdr[m].prev = x
        /\ q # NULL => q \in F /\ q \in Spots /\ ClassOf(t, q) = d /\ t.hdr[q].next = x
        /\ q = NULL => t.matrix[d] = x
    BY <2>1, Neighbours
  <2>3. ClassOf(u, x) = d
    BY <1>5, <2>1
  <2> HIDE DEF m, q, d
  <2>4. u.hdr[x].next # NULL => /\ u.hdr[x].next \in G
                                /\ ClassOf(u, u.hdr[x].next) = d
                                /\ u.hdr[u.hdr[x].next].prev = x
    <3>1. CASE x = p
      <4>1. x # n /\ p # NULL
        BY <1>2, <1>3, <2>1, <3>1
      <4>2. u.hdr[x].next = n
        BY <1>4, <2>1, <3>1, <4>1
      <4>3. ASSUME n # NULL
            PROVE  n \in G /\ ClassOf(u, n) = d /\ u.hdr[n].prev = x
        BY <1>2, <1>4, <1>5, <3>1, <4>1, <4>3 DEF d
      <4> QED
        BY <4>2, <4>3
    <3>2. CASE x # p
      <4>1. u.hdr[x].next = m
        BY <1>4, <2>1, <3>2 DEF m
      <4>2. ASSUME m # NULL
            PROVE  m \in G /\ ClassOf(u, m) = d /\ u.hdr[m].prev = x
        <5>1. m # b
          BY <2>2, <3>2, <4>2 DEF p
        <5>2. m # n
          BY <1>2, <2>1, <2>2, <4>2
        <5> QED
          BY <1>4, <1>5, <2>2, <4>2, <5>1, <5>2
      <4> QED
        BY <4>1, <4>2
    <3> QED
      BY <3>1, <3>2
  <2>5. u.hdr[x].prev # NULL => /\ u.hdr[x].prev \in G
                                /\ ClassOf(u, u.hdr[x].prev) = d
                                /\ u.hdr[u.hdr[x].prev].next = x
    <3>1. CASE x = n
      <4>1. n # NULL
        BY <1>3, <2>1, <3>1
      <4>2. u.hdr[x].prev = p
        BY <1>4, <2>1, <3>1, <4>1
      <4>3. ASSUME p # NULL
            PROVE  p \in G /\ ClassOf(u, p) = d /\ u.hdr[p].next = x
        BY <1>2, <1>4, <1>5, <3>1, <4>1, <4>3 DEF d
      <4> QED
        BY <4>2, <4>3
    <3>2. CASE x # n
      <4>1. u.hdr[x].prev = q
        BY <1>4, <2>1, <3>2 DEF q
      <4>2. ASSUME q # NULL
            PROVE  q \in G /\ ClassOf(u, q) = d /\ u.hdr[q].next = x
        <5>1. q # b
          BY <2>2, <3>2, <4>2 DEF n
        <5>2. q # p
          BY <1>2, <2>1, <2>2, <4>2
        <5> QED
          BY <1>4, <1>5, <2>2, <4>2, <5>1, <5>2
      <4> QED
        BY <4>1, <4>2
    <3> QED
      BY <3>1, <3>2
  <2>6. ASSUME u.hdr[x].prev = NULL PROVE u.matrix[d] = x
    <3>1. CASE x = n
      <4>1. p = NULL /\ d = c
        BY <1>2, <1>3, <1>4, <2>1, <2>6, <3>1 DEF d
      <4> QED
        BY <1>2, <1>6, <3>1, <4>1
    <3>2. CASE x # n
      <4>1. q = NULL
        BY <1>4, <2>1, <2>6, <3>2 DEF q
      <4>2. d = c => ~head
        BY <2>1, <2>2, <4>1 DEF head
      <4> QED
        BY <1>6, <2>2, <4>1, <4>2
    <3> QED
      BY <3>1, <3>2
  <2> QED
    BY <2>2, <2>3, <2>4, <2>5, <2>6
<1>8. Headed(u, G)
  <2> SUFFICES ASSUME NEW d \in Class, u.matrix[d] # NULL
               PROVE  /\ u.matrix[d] \in G
                      /\ ClassOf(u, u.matrix[d]) = d
                      /\ u.hdr[u.matrix[d]].prev = NULL
    BY DEF Headed
  <2>1. CASE d = c /\ head
    <3>1. u.matrix[d] = n /\ n # NULL
      BY <1>6, <2>1
    <3>2. b # NULL
      BY <1>2, <1>3
    <3>3. p = NULL
      BY <1>1, <1>2, <2>1, <3>2, Zenon DEF Headed, head, p
    <3> QED
      BY <1>2, <1>4, <1>5, <2>1, <3>1, <3>3
  <2>2. CASE ~(d = c /\ head)
    <3> DEFINE y == t.matrix[d]
    <3>1. u.matrix[d] = y /\ y # NULL
      BY <1>6, <2>2
    <3>2. y \in F /\ ClassOf(t, y) = d /\ t.hdr[y].prev = NULL
      BY <1>1, <3>1 DEF Headed
    <3> HIDE DEF y
    <3>3. y # b
      BY <2>2, <3>2 DEF c, head, y
    <3>4. y \in Spots /\ y # n
      BY <1>1, <1>2, <1>3, <3>2
    <3> QED
      BY <1>4, <1>5, <3>1, <3>2, <3>3, <3>4
  <2> QED
    BY <2>1, <2>2
<1>9. Unlinked(u, G)
  <2> SUFFICES ASSUME NEW x \in Spots \ G
               PROVE  u.hdr[x].prev = NULL /\ u.hdr[x].next = NULL
    BY DEF Unlinked
  <2>1. CASE x = b
    BY <1>4, <2>1
  <2>2. CASE x # b
    <3>1. x \in Spots \ F /\ x # n /\ x # p
      BY <1>2, <1>3, <2>2
    <3>2. t.hdr[x].prev = NULL /\ t.hdr[x].next = NULL
      BY <1>1, <3>1 DEF Unlinked
    <3> QED
      BY <1>4, <2>2, <3>1, <3>2
  <2> QED
    BY <2>1, <2>2
<1>10. Mapped(u)
  <2>1. t.sl = {d \in Class : t.matrix[d] # NULL} /\ t.fl = {d[1] : d \in t.sl}
    BY <1>1 DEF Mapped
  <2>2. b # NULL
    BY <1>2, <1>3
  <2>3. u.sl = {d \in Class : u.matrix[d] # NULL}
    <3>1. ASSUME NEW d \in Class PROVE d \in u.sl <=> u.matrix[d] # NULL
      <4>1. CASE d = c
        BY <1>4, <1>6, <2>1, <2>2, <4>1 DEF head
      <4>2. CASE d # c
        BY <1>4, <1>6, <2>1, <4>2
      <4> QED
        BY <4>1, <4>2
    <3>2. u.sl \subseteq Class
      BY <1>4, PoolFields
    <3> QED
      BY <3>1, <3>2
  <2>4. u.fl = {d[1] : d \in u.sl}
    <3>1. CASE head /\ n = NULL
      <4>1. u.sl = t.sl \ {c}
        BY <1>4, <3>1
      <4>2. u.fl = IF \E d \in t.sl \ {c} : d[1] = c[1] THEN t.fl ELSE t.fl \ {c[1]}
        BY <1>4, <3>1
      <4>3. c \in t.sl
        BY <1>2, <2>1, <2>2, <3>1 DEF head
      <4> QED
        BY <2>1, <4>1, <4>2, <4>3
    <3>2. CASE ~(head /\ n = NULL)
      BY <1>4, <2>1, <3>2
    <3> QED
      BY <3>1, <3>2
  <2> QED
    BY <2>3, <2>4 DEF Mapped
<1>11. Ranked(u, G)
  <2>1. PICK rank \in [Spots -> Nat] :
           \A x \in F : t.hdr[x].next # NULL => rank[x] < rank[t.hdr[x].next]
    BY <1>1 DEF Ranked
  <2>2. ASSUME NEW x \in G, u.hdr[x].next # NULL
        PROVE  rank[x] < rank[u.hdr[x].next]
    <3>1. x \in F /\ x \in Spots /\ x # b
      BY <1>1
    <3>2. CASE x # n /\ x = p
      <4>1. u.hdr[x].next = n /\ n # NULL /\ p # NULL
        BY <1>2, <1>3, <1>4, <2>2, <3>1, <3>2
      <4>2. rank[b] < rank[n]
        BY <2>1, <4>1 DEF n
      <4>3. rank[p] < rank[b]
        BY <1>2, <1>3, <2>1, <4>1
      <4>4. rank[p] \in Nat /\ rank[b] \in Nat /\ rank[n] \in Nat
        BY <1>2, <4>1
      <4> QED
        BY <3>2, <4>1, <4>2, <4>3, <4>4
    <3>3. CASE ~(x # n /\ x = p)
      <4>1. u.hdr[x].next = t.hdr[x].next
        BY <1>4, <3>1, <3>3
      <4> QED
        BY <2>1, <2>2, <3>1, <4>1
    <3> QED
      BY <3>2, <3>3
  <2> QED
    BY <2>2 DEF Ranked
<1>12. G \subseteq Spots
  BY <1>1
<1>13. Lists(u, G)
  BY <1>4, <1>7, <1>8, <1>9, <1>10, <1>11, <1>12 DEF Lists
<1> QED
  BY <1>4, <1>13 DEF u

\* A block that becomes the head of the list of its class.
LEMMA InsertLists ==
  ASSUME NEW t, NEW F, Lists(t, F), NEW b \in Spots \ F, ClassOf(t, b) \in Class
  PROVE  Lists(Insert(t, b), F \cup {b}) /\ SameTags(t, Insert(t, b))
<1> DEFINE u == Insert(t, b)
           c == ClassOf(t, b)
           n == t.matrix[c]
           G == F \cup {b}
<1>1. /\ t \in Pool /\ F \subseteq Spots /\ Linked(t, F) /\ Headed(t, F)
      /\ Unlinked(t, F) /\ Mapped(t) /\ Ranked(t, F)
  BY DEF Lists
<1>2. b \in Spots /\ b \notin F /\ c \in Class /\ NULL \notin Spots
  BY SpotsArePlaces
<1>3. n # NULL => /\ n \in F /\ n \in Spots /\ n # b /\ ClassOf(t, n) = c
                  /\ t.hdr[n].prev = NULL
  BY <1>1, <1>2 DEF Headed
<1>4. /\ u \in Pool /\ SameTags(t, u)
      /\ \A x \in Spots :
            /\ u.hdr[x].next = IF x = b THEN n ELSE t.hdr[x].next
            /\ u.hdr[x].prev = IF x = b THEN NULL
                               ELSE IF x = n THEN b ELSE t.hdr[x].prev
      /\ u.matrix = [t.matrix EXCEPT ![c] = b]
      /\ u.sl = t.sl \cup {c} /\ u.fl = t.fl \cup {c[1]}
  <2>1. t \in Pool /\ b \in Spots /\ ClassOf(t, b) \in Class
    BY <1>1, <1>2
  <2> QED
    BY <2>1, InsertEffect
<1>5. \A x \in Spots : ClassOf(u, x) = ClassOf(t, x)
  BY <1>4 DEF SameTags, ClassOf
<1>6. \A d \in Class : u.matrix[d] = IF d = c THEN b ELSE t.matrix[d]
  BY <1>1, <1>4, PoolFields
<1>7. c = ClassOf(t, b)
  OBVIOUS
<1> HIDE DEF u, c, n
<1>8. Linked(u, G)
  <2> SUFFICES ASSUME NEW x \in G
               PROVE  /\ ClassOf(u, x) \in Class
                      /\ u.hdr[x].next # NULL =>
                            /\ u.hdr[x].next \in G
                            /\ ClassOf(u, u.hdr[x].next) = ClassOf(u, x)
                            /\ u.hdr[u.hdr[x].next].prev = x
                      /\ u.hdr[x].prev # NULL =>
                            /\ u.hdr[x].prev \in G
                            /\ ClassOf(u, u.hdr[x].prev) = ClassOf(u, x)
                            /\ u.hdr[u.hdr[x].prev].next = x
                      /\ u.hdr[x].prev = NULL => u.matrix[ClassOf(u, x)] = x
    BY DEF Linked
  <2>1. CASE x = b
    BY <1>2, <1>3, <1>4, <1>5, <1>6, <1>7, <2>1
  <2>2. CASE x # b
    <3> DEFINE m == t.hdr[x].next
               q == t.hdr[x].prev
               d == ClassOf(t, x)
    <3>1. x \in F /\ x \in Spots
      BY <1>1, <2>2
    <3>2. /\ d \in Class
          /\ m # NULL => m \in F /\ m \in Spots /\ ClassOf(t, m) = d /\ t.hdr[m].prev = x
          /\ q # NULL => q \in F /\ q \in Spots /\ ClassOf(t, q) = d /\ t.hdr[q].next = x
          /\ q = NULL => t.matrix[d] = x
      BY <3>1, Neighbours
    <3>3. /\ ClassOf(u, x) = d /\ u.hdr[x].next = m
          /\ u.hdr[x].prev = IF x = n THEN b ELSE q
      BY <1>4, <1>5, <2>2, <3>1
    <3> HIDE DEF m, q, d
    <3>4. ASSUME m # NULL
          PROVE  m \in G /\ ClassOf(u, m) = d /\ u.hdr[m].prev = x
      <4>1. m # b
        BY <1>2, <3>2, <3>4
      <4>2. m # n
        BY <1>2, <1>3, <3>1, <3>2, <3>4
      <4> QED
        BY <1>4, <1>5, <3>2, <3>4, <4>1, <4>2
    <3>5. CASE x = n
      <4>1. d = c /\ u.hdr[b].next = x
        BY <1>2, <1>3, <1>4, <3>1, <3>5 DEF d
      <4>2. ClassOf(u, b) = d /\ b # NULL
        BY <1>2, <1>5, <1>7, <4>1
      <4> QED
        BY <3>2, <3>3, <3>4, <3>5, <4>1, <4>2
    <3>6. CASE x # n
      <4>1. ASSUME q # NULL
            PROVE  q \in G /\ ClassOf(u, q) = d /\ u.hdr[q].next = x
        <5>1. q # b
          BY <1>2, <3>2, <4>1
        <5> QED
          BY <1>4, <1>5, <3>2, <4>1, <5>1
      <4>2. ASSUME q = NULL PROVE u.matrix[d] = x
        <5>1. t.matrix[d] = x
          BY <3>2, <4>2
        <5>2. d # c
          BY <3>6, <5>1 DEF n
        <5> QED
          BY <1>6, <3>2, <5>1, <5>2
      <4> QED
        BY <3>2, <3>3, <3>4, <3>6, <4>1, <4>2
    <3> QED
      BY <3>5, <3>6
  <2> QED
    BY <2>1, <2>2
<1>9. Headed(u, G)
  <2> SUFFICES ASSUME NEW d \in Class, u.matrix[d] # NULL
               PROVE  /\ u.matrix[d] \in G
                      /\ ClassOf(u, u.matrix[d]) = d
                      /\ u.hdr[u.matrix[d]].prev = NULL
    BY DEF Headed
  <2>1. CASE d = c
    BY <1>2, <1>4, <1>5, <1>6, <1>7, <2>1
  <2>2. CASE d # c
    <3> DEFINE y == t.matrix[d]
    <3>1. u.matrix[d] = y /\ y # NULL
      BY <1>6, <2>2
    <3>2. y \in F /\ ClassOf(t, y) = d /\ t.hdr[y].prev = NULL
      BY <1>1, <3>1 DEF Headed
    <3> HIDE DEF y
    <3>3. y # b /\ y \in Spots /\ y # n
      BY <1>1, <1>2, <1>3, <2>2, <3>1, <3>2
    <3> QED
      BY <1>4, <1>5, <3>1, <3>2, <3>3
  <2> QED
    BY <2>1, <2>2
<1>10. Unlinked(u, G)
  <2> SUFFICES ASSUME NEW x \in Spots \ G
               PROVE  u.hdr[x].prev = NULL /\ u.hdr[x].next = NULL
    BY DEF Unlinked
  <2>1. x \in Spots \ F /\ x # b /\ x # n
    BY <1>2, <1>3
  <2>2. t.hdr[x].prev = NULL /\ t.hdr[x].next = NULL
    BY <1>1, <2>1 DEF Unlinked
  <2> QED
    BY <1>4, <2>1, <2>2
<1>11. Mapped(u)
  <2>1. t.sl = {d \in Class : t.matrix[d] # NULL} /\ t.fl = {d[1] : d \in t.sl}
    BY <1>1 DEF Mapped
  <2>2. u.sl = {d \in Class : u.matrix[d] # NULL}
    <3>1. ASSUME NEW d \in Class PROVE d \in u.sl <=> u.matrix[d] # NULL
      BY <1>2, <1>4, <1>6, <2>1
    <3>2. u.sl \subseteq Class
      BY <1>4, PoolFields
    <3> QED
      BY <3>1, <3>2
  <2>3. u.fl = {d[1] : d \in u.sl}
    BY <1>4, <2>1
  <2> QED
    BY <2>2, <2>3 DEF Mapped
<1>12. Ranked(u, G)
  <2>1. PICK rank \in [Spots -> Nat] :
           \A x \in F : t.hdr[x].next # NULL => rank[x] < rank[t.hdr[x].next]
    BY <1>1 DEF Ranked
  <2> DEFINE new == [x \in Spots |-> IF x = b THEN 0 ELSE rank[x] + 1]
  <2>2. new \in [Spots -> Nat]
    BY <2>1
  <2>3. ASSUME NEW x \in G, u.hdr[x].next # NULL
        PROVE  new[x] < new[u.hdr[x].next]
    <3>1. CASE x = b
      <4>1. u.hdr[x].next = n /\ n \in Spots /\ n # b
        BY <1>2, <1>3, <1>4, <2>3, <3>1
      <4>2. new[x] = 0 /\ new[n] = rank[n] + 1 /\ rank[n] \in Nat
        BY <1>2, <2>1, <3>1, <4>1
      <4> QED
        BY <4>1, <4>2
    <3>2. CASE x # b
      <4> DEFINE m == t.hdr[x].next
      <4>1. x \in F /\ x \in Spots /\ u.hdr[x].next = m
        BY <1>1, <1>4, <3>2
      <4>2. m \in F /\ m \in Spots /\ m # b
        BY <1>2, <2>3, <4>1, Neighbours
      <4>3. rank[x] < rank[m] /\ rank[x] \in Nat /\ rank[m] \in Nat
        BY <2>1, <2>3, <4>1, <4>2
      <4> HIDE DEF m
      <4>4. new[x] = rank[x] + 1 /\ new[m] = rank[m] + 1
        BY <3>2, <4>1, <4>2
      <4> QED
        BY <4>1, <4>3, <4>4
    <3> QED
      BY <3>1, <3>2
  <2> HIDE DEF new
  <2> QED
    BY <2>2, <2>3 DEF Ranked
<1>13. Lists(u, G)
  <2>1. G \subseteq Spots
    BY <1>1, <1>2
  <2> QED
    BY <1>4, <1>8, <1>9, <1>10, <1>11, <1>12, <2>1 DEF Lists
<1> QED
  BY <1>4, <1>13 DEF u

\* The lists are the links, the heads, the bits and the sizes of the blocks
\* in them, and nothing else.
LEMMA SameLists ==
  ASSUME NEW t, NEW F, Lists(t, F), NEW u \in Pool,
         u.matrix = t.matrix, u.sl = t.sl, u.fl = t.fl,
         \A x \in Spots : u.hdr[x].prev = t.hdr[x].prev /\ u.hdr[x].next = t.hdr[x].next,
         \A x \in F : u.hdr[x].size = t.hdr[x].size
  PROVE  Lists(u, F)
<1>1. /\ t \in Pool /\ F \subseteq Spots /\ Linked(t, F) /\ Headed(t, F)
      /\ Unlinked(t, F) /\ Mapped(t) /\ Ranked(t, F)
  BY DEF Lists
<1>2. \A x \in F : ClassOf(u, x) = ClassOf(t, x)
  BY DEF ClassOf
<1>3. Linked(u, F)
  <2> SUFFICES ASSUME NEW x \in F
               PROVE  /\ ClassOf(u, x) \in Class
                      /\ u.hdr[x].next # NULL =>
                            /\ u.hdr[x].next \in F
                            /\ ClassOf(u, u.hdr[x].next) = ClassOf(u, x)
                            /\ u.hdr[u.hdr[x].next].prev = x
                      /\ u.hdr[x].prev # NULL =>
                            /\ u.hdr[x].prev \in F
                            /\ ClassOf(u, u.hdr[x].prev) = ClassOf(u, x)
                            /\ u.hdr[u.hdr[x].prev].next = x
                      /\ u.hdr[x].prev = NULL => u.matrix[ClassOf(u, x)] = x
    BY DEF Linked
  <2>1. u.hdr[x].prev = t.hdr[x].prev /\ u.hdr[x].next = t.hdr[x].next
    BY <1>1
  <2> QED
    BY <1>2, <2>1, Neighbours
<1>4. Headed(u, F)
  BY <1>1, <1>2 DEF Headed
<1>5. Unlinked(u, F) /\ Mapped(u) /\ Ranked(u, F)
  BY <1>1 DEF Unlinked, Mapped, Ranked
<1> QED
  BY <1>1, <1>3, <1>4, <1>5 DEF Lists

\* EXTRACT_BLOCK_HDR does to the head of a list what EXTRACT_BLOCK does.
LEMMA HeadIsExtract ==
  ASSUME NEW t, NEW F, Lists(t, F), NEW c \in Class, t.matrix[c] # NULL
  PROVE  ExtractHead(t, c) = Extract(t, t.matrix[c])
<1> DEFINE b == t.matrix[c]
           h == t.hdr[b]
           n == h.next
           A == [x \in Spots |->
                    IF x = b THEN [t.hdr[x] EXCEPT !.prev = NULL,
                                                   !.next = NULL]
                    ELSE IF x = n THEN [t.hdr[x] EXCEPT !.prev = NULL]
                    ELSE t.hdr[x]]
           B == [x \in Spots |->
                    IF x = b THEN [h EXCEPT !.prev = NULL,
                                            !.next = NULL]
                    ELSE IF x = h.next
                         THEN [t.hdr[x] EXCEPT !.prev = h.prev]
                    ELSE IF x = h.prev
                         THEN [t.hdr[x] EXCEPT !.next = h.next]
                    ELSE t.hdr[x]]
           head == t.matrix[c] = b
           u == [t EXCEPT !.matrix[c] = n, !.hdr = A]
           v == [t EXCEPT !.matrix[c] = IF head THEN h.next ELSE @, !.hdr = B]
<1>1. b \in F /\ ClassOf(t, b) = c /\ h.prev = NULL
  BY DEF Lists, Headed
<1>2. A = B
  <2>1. ASSUME NEW x \in Spots PROVE A[x] = B[x]
    <3>1. x # h.prev
      BY <1>1, SpotsArePlaces
    <3> QED
      BY <1>1, <3>1
  <2> QED
    BY <2>1
<1>3. u = v
  <2> HIDE DEF A, B
  <2> QED
    BY <1>2
<1>4. ExtractHead(t, c) = IF n = NULL THEN ClearBits(u, c) ELSE u
  BY Zenon DEF ExtractHead
<1> HIDE DEF A, B, u
<1>5. Extract(t, b) = IF head /\ n = NULL THEN ClearBits(v, c) ELSE v
  <2>1. MappingInsert(h.size) = c
    BY <1>1 DEF ClassOf
  <2> QED
    BY <2>1, Zenon DEF Extract, B
<1> QED
  BY <1>3, <1>4, <1>5

\* FIND_SUITABLE_BLOCK finds a list that is not empty at or above a class, and
\* fails only when there is none.
LEMMA SuitableReaches ==
  ASSUME NEW t, Mapped(t), NEW class \in Nat \X Nat
  PROVE  /\ \A c \in Suitable(t, class) :
               c \in Class /\ t.matrix[c] # NULL /\ Reaches(c, class)
         /\ Suitable(t, class) = {} =>
               \A c \in Class : t.matrix[c] # NULL => ~Reaches(c, class)
<1> DEFINE here  == {c \in t.sl : c[1] = class[1] /\ c[2] >= class[2]}
           above == {f \in t.fl : f > class[1]}
           level == {c \in t.sl : c[1] \in above /\ \A f \in above : c[1] <= f}
           rows  == IF here # {} THEN here ELSE level
           found == {c \in rows : \A d \in rows : c[2] <= d[2]}
<1>1. Suitable(t, class) = found
  BY DEF Suitable
<1>2. /\ t.sl = {c \in Class : t.matrix[c] # NULL} /\ t.sl \subseteq Class
      /\ t.fl = {c[1] : c \in t.sl}
  BY DEF Mapped
<1>3. \A c \in Class : c[1] \in Nat /\ c[2] \in Nat
  BY Parameters DEF Class
<1>4. class[1] \in Nat /\ class[2] \in Nat
  OBVIOUS
<1>5. rows \subseteq t.sl /\ \A c \in rows : Reaches(c, class)
  BY <1>2, <1>3, <1>4 DEF Reaches
<1>6. ASSUME found = {} PROVE rows = {}
  <2> SUFFICES ASSUME rows # {} PROVE found # {}
    BY <1>6
  <2> HIDE DEF rows
  <2> DEFINE S == {c[2] : c \in rows}
  <2>1. S \in SUBSET Nat /\ S # {}
    BY <1>2, <1>3, <1>5
  <2>2. PICK m \in S : \A n \in S : m <= n
    <3> HIDE DEF S
    <3> QED
      BY <2>1, Least
  <2>3. PICK c \in rows : m = c[2]
    BY <2>2
  <2>4. \A d \in rows : c[2] <= d[2]
    BY <2>2, <2>3
  <2> QED
    BY <2>4
<1>7. ASSUME rows = {}, NEW c \in t.sl, Reaches(c, class) PROVE FALSE
  <2>1. here = {} /\ level = {}
    BY <1>7
  <2>2. c[1] \in above
    BY <1>2, <1>3, <1>4, <1>7, <2>1 DEF Reaches
  <2>3. above \in SUBSET Nat /\ above # {}
    BY <1>2, <1>3, <2>2
  <2>4. PICK f \in above : \A g \in above : f <= g
    <3> HIDE DEF above
    <3> QED
      BY <2>3, Least
  <2>5. PICK d \in t.sl : f = d[1]
    BY <1>2, <2>4
  <2>6. d \in level
    BY <2>4, <2>5
  <2> QED
    BY <2>1, <2>6
<1> HIDE DEF rows
<1>8. \A c \in found : c \in rows
  OBVIOUS
<1> HIDE DEF found
<1> QED
  BY <1>1, <1>2, <1>5, <1>6, <1>7, <1>8

-----------------------------------------------------------------------------
(* The tiling and the tags.                                                *)

LEMMA SoundFields ==
  ASSUME NEW t, NEW S, SoundBut(t, S)
  PROVE  /\ t \in Pool /\ Ends(t) /\ Plain(t) /\ Adjacent(t)
         /\ \A b \in HeadsOf(t) \ ({Last} \cup S) : Tagged(t, b)
  BY DEF SoundBut

\* Where a block and the one behind it can be.
LEMMA HeadPlaces ==
  ASSUME NEW t, t \in Pool, Ends(t), Adjacent(t), NEW b \in HeadsOf(t)
  PROVE  /\ Area \in HeadsOf(t) /\ First \in HeadsOf(t) /\ Last \in HeadsOf(t)
         /\ NextBlock(t, Area) = First
         /\ b \in Spots /\ b \in Nat /\ b <= Last
         /\ b # Area => First <= b
         /\ b # Last => LET n == NextBlock(t, b) IN
                        /\ t.hdr[b].size \in Nat /\ t.hdr[b].size >= 2 /\ b < Last
                        /\ n = b + 2 + t.hdr[b].size
                        /\ n \in HeadsOf(t) /\ n \in Spots /\ n \in Nat /\ n <= Last
                        /\ (n # Area /\ n # First) \/ b = Area
<1>1. /\ t.hdr[Area].size = 2 /\ t.hdr[First].size >= 2
      /\ Area = 2 /\ First = 6 /\ Last \in Nat /\ Last >= First + 4
      /\ Area \in Spots /\ First \in Spots /\ Last \in Spots
      /\ Spots = 2 .. Last
  BY SpotsArePlaces, Parameters DEF Ends, AreaInfo, MinBlock, Spots
<1>2. \A x \in HeadsOf(t) : x \in Spots /\ (x # Last => t.hdr[x].size >= 2)
  BY <1>1 DEF HeadsOf, MinBlock
<1>3. Area \in HeadsOf(t) /\ First \in HeadsOf(t) /\ Last \in HeadsOf(t)
  BY <1>1 DEF HeadsOf, MinBlock
<1>4. NextBlock(t, Area) = First
  BY <1>1 DEF NextBlock, Overhead
<1>5. ASSUME NEW x \in HeadsOf(t), x # Area PROVE First <= x
  <2>1. x <= Area \/ x >= First
    BY <1>1, <1>3, <1>4 DEF Adjacent
  <2>2. x \in 2 .. Last
    BY <1>1, <1>2
  <2> QED
    BY <1>1, <1>5, <2>1, <2>2
<1>6. b \in Spots /\ b \in Nat /\ b <= Last
  BY <1>1, <1>2
<1>7. ASSUME b # Last
      PROVE  LET n == NextBlock(t, b) IN
             /\ t.hdr[b].size \in Nat /\ t.hdr[b].size >= 2 /\ b < Last
             /\ n = b + 2 + t.hdr[b].size
             /\ n \in HeadsOf(t) /\ n \in Spots /\ n \in Nat /\ n <= Last
             /\ (n # Area /\ n # First) \/ b = Area
  <2>1. t.hdr[b].size \in Nat /\ t.hdr[b].size >= 2 /\ b < Last
    BY <1>1, <1>2, <1>6, <1>7, HeaderFields
  <2>2. NextBlock(t, b) = b + 2 + t.hdr[b].size
    BY DEF NextBlock, Overhead
  <2>3. NextBlock(t, b) \in HeadsOf(t)
    BY <1>7 DEF Adjacent
  <2>4. NextBlock(t, b) \in Spots
    BY <1>2, <2>3
  <2>5. b = Area \/ First <= b
    BY <1>5
  <2> HIDE DEF Area, First, Last
  <2>6. b \in Nat /\ b >= 2
    BY <1>1, <1>6
  <2> QED
    BY <1>1, <2>1, <2>2, <2>3, <2>4, <2>5, <2>6
<1> QED
  BY <1>3, <1>4, <1>5, <1>6, <1>7

\* Every block but the first begins where another ends.
LEMMA BlockBefore ==
  ASSUME NEW t, t \in Pool, Ends(t), Adjacent(t),
         NEW b \in HeadsOf(t), b # Area
  PROVE  \E a \in HeadsOf(t) \ {Last} : NextBlock(t, a) = b /\ a < b
<1> DEFINE S == {x \in HeadsOf(t) : x < b}
<1>1. /\ First <= b /\ b \in Nat /\ b <= Last /\ Area \in HeadsOf(t)
      /\ Area < b /\ Last \in Nat
  BY HeadPlaces, SpotsArePlaces, Parameters
<1>2. S \in SUBSET (0 .. Last) /\ S # {}
  <2>1. \A x \in HeadsOf(t) : x \in 0 .. Last
    BY <1>1, HeadPlaces
  <2> QED
    BY <1>1, <2>1
<1>3. PICK a \in S : \A x \in S : x <= a
  <2> HIDE DEF S
  <2> QED
    BY <1>1, <1>2, Greatest
<1>4. a \in HeadsOf(t) /\ a < b /\ a # Last /\ a \in Nat
  BY <1>1, HeadPlaces
<1> DEFINE n == NextBlock(t, a)
<1>5. n \in HeadsOf(t) /\ n \in Nat /\ a < n
  BY <1>4, HeadPlaces
<1>6. b <= a \/ b >= n
  BY <1>4 DEF Adjacent
<1> HIDE DEF n
<1>7. ~(n < b)
  BY <1>3, <1>4, <1>5
<1> QED
  BY <1>1, <1>4, <1>5, <1>6, <1>7 DEF n

\* A block that is told so finds the free block before it.
LEMMA FreeBefore ==
  ASSUME NEW t, NEW b \in HeadsOf(t), b # Area, SoundBut(t, {b}), t.hdr[b].prevFree
  PROVE  LET a == t.hdr[b].prev_hdr IN
         /\ a \in HeadsOf(t) /\ a # Last /\ a # Area /\ t.hdr[a].free
         /\ NextBlock(t, a) = b /\ a < b /\ ~t.hdr[a].prevFree
<1>1. /\ t \in Pool /\ Ends(t) /\ Adjacent(t)
      /\ \A x \in HeadsOf(t) \ {Last, b} : Tagged(t, x)
  BY SoundFields
<1>2. PICK a \in HeadsOf(t) \ {Last} : NextBlock(t, a) = b /\ a < b
  BY <1>1, BlockBefore
<1>3. a # b
  BY <1>1, <1>2, HeadPlaces
<1>4. t.hdr[b].prevFree = t.hdr[a].free /\ (t.hdr[a].free => t.hdr[b].prev_hdr = a)
  BY <1>1, <1>2, <1>3 DEF Tagged
<1>5. a # Area
  BY <1>1, <1>4 DEF Ends
<1>6. ~t.hdr[a].prevFree
  <2> SUFFICES ASSUME t.hdr[a].prevFree PROVE FALSE
    OBVIOUS
  <2>1. PICK z \in HeadsOf(t) \ {Last} : NextBlock(t, z) = a /\ z < a
    BY <1>1, <1>2, <1>5, BlockBefore
  <2>2. z # b
    BY <1>1, <1>2, <2>1, HeadPlaces
  <2>3. t.hdr[a].prevFree = t.hdr[z].free /\ (t.hdr[z].free => ~t.hdr[a].free)
    BY <1>1, <2>1, <2>2 DEF Tagged
  <2> QED
    BY <1>4, <2>3
<1> QED
  BY <1>2, <1>4, <1>5, <1>6

SameHeader(t, u, x) ==
    /\ u.hdr[x].size = t.hdr[x].size /\ u.hdr[x].free = t.hdr[x].free
    /\ u.hdr[x].prevFree = t.hdr[x].prevFree
    /\ u.hdr[x].prev_hdr = t.hdr[x].prev_hdr

\* u is t with the blocks from b up to e made anew.
Changed(t, u, b, e) ==
    /\ u \in Pool /\ b \in HeadsOf(t) /\ e \in HeadsOf(t) /\ First <= b /\ b < e
    /\ \A x \in Spots : x < b \/ x > e => SameHeader(t, u, x)
    /\ u.hdr[b].prevFree = t.hdr[b].prevFree
    /\ u.hdr[b].prev_hdr = t.hdr[b].prev_hdr
    /\ u.hdr[b].free => ~t.hdr[b].prevFree
    /\ u.hdr[e].size = t.hdr[e].size /\ u.hdr[e].free = t.hdr[e].free
    /\ e = Last => u.hdr[e].prev_hdr # NULL

\* The heads after such a change.
HeadsChanged(t, u, b, e, between) ==
    \A x \in Spots : x \in HeadsOf(u) <=> IF b < x /\ x < e THEN x \in between
                                          ELSE x \in HeadsOf(t)

\* When the new blocks tile what they stand for and their tags are right, the
\* pool is sound.
LEMMA Rebuilt ==
  ASSUME NEW t, NEW b, NEW e, NEW S, SoundBut(t, S), NEW u,
         Changed(t, u, b, e), \A x \in S : b <= x /\ x < e,
         u.hdr[b].size >= 2,
         \A x \in Spots : b < x /\ x < e =>
            NoTags(u.hdr[x]) \/ u.hdr[x].size >= 2,
         \A h \in Spots : b <= h /\ h < e /\ u.hdr[h].size >= 2 =>
            LET n == NextBlock(u, h) IN
            /\ n <= e /\ n \in Spots /\ (n # e => u.hdr[n].size >= 2)
            /\ \A c \in Spots : h < c /\ c < n => u.hdr[c].size < 2
            /\ Tagged(u, h)
  PROVE  /\ Sound(u)
         /\ HeadsChanged(t, u, b, e, {x \in Spots : u.hdr[x].size >= 2})
<1>1. /\ t \in Pool /\ Ends(t) /\ Plain(t) /\ Adjacent(t)
      /\ \A x \in HeadsOf(t) \ ({Last} \cup S) : Tagged(t, x)
  BY SoundFields
<1>2. /\ u \in Pool /\ b \in HeadsOf(t) /\ e \in HeadsOf(t) /\ First <= b /\ b < e
      /\ \A x \in Spots : x < b \/ x > e => SameHeader(t, u, x)
      /\ u.hdr[b].prevFree = t.hdr[b].prevFree
      /\ u.hdr[b].prev_hdr = t.hdr[b].prev_hdr
      /\ u.hdr[b].free => ~t.hdr[b].prevFree
      /\ u.hdr[e].size = t.hdr[e].size /\ u.hdr[e].free = t.hdr[e].free
      /\ e = Last => u.hdr[e].prev_hdr # NULL
  BY DEF Changed
<1>3. /\ Spots = 2 .. Last /\ Area = 2 /\ First = 6 /\ Last \in Nat
      /\ Area \in Spots /\ First \in Spots /\ Last \in Spots
      /\ b \in Spots /\ b \in Nat /\ e \in Spots /\ e \in Nat /\ e <= Last
      /\ b # Last
  BY <1>1, <1>2, HeadPlaces, SpotsArePlaces, Parameters DEF Spots
<1>4. \A x \in Spots : /\ t.hdr[x].size \in Nat /\ u.hdr[x].size \in Nat
                       /\ x \in Nat
  BY <1>1, <1>2, <1>3, HeaderFields
<1>5. \A x \in Spots : /\ x \in HeadsOf(t) <=> x = Last \/ t.hdr[x].size >= 2
                       /\ x \in HeadsOf(u) <=> x = Last \/ u.hdr[x].size >= 2
  BY DEF HeadsOf, MinBlock
<1>6. HeadsOf(u) \subseteq Spots /\ HeadsOf(t) \subseteq Spots
  BY <1>3 DEF HeadsOf
<1> HIDE DEF Area, First, Last, Spots
<1>7. ASSUME NEW x \in Spots, x <= b \/ x >= e
      PROVE  x \in HeadsOf(u) <=> x \in HeadsOf(t)
  <2>1. CASE x = b
    BY <1>2, <1>5, <2>1
  <2>2. CASE x = e
    BY <1>2, <1>5, <2>2
  <2>3. CASE x # b /\ x # e
    <3>1. u.hdr[x].size = t.hdr[x].size
      BY <1>2, <1>3, <1>4, <1>7, <2>3 DEF SameHeader
    <3> QED
      BY <1>5, <3>1
  <2> QED
    BY <2>1, <2>2, <2>3
<1>8. HeadsChanged(t, u, b, e, {x \in Spots : u.hdr[x].size >= 2})
  <2> SUFFICES ASSUME NEW x \in Spots
               PROVE  x \in HeadsOf(u) <=>
                        IF b < x /\ x < e THEN u.hdr[x].size >= 2
                        ELSE x \in HeadsOf(t)
    BY DEF HeadsChanged
  <2>1. CASE b < x /\ x < e
    BY <1>3, <1>4, <1>5, <2>1
  <2>2. CASE ~(b < x /\ x < e)
    <3>1. x <= b \/ x >= e
      BY <1>3, <1>4, <2>2
    <3> QED
      BY <1>7, <2>2, <3>1
  <2> QED
    BY <2>1, <2>2
<1>9. Ends(u)
  <2>1. SameHeader(t, u, Area)
    BY <1>2, <1>3
  <2>2. u.hdr[First].size >= MinBlock /\ u.hdr[First].prev_hdr = NULL
    <3>1. CASE First = b
      BY <1>1, <1>2, <3>1 DEF Ends, MinBlock
    <3>2. CASE First < b
      BY <1>1, <1>2, <1>3, <3>2 DEF Ends, SameHeader
    <3> QED
      BY <1>2, <1>3, <3>1, <3>2
  <2>3. u.hdr[Last].size = 0 /\ ~u.hdr[Last].free /\ u.hdr[Last].prev_hdr # NULL
    <3>1. CASE Last = e
      BY <1>1, <1>2, <3>1 DEF Ends
    <3>2. CASE e < Last
      BY <1>1, <1>2, <1>3, <3>2 DEF Ends, SameHeader
    <3> QED
      BY <1>3, <3>1, <3>2
  <2> QED
    BY <1>1, <2>1, <2>2, <2>3 DEF Ends, SameHeader
<1>10. Plain(u)
  <2> SUFFICES ASSUME NEW x \in Spots, x # Last
               PROVE  NoTags(u.hdr[x]) \/ u.hdr[x].size >= 2
    BY DEF Plain, MinBlock
  <2>1. CASE x < b \/ x > e
    <3>1. SameHeader(t, u, x)
      BY <1>2, <2>1
    <3>2. NoTags(t.hdr[x]) \/ t.hdr[x].size >= 2
      BY <1>1 DEF Plain, MinBlock
    <3> QED
      BY <3>1, <3>2 DEF SameHeader, NoTags
  <2>2. CASE x = e
    BY <1>2, <1>5, <2>2
  <2>3. CASE x = b
    BY <2>3
  <2>4. CASE b < x /\ x < e
    BY <2>4
  <2> QED
    BY <1>3, <1>4, <2>1, <2>2, <2>3, <2>4
\* Where the block behind an old block is.
<1>11. ASSUME NEW h \in HeadsOf(t), h # Last, h < b \/ h >= e
       PROVE  LET n == NextBlock(t, h) IN
              /\ NextBlock(u, h) = n /\ n \in HeadsOf(t) /\ n \in Spots
              /\ h \in Nat /\ n \in Nat /\ h < n
              /\ h < b => n <= b
              /\ h >= e => n > e
              /\ h \notin S
  <2>1. h \in Spots /\ h \in Nat
    BY <1>4, <1>6
  <2>2. u.hdr[h].size = t.hdr[h].size
    BY <1>2, <1>3, <1>11, <2>1 DEF SameHeader
  <2> DEFINE n == NextBlock(t, h)
  <2>3. NextBlock(u, h) = n
    BY <2>2 DEF NextBlock
  <2>4. n \in HeadsOf(t) /\ n \in Spots /\ n \in Nat /\ h < n
    BY <1>1, <1>11, HeadPlaces
  <2>5. b <= h \/ b >= n
    BY <1>1, <1>2, <1>11 DEF Adjacent
  <2> HIDE DEF n
  <2>6. /\ h < b => n <= b
        /\ h >= e => n > e
    BY <1>3, <2>1, <2>4, <2>5
  <2>7. h \notin S
    BY <1>3, <1>11, <2>1
  <2> QED
    BY <2>1, <2>3, <2>4, <2>6, <2>7 DEF n
<1>12. Adjacent(u)
  <2> SUFFICES ASSUME NEW h \in HeadsOf(u), h # Last
               PROVE  /\ NextBlock(u, h) \in HeadsOf(u)
                      /\ \A c \in HeadsOf(u) : c <= h \/ c >= NextBlock(u, h)
    BY DEF Adjacent
  <2>1. h \in Spots /\ h \in Nat
    BY <1>4, <1>6
  <2>2. CASE h < b \/ h >= e
    <3> DEFINE n == NextBlock(t, h)
    <3>1. h \in HeadsOf(t)
      BY <1>3, <1>7, <2>1, <2>2
    <3>2. /\ NextBlock(u, h) = n /\ n \in HeadsOf(t) /\ n \in Spots
          /\ n \in Nat /\ h < n
          /\ h < b => n <= b
          /\ h >= e => n > e
      BY <1>11, <2>2, <3>1
    <3>3. \A c \in HeadsOf(t) : c <= h \/ c >= n
      BY <1>1, <3>1, Zenon DEF Adjacent
    <3> HIDE DEF n
    <3>4. n <= b \/ n >= e
      BY <1>3, <2>2, <3>2
    <3>5. n \in HeadsOf(u)
      BY <1>7, <3>2, <3>4
    <3>6. ASSUME NEW c \in HeadsOf(u) PROVE c <= h \/ c >= n
      <4>1. c \in Spots /\ c \in Nat
        BY <1>4, <1>6
      <4>2. CASE c <= b \/ c >= e
        BY <1>7, <3>3, <4>1, <4>2
      <4>3. CASE b < c /\ c < e
        BY <1>3, <2>1, <2>2, <3>2, <4>1, <4>3
      <4> QED
        BY <1>3, <4>1, <4>2, <4>3
    <3> QED
      BY <3>2, <3>5, <3>6
  <2>3. CASE b <= h /\ h < e
    <3> DEFINE n == NextBlock(u, h)
    <3>1. u.hdr[h].size >= 2
      BY <1>5, <2>1
    <3>2. /\ n <= e /\ n \in Spots /\ (n # e => u.hdr[n].size >= 2)
          /\ \A c \in Spots : h < c /\ c < n => u.hdr[c].size < 2
      BY <2>1, <2>3, <3>1
    <3> HIDE DEF n
    <3>3. n \in HeadsOf(u)
      BY <1>2, <1>3, <1>5, <1>7, <3>2
    <3>4. ASSUME NEW c \in HeadsOf(u) PROVE c <= h \/ c >= n
      <4>1. c \in Spots /\ c \in Nat /\ u.hdr[c].size \in Nat
        BY <1>4, <1>6
      <4>2. c = Last \/ u.hdr[c].size >= 2
        BY <1>5, <4>1
      <4>3. n \in Nat
        BY <1>4, <3>2
      <4> QED
        BY <1>3, <2>1, <3>2, <4>1, <4>2, <4>3
    <3> QED
      BY <3>3, <3>4 DEF n
  <2> QED
    BY <1>3, <2>1, <2>2, <2>3
<1>13. ASSUME NEW h \in HeadsOf(u), h # Last PROVE Tagged(u, h)
  <2>1. h \in Spots /\ h \in Nat
    BY <1>4, <1>6
  <2>2. CASE h < b \/ h >= e
    <3> DEFINE n == NextBlock(t, h)
    <3>1. h \in HeadsOf(t)
      BY <1>3, <1>7, <2>1, <2>2
    <3>2. /\ NextBlock(u, h) = n /\ n \in HeadsOf(t) /\ n \in Spots
          /\ n \in Nat /\ h < n /\ h \notin S
          /\ h < b => n <= b
          /\ h >= e => n > e
      BY <1>11, <1>13, <2>2, <3>1
    <3>3. /\ t.hdr[n].prevFree = t.hdr[h].free
          /\ t.hdr[h].free => t.hdr[n].prev_hdr = h /\ ~t.hdr[n].free
      BY <1>1, <1>13, <3>1, <3>2 DEF Tagged
    <3>4. u.hdr[h].free = t.hdr[h].free
      BY <1>2, <1>3, <2>1, <2>2 DEF SameHeader
    <3> HIDE DEF n
    <3>5. CASE n = b
      BY <1>2, <3>2, <3>3, <3>4, <3>5 DEF Tagged
    <3>6. CASE n # b
      <4>1. SameHeader(t, u, n)
        BY <1>2, <1>3, <2>1, <2>2, <3>2, <3>6
      <4> QED
        BY <3>2, <3>3, <3>4, <4>1 DEF Tagged, SameHeader
    <3> QED
      BY <3>5, <3>6
  <2>3. CASE b <= h /\ h < e
    <3>1. u.hdr[h].size >= 2
      BY <1>5, <1>13, <2>1
    <3> QED
      BY <2>1, <2>3, <3>1
  <2> QED
    BY <1>3, <2>1, <2>2, <2>3
<1> QED
  BY <1>2, <1>8, <1>9, <1>10, <1>12, <1>13 DEF Sound, SoundBut

\* One block from b up to e.
LEMMA OneBlock ==
  ASSUME NEW t, NEW b, NEW e, NEW S, SoundBut(t, S), NEW u,
         Changed(t, u, b, e), \A x \in S : b <= x /\ x < e,
         NextBlock(u, b) = e,
         \A x \in Spots : b < x /\ x < e => NoTags(u.hdr[x]),
         Tagged(u, b)
  PROVE  Sound(u) /\ HeadsChanged(t, u, b, e, {})
<1>1. /\ t \in Pool /\ u \in Pool /\ Ends(t) /\ Adjacent(t)
      /\ b \in HeadsOf(t) /\ e \in HeadsOf(t) /\ b < e
  BY DEF SoundBut, Changed
<1>2. /\ b \in Spots /\ b \in Nat /\ e \in Spots /\ e \in Nat /\ e <= Last
      /\ Last \in Spots /\ Last \in Nat
  BY <1>1, HeadPlaces, SpotsArePlaces
<1>3. b # Last
  BY <1>1, <1>2
<1>4. \A x \in Spots : x \in Nat /\ u.hdr[x].size \in Nat
  BY <1>1, SpotsArePlaces, HeaderFields
<1>5. u.hdr[b].size >= 2
  <2>1. NextBlock(t, b) <= e
    BY <1>1, <1>2, <1>3 DEF Adjacent
  <2>2. NextBlock(t, b) >= b + 4 /\ NextBlock(t, b) \in Nat
    BY <1>1, <1>3, HeadPlaces
  <2>3. e = b + 2 + u.hdr[b].size /\ u.hdr[b].size \in Nat
    BY <1>2, <1>4 DEF NextBlock, Overhead
  <2> QED
    BY <1>2, <2>1, <2>2, <2>3
<1>6. \A x \in Spots : b < x /\ x < e => u.hdr[x].size = 0
  BY DEF NoTags
<1>7. ASSUME NEW h \in Spots, b <= h, h < e, u.hdr[h].size >= 2 PROVE h = b
  BY <1>2, <1>4, <1>6, <1>7
<1>8. \A h \in Spots : b <= h /\ h < e /\ u.hdr[h].size >= 2 =>
         LET n == NextBlock(u, h) IN
         /\ n <= e /\ n \in Spots /\ (n # e => u.hdr[n].size >= 2)
         /\ \A c \in Spots : h < c /\ c < n => u.hdr[c].size < 2
         /\ Tagged(u, h)
  BY <1>2, <1>6, <1>7
<1>9. Sound(u) /\ HeadsChanged(t, u, b, e, {x \in Spots : u.hdr[x].size >= 2})
  BY <1>5, <1>8, Rebuilt
<1>10. HeadsChanged(t, u, b, e, {})
  BY <1>6, <1>9 DEF HeadsChanged
<1> QED
  BY <1>9, <1>10

\* A used block from b up to c and a free one from c up to e.
LEMMA TwoBlocks ==
  ASSUME NEW t, NEW b, NEW c \in Spots, NEW e, NEW S, SoundBut(t, S), NEW u,
         Changed(t, u, b, e), \A x \in S : b <= x /\ x < e,
         NextBlock(u, b) = c, u.hdr[b].size >= 2, ~u.hdr[b].free,
         NextBlock(u, c) = e, u.hdr[c].size >= 2, u.hdr[c].free,
         ~u.hdr[c].prevFree,
         \A x \in Spots : b < x /\ x < e /\ x # c => NoTags(u.hdr[x]),
         Tagged(u, c)
  PROVE  Sound(u) /\ HeadsChanged(t, u, b, e, {c})
<1>1. /\ t \in Pool /\ u \in Pool /\ Ends(t) /\ Adjacent(t)
      /\ b \in HeadsOf(t) /\ e \in HeadsOf(t) /\ b < e
  BY DEF SoundBut, Changed
<1>2. /\ b \in Spots /\ b \in Nat /\ e \in Spots /\ e \in Nat /\ e <= Last
      /\ Last \in Spots /\ Last \in Nat
  BY <1>1, HeadPlaces, SpotsArePlaces
<1>3. \A x \in Spots : x \in Nat /\ u.hdr[x].size \in Nat
  BY <1>1, SpotsArePlaces, HeaderFields
<1>4. b < c /\ c < e /\ c \in Nat
  BY <1>2, <1>3 DEF NextBlock, Overhead
<1>5. \A x \in Spots : b < x /\ x < e /\ x # c => u.hdr[x].size = 0
  BY DEF NoTags
<1>6. Tagged(u, b)
  BY <1>1, <1>2, HeaderFields DEF Tagged
<1>7. ASSUME NEW h \in Spots, b <= h, h < e, u.hdr[h].size >= 2
      PROVE  h = b \/ h = c
  BY <1>2, <1>3, <1>5, <1>7
<1>8. \A h \in Spots : b <= h /\ h < e /\ u.hdr[h].size >= 2 =>
         LET n == NextBlock(u, h) IN
         /\ n <= e /\ n \in Spots /\ (n # e => u.hdr[n].size >= 2)
         /\ \A x \in Spots : h < x /\ x < n => u.hdr[x].size < 2
         /\ Tagged(u, h)
  <2> SUFFICES ASSUME NEW h \in Spots, b <= h, h < e, u.hdr[h].size >= 2
               PROVE  LET n == NextBlock(u, h) IN
                      /\ n <= e /\ n \in Spots /\ (n # e => u.hdr[n].size >= 2)
                      /\ \A x \in Spots : h < x /\ x < n => u.hdr[x].size < 2
                      /\ Tagged(u, h)
    OBVIOUS
  <2>1. CASE h = b
    <3>1. \A x \in Spots : b < x /\ x < c => u.hdr[x].size < 2
      BY <1>2, <1>3, <1>4, <1>5
    <3> QED
      BY <1>2, <1>4, <1>6, <2>1, <3>1
  <2>2. CASE h = c
    <3>1. \A x \in Spots : c < x /\ x < e => u.hdr[x].size < 2
      BY <1>2, <1>3, <1>4, <1>5
    <3> QED
      BY <1>2, <1>4, <2>2, <3>1
  <2> QED
    BY <1>7, <2>1, <2>2
<1>9. \A x \in Spots : b < x /\ x < e =>
         NoTags(u.hdr[x]) \/ u.hdr[x].size >= 2
  OBVIOUS
<1>10. Sound(u) /\ HeadsChanged(t, u, b, e, {x \in Spots : u.hdr[x].size >= 2})
  BY <1>8, <1>9, Rebuilt
<1>11. HeadsChanged(t, u, b, e, {c})
  BY <1>4, <1>5, <1>10 DEF HeadsChanged
<1> QED
  BY <1>10, <1>11

\* The free blocks are blocks, neither the first nor the last.
LEMMA FreeAreHeads ==
  ASSUME NEW t, t \in Pool, Ends(t), Plain(t), NEW x \in FreeOf(t)
  PROVE  x \in HeadsOf(t) /\ x \in Spots /\ x # Area /\ x # Last
<1>1. x \in Spots /\ t.hdr[x].free
  BY DEF FreeOf
<1>2. x # Area /\ x # Last
  BY <1>1 DEF Ends
<1> QED
  BY <1>1, <1>2 DEF Plain, HeadsOf, NoTags

\* Inside a block there are no headers.
LEMMA Inside ==
  ASSUME NEW t, t \in Pool, Ends(t), Plain(t), Adjacent(t), NEW b \in HeadsOf(t),
         b # Last, NEW x \in Spots, b < x, x < NextBlock(t, b)
  PROVE  x \notin HeadsOf(t) /\ NoTags(t.hdr[x])
<1>1. /\ NextBlock(t, b) \in Nat /\ NextBlock(t, b) <= Last /\ b \in Nat
      /\ x \in Nat /\ Last \in Nat
  BY HeadPlaces, SpotsArePlaces
<1>2. x \notin HeadsOf(t)
  BY <1>1 DEF Adjacent
<1>3. x # Last
  BY <1>1
<1> QED
  BY <1>2, <1>3 DEF Plain, HeadsOf

\* Of the used blocks, only b may be a new one or none any more.
UsedAfter(t, u, b) ==
    /\ u.hdr[b].free => UsedOf(u) = UsedOf(t) \ {b}
    /\ ~u.hdr[b].free => UsedOf(u) = UsedOf(t) \cup {b}
    /\ \A x \in UsedOf(t) \ {b} : u.hdr[x].size = t.hdr[x].size

\* The used blocks after the blocks from b up to e have been made anew.
LEMMA UsedChanged ==
  ASSUME NEW t, NEW u, NEW b, NEW e, NEW M, NEW S, SoundBut(t, S),
         Changed(t, u, b, e), HeadsChanged(t, u, b, e, M),
         \A x \in UsedOf(t) : ~(b < x /\ x < e),
         \A x \in M : u.hdr[x].free
  PROVE  UsedAfter(t, u, b)
<1>1. /\ t \in Pool /\ u \in Pool /\ Ends(t) /\ Adjacent(t)
      /\ b \in HeadsOf(t) /\ e \in HeadsOf(t) /\ First <= b /\ b < e
      /\ \A x \in Spots : x < b \/ x > e => SameHeader(t, u, x)
      /\ u.hdr[e].size = t.hdr[e].size /\ u.hdr[e].free = t.hdr[e].free
  BY DEF SoundBut, Changed
<1>2. /\ b \in Spots /\ b \in Nat /\ e \in Spots /\ e \in Nat /\ e <= Last
      /\ Last \in Spots /\ Last \in Nat /\ Area < First /\ Area \in Nat
      /\ First \in Nat
  BY <1>1, HeadPlaces, SpotsArePlaces, Parameters
<1>3. b # Last /\ b # Area
  BY <1>1, <1>2
<1>4. \A x \in Spots : x \in Nat
  BY SpotsArePlaces
<1>5. UsedOf(t) \subseteq Spots /\ UsedOf(u) \subseteq Spots
  BY <1>2 DEF UsedOf, HeadsOf
<1>6. ASSUME NEW x \in Spots
      PROVE  x \in UsedOf(u) <=> IF x = b THEN ~u.hdr[b].free ELSE x \in UsedOf(t)
  <2>1. x \in HeadsOf(u) <=> IF b < x /\ x < e THEN x \in M ELSE x \in HeadsOf(t)
    BY DEF HeadsChanged
  <2>2. CASE x = b
    <3>1. x \in HeadsOf(u)
      BY <1>1, <1>2, <2>1, <2>2
    <3> QED
      BY <1>3, <2>2, <3>1 DEF UsedOf
  <2>3. CASE b < x /\ x < e
    BY <1>2, <2>1, <2>3 DEF UsedOf
  <2>4. CASE x < b \/ x >= e
    <3>1. u.hdr[x].free = t.hdr[x].free
      BY <1>1, <1>2, <1>4, <2>4 DEF SameHeader
    <3>2. x # b /\ (x \in HeadsOf(u) <=> x \in HeadsOf(t))
      BY <1>1, <1>2, <1>4, <2>1, <2>4
    <3> QED
      BY <3>1, <3>2 DEF UsedOf
  <2> QED
    BY <1>2, <1>4, <2>2, <2>3, <2>4
<1>7. ASSUME NEW x \in UsedOf(t), x # b PROVE u.hdr[x].size = t.hdr[x].size
  <2>1. x \in Spots /\ x \in Nat /\ ~(b < x /\ x < e)
    BY <1>4, <1>5
  <2> QED
    BY <1>1, <1>2, <1>7, <2>1 DEF SameHeader
<1> QED
  BY <1>2, <1>5, <1>6, <1>7 DEF UsedAfter

\* And the free ones.
LEMMA FreeChanged ==
  ASSUME NEW t, NEW u, NEW b, NEW e, NEW M \in SUBSET Spots,
         t \in Pool, Ends(t), Adjacent(t), Changed(t, u, b, e),
         \A x \in Spots : b <= x /\ x < e => (u.hdr[x].free <=> x \in M),
         \A x \in M : b <= x /\ x < e
  PROVE  FreeOf(u) = {x \in FreeOf(t) : ~(b <= x /\ x < e)} \cup M
<1>1. /\ b \in HeadsOf(t) /\ e \in HeadsOf(t) /\ b < e
      /\ \A x \in Spots : x < b \/ x > e => SameHeader(t, u, x)
      /\ u.hdr[e].free = t.hdr[e].free
  BY DEF Changed
<1>2. b \in Nat /\ e \in Nat /\ e \in Spots
  BY <1>1, HeadPlaces
<1>3. ASSUME NEW x \in Spots
      PROVE  u.hdr[x].free <=> IF b <= x /\ x < e THEN x \in M ELSE t.hdr[x].free
  <2>1. x \in Nat
    BY SpotsArePlaces
  <2> QED
    BY <1>1, <1>2, <2>1 DEF SameHeader
<1> QED
  BY <1>3 DEF FreeOf

-----------------------------------------------------------------------------
(* Merging and dividing.                                                   *)

LEMMA AbsorbEffect ==
  ASSUME NEW t \in Pool, NEW b \in Spots, NEW n \in Spots, b # n
  PROVE  LET u == Absorb(t, b, n) IN
         /\ u \in Pool /\ u.matrix = t.matrix /\ u.sl = t.sl /\ u.fl = t.fl
         /\ u.hdr[b].size = t.hdr[b].size + t.hdr[n].size + 2
         /\ u.hdr[b].free = t.hdr[b].free
         /\ u.hdr[b].prevFree = t.hdr[b].prevFree
         /\ u.hdr[b].prev_hdr = t.hdr[b].prev_hdr
         /\ u.hdr[b].prev = t.hdr[b].prev /\ u.hdr[b].next = t.hdr[b].next
         /\ u.hdr[n] = Dead
         /\ \A x \in Spots \ {b, n} : u.hdr[x] = t.hdr[x]
<1>1. t.hdr \in [Spots -> Block]
  BY PoolFields
<1>2. t.hdr[b].size + t.hdr[n].size + Overhead \in Nat
  BY HeaderFields DEF Overhead
<1>3. Dead \in Block
  BY DEF Dead, Block, Pointer
<1> DEFINE total == t.hdr[b].size + t.hdr[n].size + Overhead
           h == [t.hdr EXCEPT ![b].size = total, ![n] = Dead]
           u == [t EXCEPT !.hdr[b].size = total, !.hdr[n] = Dead]
<1>4. Absorb(t, b, n) = u
  BY Zenon DEF Absorb
<1> HIDE DEF total
<1>5. h \in [Spots -> Block]
  <2>1. \A g \in Block, k \in Nat : [g EXCEPT !.size = k] \in Block
    BY DEF Block
  <2>2. [t.hdr[b] EXCEPT !.size = total] \in Block
    BY <1>1, <1>2, <2>1 DEF total
  <2> QED
    BY <1>1, <1>3, <2>2
<1>6. u.hdr = h /\ u.matrix = t.matrix /\ u.sl = t.sl /\ u.fl = t.fl
  BY DEF Pool
<1>7. u \in Pool
  <2>1. \A g \in [Spots -> Block] : [t EXCEPT !.hdr = g] \in Pool
    BY DEF Pool
  <2>2. u = [t EXCEPT !.hdr = h]
    BY DEF Pool
  <2> QED
    BY <1>5, <2>1, <2>2
<1> QED
  BY <1>1, <1>3, <1>4, <1>6, <1>7 DEF total, Overhead, Block

\* A used block of the size, and a free one with the rest but its header.
DividedInto(t, u, b, c, e, size, rest) ==
    /\ u.matrix = t.matrix /\ u.sl = t.sl /\ u.fl = t.fl
    /\ u.hdr[b].size = size /\ ~u.hdr[b].free
    /\ u.hdr[b].prevFree = t.hdr[b].prevFree
    /\ u.hdr[b].prev_hdr = t.hdr[b].prev_hdr
    /\ u.hdr[b].prev = t.hdr[b].prev /\ u.hdr[b].next = t.hdr[b].next
    /\ u.hdr[c] = [Dead EXCEPT !.size = rest - 2, !.free = TRUE]
    /\ u.hdr[e] = [t.hdr[e] EXCEPT !.prev_hdr = c]
    /\ \A x \in Spots \ {b, c, e} : u.hdr[x] = t.hdr[x]

\* What Cut does before it puts the new block into its list.
LEMMA CutEffect ==
  ASSUME NEW t \in Pool, NEW b \in Spots, NEW c \in Spots, NEW e \in Spots,
         b # c, b # e, c # e, NEW size \in Nat, NEW rest \in Nat, rest >= 2,
         c = b + 2 + size
  PROVE  \E u \in Pool :
         /\ Cut(t, b, size, rest, e) = Insert(u, c)
         /\ DividedInto(t, u, b, c, e, size, rest)
<1>1. t.hdr \in [Spots -> Block]
  BY PoolFields
<1> DEFINE new == [Dead EXCEPT !.size = rest - 2, !.free = TRUE]
           h == [t.hdr EXCEPT ![b].size = size, ![b].free = FALSE,
                              ![c] = new, ![e].prev_hdr = c]
           u == [t EXCEPT !.hdr[b].size = size, !.hdr[b].free = FALSE,
                          !.hdr[c] = new, !.hdr[e].prev_hdr = c]
<1>2. Cut(t, b, size, rest, e) = Insert(u, c)
  <2>1. b + Overhead + size = c /\ rest - Overhead = rest - 2
    BY DEF Overhead
  <2> QED
    BY <2>1 DEF Cut
<1>3. new \in Block /\ c \in Pointer
  <2>1. Dead \in Block /\ c \in Pointer /\ rest - 2 \in Nat
    BY DEF Dead, Block, Pointer
  <2>2. \A g \in Block, k \in Nat : [g EXCEPT !.size = k, !.free = TRUE] \in Block
    BY DEF Block
  <2> QED
    BY <2>1, <2>2
<1>4. h \in [Spots -> Block]
  <2>1. \A g \in Block : /\ [g EXCEPT !.size = size] \in Block
                        /\ [g EXCEPT !.free = FALSE] \in Block
                        /\ [g EXCEPT !.prev_hdr = c] \in Block
    BY <1>3 DEF Block
  <2> DEFINE h1 == [t.hdr EXCEPT ![b].size = size]
             h2 == [h1 EXCEPT ![b].free = FALSE]
             h3 == [h2 EXCEPT ![c] = new]
  <2>2. h1 \in [Spots -> Block]
    BY <1>1, <2>1
  <2>3. h2 \in [Spots -> Block]
    <3> HIDE DEF h1
    <3> QED
      BY <2>1, <2>2
  <2>4. h3 \in [Spots -> Block]
    <3> HIDE DEF h2, new
    <3> QED
      BY <1>3, <2>3
  <2>5. [h3 EXCEPT ![e].prev_hdr = c] \in [Spots -> Block]
    <3> HIDE DEF h3
    <3> QED
      BY <1>3, <2>1, <2>4
  <2>6. h = [h3 EXCEPT ![e].prev_hdr = c]
    BY <1>1
  <2> QED
    BY <2>5, <2>6
<1>5. u.hdr = h /\ u.matrix = t.matrix /\ u.sl = t.sl /\ u.fl = t.fl
  <2> HIDE DEF new
  <2> QED
    BY DEF Pool
<1>6. u \in Pool
  <2>1. \A g \in [Spots -> Block] : [t EXCEPT !.hdr = g] \in Pool
    BY DEF Pool
  <2>2. u = [t EXCEPT !.hdr = h]
    <3> HIDE DEF new
    <3> QED
      BY DEF Pool
  <2> HIDE DEF h, u
  <2> QED
    BY <1>4, <2>1, <2>2
<1>7. /\ h[b].size = size /\ ~h[b].free
      /\ h[b].prevFree = t.hdr[b].prevFree /\ h[b].prev_hdr = t.hdr[b].prev_hdr
      /\ h[b].prev = t.hdr[b].prev /\ h[b].next = t.hdr[b].next
      /\ h[c] = new /\ h[e] = [t.hdr[e] EXCEPT !.prev_hdr = c]
      /\ \A x \in Spots \ {b, c, e} : h[x] = t.hdr[x]
  <2> HIDE DEF new
  <2> QED
    BY <1>1 DEF Block
<1> HIDE DEF h, u
<1>8. DividedInto(t, u, b, c, e, size, rest)
  BY <1>5, <1>7 DEF DividedInto
<1> QED
  BY <1>2, <1>6, <1>8

LEMMA NewHeaders ==
  ASSUME NEW t \in Pool, NEW h \in [Spots -> Block]
  PROVE  LET u == [t EXCEPT !.hdr = h]
         IN  /\ u \in Pool /\ u.hdr = h
             /\ u.matrix = t.matrix /\ u.sl = t.sl /\ u.fl = t.fl
  BY DEF Pool

\* Only one or two headers differ, and their links do not.
Retagged(t, u) ==
    /\ u \in Pool /\ u.matrix = t.matrix /\ u.sl = t.sl /\ u.fl = t.fl
    /\ \A x \in Spots : /\ u.hdr[x].prev = t.hdr[x].prev
                        /\ u.hdr[x].next = t.hdr[x].next

\* malloc_ex takes a block as it is.
LEMMA TakeEffect ==
  ASSUME NEW t \in Pool, NEW b \in Spots, NEW e \in Spots, b # e
  PROVE  LET u == [t EXCEPT !.hdr[e].prevFree = FALSE, !.hdr[b].free = FALSE] IN
         /\ Retagged(t, u)
         /\ u.hdr[b].size = t.hdr[b].size /\ ~u.hdr[b].free
         /\ u.hdr[b].prevFree = t.hdr[b].prevFree
         /\ u.hdr[b].prev_hdr = t.hdr[b].prev_hdr
         /\ u.hdr[e].size = t.hdr[e].size /\ u.hdr[e].free = t.hdr[e].free
         /\ ~u.hdr[e].prevFree /\ u.hdr[e].prev_hdr = t.hdr[e].prev_hdr
         /\ \A x \in Spots \ {b, e} : u.hdr[x] = t.hdr[x]
<1> DEFINE h == [t.hdr EXCEPT ![e] = [t.hdr[e] EXCEPT !.prevFree = FALSE],
                              ![b] = [t.hdr[b] EXCEPT !.free = FALSE]]
           u == [t EXCEPT !.hdr[e].prevFree = FALSE, !.hdr[b].free = FALSE]
<1>1. t.hdr \in [Spots -> Block]
  BY PoolFields
<1>2. u = [t EXCEPT !.hdr = h]
  BY <1>1 DEF Pool
<1>3. h \in [Spots -> Block]
  <2>1. \A g \in Block : /\ [g EXCEPT !.prevFree = FALSE] \in Block
                        /\ [g EXCEPT !.free = FALSE] \in Block
    BY DEF Block
  <2> QED
    BY <1>1, <2>1
<1>4. /\ h[b].size = t.hdr[b].size /\ ~h[b].free
      /\ h[b].prevFree = t.hdr[b].prevFree /\ h[b].prev_hdr = t.hdr[b].prev_hdr
      /\ h[e].size = t.hdr[e].size /\ h[e].free = t.hdr[e].free
      /\ ~h[e].prevFree /\ h[e].prev_hdr = t.hdr[e].prev_hdr
      /\ \A x \in Spots \ {b, e} : h[x] = t.hdr[x]
      /\ \A x \in Spots : h[x].prev = t.hdr[x].prev /\ h[x].next = t.hdr[x].next
  BY <1>1 DEF Block
<1> HIDE DEF h, u
<1>5. u \in Pool /\ u.hdr = h /\ u.matrix = t.matrix /\ u.sl = t.sl /\ u.fl = t.fl
  BY <1>2, <1>3, NewHeaders
<1>6. Retagged(t, u)
  BY <1>4, <1>5 DEF Retagged
<1> QED
  BY <1>4, <1>5, <1>6 DEF u

\* The block at e is told whether the one before it is free, and where it is.
Told(t, u, e, b, free) ==
    /\ Retagged(t, u)
    /\ u.hdr[e].size = t.hdr[e].size /\ u.hdr[e].free = t.hdr[e].free
    /\ u.hdr[e].prevFree = free /\ u.hdr[e].prev_hdr = b
    /\ \A x \in Spots \ {e} : u.hdr[x] = t.hdr[x]

LEMMA TellEffect ==
  ASSUME NEW t \in Pool, NEW e \in Spots, NEW b \in Pointer, NEW free \in BOOLEAN
  PROVE  /\ Told(t, [t EXCEPT !.hdr[e].prevFree = free], e, t.hdr[e].prev_hdr, free)
         /\ Told(t, [t EXCEPT !.hdr[e].prevFree = free, !.hdr[e].prev_hdr = b],
                 e, b, free)
         /\ Told(t, [t EXCEPT !.hdr[e].prev_hdr = b, !.hdr[e].prevFree = free],
                 e, b, free)
<1> DEFINE g1 == [t.hdr[e] EXCEPT !.prevFree = free]
           g2 == [t.hdr[e] EXCEPT !.prevFree = free, !.prev_hdr = b]
           h1 == [t.hdr EXCEPT ![e] = g1]
           h2 == [t.hdr EXCEPT ![e] = g2]
           u1 == [t EXCEPT !.hdr[e].prevFree = free]
           u2 == [t EXCEPT !.hdr[e].prevFree = free, !.hdr[e].prev_hdr = b]
           u3 == [t EXCEPT !.hdr[e].prev_hdr = b, !.hdr[e].prevFree = free]
<1>1. t.hdr \in [Spots -> Block] /\ t.hdr[e] \in Block
  BY PoolFields
<1>2. u1 = [t EXCEPT !.hdr = h1] /\ u2 = [t EXCEPT !.hdr = h2]
  BY <1>1 DEF Pool
<1>3. u3 = [t EXCEPT !.hdr = h2]
  <2>1. g2 = [t.hdr[e] EXCEPT !.prev_hdr = b, !.prevFree = free]
    BY <1>1 DEF Block
  <2> HIDE DEF g2
  <2> QED
    BY <1>1, <2>1 DEF Pool
<1>4. g1 \in Block /\ g2 \in Block
  BY <1>1 DEF Block
<1>5. /\ g1.size = t.hdr[e].size /\ g1.free = t.hdr[e].free /\ g1.prevFree = free
      /\ g1.prev_hdr = t.hdr[e].prev_hdr
      /\ g1.prev = t.hdr[e].prev /\ g1.next = t.hdr[e].next
      /\ g2.size = t.hdr[e].size /\ g2.free = t.hdr[e].free /\ g2.prevFree = free
      /\ g2.prev_hdr = b
      /\ g2.prev = t.hdr[e].prev /\ g2.next = t.hdr[e].next
  BY <1>1 DEF Block
<1> HIDE DEF g1, g2
<1>6. h1 \in [Spots -> Block] /\ h2 \in [Spots -> Block]
  BY <1>1, <1>4
<1>7. /\ h1[e] = g1 /\ h2[e] = g2
      /\ \A x \in Spots \ {e} : h1[x] = t.hdr[x] /\ h2[x] = t.hdr[x]
  BY <1>1
<1> HIDE DEF h1, h2, u1, u2, u3
<1>8. /\ u1 \in Pool /\ u1.hdr = h1
      /\ u1.matrix = t.matrix /\ u1.sl = t.sl /\ u1.fl = t.fl
      /\ u2 \in Pool /\ u2.hdr = h2
      /\ u2.matrix = t.matrix /\ u2.sl = t.sl /\ u2.fl = t.fl
      /\ u3 = u2
  BY <1>2, <1>3, <1>6, NewHeaders
<1>9. Retagged(t, u1) /\ Retagged(t, u2)
  BY <1>5, <1>7, <1>8 DEF Retagged
<1>10. /\ u1.hdr[e].size = t.hdr[e].size /\ u1.hdr[e].free = t.hdr[e].free
       /\ u1.hdr[e].prevFree = free /\ u1.hdr[e].prev_hdr = t.hdr[e].prev_hdr
       /\ \A x \in Spots \ {e} : u1.hdr[x] = t.hdr[x]
       /\ u2.hdr[e].size = t.hdr[e].size /\ u2.hdr[e].free = t.hdr[e].free
       /\ u2.hdr[e].prevFree = free /\ u2.hdr[e].prev_hdr = b
       /\ \A x \in Spots \ {e} : u2.hdr[x] = t.hdr[x]
  BY <1>5, <1>7, <1>8
<1>11. /\ Told(t, u1, e, t.hdr[e].prev_hdr, free)
       /\ Told(t, u2, e, b, free) /\ Told(t, u3, e, b, free)
  BY <1>8, <1>9, <1>10 DEF Told
<1> QED
  BY <1>11, Zenon DEF u1, u2, u3

\* A header is given up.
LEMMA EraseEffect ==
  ASSUME NEW t \in Pool, NEW x \in Spots
  PROVE  LET u == [t EXCEPT !.hdr[x] = Dead] IN
         /\ u \in Pool /\ u.matrix = t.matrix /\ u.sl = t.sl /\ u.fl = t.fl
         /\ u.hdr[x] = Dead
         /\ \A y \in Spots \ {x} : u.hdr[y] = t.hdr[y]
<1> DEFINE h == [t.hdr EXCEPT ![x] = Dead]
           u == [t EXCEPT !.hdr[x] = Dead]
<1>1. t.hdr \in [Spots -> Block] /\ Dead \in Block
  BY PoolFields DEF Dead, Block, Pointer
<1>2. u = [t EXCEPT !.hdr = h] /\ h \in [Spots -> Block]
  BY <1>1 DEF Pool
<1>3. h[x] = Dead /\ \A y \in Spots \ {x} : h[y] = t.hdr[y]
  BY <1>1
<1> HIDE DEF h, u
<1>4. u \in Pool /\ u.hdr = h /\ u.matrix = t.matrix /\ u.sl = t.sl /\ u.fl = t.fl
  BY <1>2, NewHeaders
<1> QED
  BY <1>3, <1>4 DEF u

\* free_ex marks the block it is given.
LEMMA ReleaseEffect ==
  ASSUME NEW t \in Pool, NEW b \in Spots
  PROVE  LET u == [t EXCEPT !.hdr[b].free = TRUE,
                            !.hdr[b].prev = NULL, !.hdr[b].next = NULL] IN
         /\ u \in Pool /\ u.matrix = t.matrix /\ u.sl = t.sl /\ u.fl = t.fl
         /\ u.hdr[b].size = t.hdr[b].size /\ u.hdr[b].free
         /\ u.hdr[b].prevFree = t.hdr[b].prevFree
         /\ u.hdr[b].prev_hdr = t.hdr[b].prev_hdr
         /\ u.hdr[b].prev = NULL /\ u.hdr[b].next = NULL
         /\ \A x \in Spots \ {b} : u.hdr[x] = t.hdr[x]
<1> DEFINE g == [t.hdr[b] EXCEPT !.free = TRUE, !.prev = NULL, !.next = NULL]
           h == [t.hdr EXCEPT ![b] = g]
           u == [t EXCEPT !.hdr[b].free = TRUE,
                          !.hdr[b].prev = NULL, !.hdr[b].next = NULL]
<1>1. t.hdr \in [Spots -> Block] /\ t.hdr[b] \in Block /\ NULL \in Pointer
  BY PoolFields DEF Pointer
<1>2. u = [t EXCEPT !.hdr = h]
  BY <1>1 DEF Pool
<1>3. /\ g \in Block
      /\ g.size = t.hdr[b].size /\ g.free /\ g.prevFree = t.hdr[b].prevFree
      /\ g.prev_hdr = t.hdr[b].prev_hdr /\ g.prev = NULL /\ g.next = NULL
  BY <1>1 DEF Block
<1> HIDE DEF g
<1>4. h \in [Spots -> Block] /\ h[b] = g /\ \A x \in Spots \ {b} : h[x] = t.hdr[x]
  BY <1>1, <1>3
<1> HIDE DEF h, u
<1>5. u \in Pool /\ u.hdr = h /\ u.matrix = t.matrix /\ u.sl = t.sl /\ u.fl = t.fl
  BY <1>2, <1>4, NewHeaders
<1> QED
  BY <1>3, <1>4, <1>5 DEF u

AfterCut(t, u, b, c, e, size, rest) ==
    /\ u \in Pool
    /\ u.hdr[b].size = size /\ ~u.hdr[b].free
    /\ u.hdr[b].prevFree = t.hdr[b].prevFree
    /\ u.hdr[b].prev_hdr = t.hdr[b].prev_hdr
    /\ u.hdr[c].size = rest - 2 /\ u.hdr[c].free /\ ~u.hdr[c].prevFree
    /\ u.hdr[e].size = t.hdr[e].size /\ u.hdr[e].free = t.hdr[e].free
    /\ u.hdr[e].prevFree = t.hdr[e].prevFree /\ u.hdr[e].prev_hdr = c
    /\ \A x \in Spots \ {b, c, e} : SameHeader(t, u, x)

\* Cut keeps the lists and lists the new block.
LEMMA CutStep ==
  ASSUME NEW t, NEW F, Lists(t, F), NEW b \in Spots, NEW c \in Spots, NEW e \in Spots,
         NEW size \in Nat, NEW rest \in Nat, First <= b, 2 <= size, 4 <= rest,
         c = b + 2 + size, e = c + rest, b \notin F, c \notin F
  PROVE  /\ Lists(Cut(t, b, size, rest, e), F \cup {c})
         /\ AfterCut(t, Cut(t, b, size, rest, e), b, c, e, size, rest)
<1> DEFINE v == Cut(t, b, size, rest, e)
<1>1. /\ t \in Pool /\ b \in Nat /\ c \in Nat /\ e \in Nat /\ e <= Last
      /\ b # c /\ b # e /\ c # e /\ F \subseteq Spots
      /\ First = 6 /\ Last = 8 + FirstSize /\ FirstSize \in Nat
  <2>1. t \in Pool /\ F \subseteq Spots
    BY DEF Lists
  <2>2. b \in Nat /\ c \in Nat /\ e \in Nat
    BY SpotsArePlaces
  <2>3. e <= Last
    BY SpotsArePlaces, Parameters DEF Spots
  <2> QED
    BY <2>1, <2>2, <2>3, SpotsArePlaces, Parameters
<1> HIDE DEF v
<1>2. PICK u \in Pool : v = Insert(u, c) /\ DividedInto(t, u, b, c, e, size, rest)
  <2>1. t \in Pool /\ b # c /\ b # e /\ c # e
    BY <1>1
  <2>2. rest >= 2
    OBVIOUS
  <2> QED
    BY <2>1, <2>2, CutEffect DEF v
<1>3. /\ u.matrix = t.matrix /\ u.sl = t.sl /\ u.fl = t.fl
      /\ u.hdr[b].size = size /\ ~u.hdr[b].free
      /\ u.hdr[b].prevFree = t.hdr[b].prevFree
      /\ u.hdr[b].prev_hdr = t.hdr[b].prev_hdr
      /\ u.hdr[b].prev = t.hdr[b].prev /\ u.hdr[b].next = t.hdr[b].next
      /\ u.hdr[c] = [Dead EXCEPT !.size = rest - 2, !.free = TRUE]
      /\ u.hdr[e] = [t.hdr[e] EXCEPT !.prev_hdr = c]
      /\ \A x \in Spots \ {b, c, e} : u.hdr[x] = t.hdr[x]
  BY <1>2 DEF DividedInto
<1>4. /\ u.hdr[c].size = rest - 2 /\ u.hdr[c].free /\ ~u.hdr[c].prevFree
      /\ u.hdr[c].prev = NULL /\ u.hdr[c].next = NULL
  BY <1>3 DEF Dead
<1>5. /\ u.hdr[e].size = t.hdr[e].size /\ u.hdr[e].free = t.hdr[e].free
      /\ u.hdr[e].prevFree = t.hdr[e].prevFree /\ u.hdr[e].prev_hdr = c
      /\ u.hdr[e].prev = t.hdr[e].prev /\ u.hdr[e].next = t.hdr[e].next
  <2>1. t.hdr[e] \in Block
    BY <1>1, HeaderFields
  <2> QED
    BY <1>3, <2>1 DEF Block
<1>6. t.hdr[c].prev = NULL /\ t.hdr[c].next = NULL
  BY DEF Lists, Unlinked
<1>7. Lists(u, F)
  <2>1. ASSUME NEW x \in Spots
        PROVE  u.hdr[x].prev = t.hdr[x].prev /\ u.hdr[x].next = t.hdr[x].next
    <3>1. CASE x \in {b, c, e}
      <4>1. u.hdr[b].prev = t.hdr[b].prev /\ u.hdr[b].next = t.hdr[b].next
        BY <1>3
      <4> QED
        BY <1>4, <1>5, <1>6, <3>1, <4>1
    <3>2. CASE x \notin {b, c, e}
      <4>1. u.hdr[x] = t.hdr[x]
        BY <1>3, <3>2
      <4> QED
        BY <4>1
    <3> QED
      BY <3>1, <3>2
  <2>2. \A x \in F : u.hdr[x].size = t.hdr[x].size
    BY <1>1, <1>3, <1>5
  <2> QED
    BY <1>3, <2>1, <2>2, SameLists
<1>8. ClassOf(u, c) \in Class
  <2>1. rest - 2 \in 0 .. FirstSize
    BY <1>1
  <2> QED
    BY <1>4, <2>1, ClassInMatrix DEF ClassOf
<1>9. Lists(v, F \cup {c}) /\ SameTags(u, v)
  BY <1>2, <1>7, <1>8, InsertLists
<1>10. v \in Pool
  BY <1>9 DEF Lists
<1>11. /\ v.hdr[b].size = size /\ ~v.hdr[b].free
       /\ v.hdr[b].prevFree = t.hdr[b].prevFree
       /\ v.hdr[b].prev_hdr = t.hdr[b].prev_hdr
       /\ v.hdr[c].size = rest - 2 /\ v.hdr[c].free /\ ~v.hdr[c].prevFree
       /\ v.hdr[e].size = t.hdr[e].size /\ v.hdr[e].free = t.hdr[e].free
       /\ v.hdr[e].prevFree = t.hdr[e].prevFree /\ v.hdr[e].prev_hdr = c
  <2>1. \A x \in {b, c, e} : SameHeader(u, v, x)
    BY <1>9 DEF SameTags, SameHeader
  <2>2. SameHeader(u, v, b) /\ SameHeader(u, v, c) /\ SameHeader(u, v, e)
    BY <2>1
  <2>3. /\ u.hdr[b].size = size /\ ~u.hdr[b].free
        /\ u.hdr[b].prevFree = t.hdr[b].prevFree
        /\ u.hdr[b].prev_hdr = t.hdr[b].prev_hdr
    BY <1>3
  <2> QED
    BY <1>4, <1>5, <2>2, <2>3 DEF SameHeader
<1>12. \A x \in Spots \ {b, c, e} : SameHeader(t, v, x)
  BY <1>3, <1>9 DEF SameTags, SameHeader
<1>13. AfterCut(t, v, b, c, e, size, rest)
  BY <1>10, <1>11, <1>12 DEF AfterCut
<1> QED
  BY <1>9, <1>13 DEF v

Good(t) == Sound(t) /\ Lists(t, FreeOf(t))

\* The blocks from b up to e, of which at most b is used, become a used block
\* and a free one.
LEMMA Divided ==
  ASSUME NEW t, Sound(t), NEW b, NEW c \in Spots, NEW e, NEW u, Changed(t, u, b, e),
         \A x \in UsedOf(t) : ~(b < x /\ x < e),
         NextBlock(u, b) = c, u.hdr[b].size >= 2, ~u.hdr[b].free,
         NextBlock(u, c) = e, u.hdr[c].size >= 2, u.hdr[c].free,
         ~u.hdr[c].prevFree,
         \A x \in Spots : b < x /\ x < e /\ x # c => NoTags(u.hdr[x]),
         u.hdr[e].prevFree, u.hdr[e].prev_hdr = c, ~u.hdr[e].free,
         NEW F, F = {x \in FreeOf(t) : ~(b <= x /\ x < e)} \cup {c}, Lists(u, F)
  PROVE  Good(u) /\ UsedAfter(t, u, b)
<1>1. /\ t \in Pool /\ u \in Pool /\ Ends(t) /\ Adjacent(t) /\ b \in HeadsOf(t)
      /\ e \in HeadsOf(t)
  BY DEF Sound, SoundBut, Changed
<1>2. b \in Spots /\ b \in Nat /\ e \in Spots /\ e \in Nat
  BY <1>1, HeadPlaces
<1>3. \A x \in Spots : x \in Nat /\ u.hdr[x].size \in Nat /\ u.hdr[x].prevFree \in BOOLEAN
                       /\ u.hdr[x].free \in BOOLEAN
  BY <1>1, SpotsArePlaces, HeaderFields
<1>4. b < c /\ c < e
  BY <1>2, <1>3 DEF NextBlock, Overhead
<1>5. Tagged(u, c)
  BY <1>2, <1>3 DEF Tagged
<1>6. Sound(u) /\ HeadsChanged(t, u, b, e, {c})
  BY <1>5, TwoBlocks DEF Sound
<1> DEFINE M == {c}
<1>7. FreeOf(u) = {x \in FreeOf(t) : ~(b <= x /\ x < e)} \cup M
  <2>1. \A x \in Spots : b <= x /\ x < e => (u.hdr[x].free <=> x \in M)
    BY <1>2, <1>3, <1>4 DEF NoTags
  <2>2. \A x \in M : b <= x /\ x < e
    BY <1>2, <1>3, <1>4
  <2>3. M \in SUBSET Spots
    OBVIOUS
  <2> HIDE DEF M
  <2> QED
    BY <1>1, <2>1, <2>2, <2>3, FreeChanged
<1>8. SoundBut(t, {b})
  BY DEF Sound, SoundBut
<1>9. UsedAfter(t, u, b)
  <2>1. \A x \in M : u.hdr[x].free
    OBVIOUS
  <2>2. HeadsChanged(t, u, b, e, M)
    BY <1>6
  <2> HIDE DEF M
  <2> QED
    BY <1>8, <2>1, <2>2, UsedChanged
<1> QED
  BY <1>6, <1>7, <1>9 DEF Good

\* In u one block, from b to e, stands for those of t from b to e, of which
\* those of S had wrong tags; the blocks of F are in the lists of u.
OneFor(t, u, b, e, S, F) ==
    /\ SoundBut(t, S) /\ Changed(t, u, b, e)
    /\ \A x \in S : b <= x /\ x < e
    /\ \A x \in UsedOf(t) : ~(b < x /\ x < e)
    /\ NextBlock(u, b) = e
    /\ \A x \in Spots : b < x /\ x < e => NoTags(u.hdr[x])
    /\ Tagged(u, b)
    /\ F = {x \in FreeOf(t) : ~(b <= x /\ x < e)}
              \cup (IF u.hdr[b].free THEN {b} ELSE {})
    /\ Lists(u, F)

\* They become one block.
LEMMA Whole ==
  ASSUME NEW t, NEW u, NEW b, NEW e, NEW S, NEW F, OneFor(t, u, b, e, S, F)
  PROVE  Good(u) /\ UsedAfter(t, u, b)
<1>a. /\ SoundBut(t, S) /\ Changed(t, u, b, e) /\ NextBlock(u, b) = e
      /\ \A x \in S : b <= x /\ x < e
      /\ \A x \in UsedOf(t) : ~(b < x /\ x < e)
      /\ \A x \in Spots : b < x /\ x < e => NoTags(u.hdr[x])
      /\ Tagged(u, b) /\ Lists(u, F)
      /\ F = {x \in FreeOf(t) : ~(b <= x /\ x < e)}
                \cup (IF u.hdr[b].free THEN {b} ELSE {})
  BY Zenon DEF OneFor
<1>1. /\ t \in Pool /\ u \in Pool /\ Ends(t) /\ Adjacent(t) /\ b \in HeadsOf(t)
      /\ e \in HeadsOf(t) /\ b < e
  BY <1>a DEF SoundBut, Changed
<1>2. b \in Spots /\ b \in Nat /\ e \in Spots /\ e \in Nat
  BY <1>1, HeadPlaces
<1>3. \A x \in Spots : x \in Nat
  BY SpotsArePlaces
<1>4. Sound(u) /\ HeadsChanged(t, u, b, e, {})
  BY <1>a, <1>2, <1>1, OneBlock
<1>5. FreeOf(u) = {x \in FreeOf(t) : ~(b <= x /\ x < e)}
                     \cup (IF u.hdr[b].free THEN {b} ELSE {})
  <2> DEFINE M == IF u.hdr[b].free THEN {b} ELSE {}
  <2>1. M \in SUBSET Spots
    BY <1>2
  <2>2. \A x \in Spots : b <= x /\ x < e => (u.hdr[x].free <=> x \in M)
    BY <1>a, <1>2, <1>3 DEF NoTags
  <2>3. \A x \in M : b <= x /\ x < e
    BY <1>1, <1>2
  <2> HIDE DEF M
  <2>4. FreeOf(u) = {x \in FreeOf(t) : ~(b <= x /\ x < e)} \cup M
    BY <1>a, <1>1, <2>1, <2>2, <2>3, FreeChanged
  <2> QED
    BY <2>4 DEF M
<1>6. UsedAfter(t, u, b)
  <2> DEFINE M == {}
  <2>1. HeadsChanged(t, u, b, e, M) /\ \A x \in M : u.hdr[x].free
    BY <1>4
  <2> HIDE DEF M
  <2> QED
    BY <1>a, <2>1, UsedChanged
<1> QED
  BY <1>a, <1>4, <1>5, <1>6 DEF Good

-----------------------------------------------------------------------------
(* The operations.                                                         *)

\* A list that has a block has a head.
LEMMA ListStarts ==
  ASSUME NEW t, NEW F, Lists(t, F), NEW x \in F
  PROVE  t.matrix[ClassOf(t, x)] # NULL
<1> DEFINE c == ClassOf(t, x)
<1>1. PICK rank \in [Spots -> Nat] :
         \A y \in F : t.hdr[y].next # NULL => rank[y] < rank[t.hdr[y].next]
  BY DEF Lists, Ranked
<1>2. F \subseteq Spots /\ NULL \notin Spots
  BY SpotsArePlaces DEF Lists
<1> DEFINE S == {rank[y] : y \in {z \in F : ClassOf(t, z) = c}}
<1>3. S \in SUBSET Nat /\ S # {}
  BY <1>1, <1>2
<1>4. PICK m \in S : \A n \in S : m <= n
  <2> HIDE DEF S
  <2> QED
    BY <1>3, Least
<1>5. PICK y \in F : ClassOf(t, y) = c /\ rank[y] = m
  BY <1>4
<1> DEFINE p == t.hdr[y].prev
<1>6. /\ p # NULL => p \in F /\ t.hdr[p].next = y /\ ClassOf(t, p) = ClassOf(t, y)
      /\ p = NULL => t.matrix[ClassOf(t, y)] = y
  BY Neighbours
<1>7. p = NULL
  <2> SUFFICES ASSUME p # NULL PROVE FALSE
    OBVIOUS
  <2>1. p \in F /\ t.hdr[p].next = y /\ ClassOf(t, p) = c
    BY <1>5, <1>6
  <2> HIDE DEF p
  <2>2. rank[p] < rank[y]
    BY <1>1, <1>2, <2>1
  <2>3. rank[p] \in S
    BY <2>1
  <2>4. rank[p] \in Nat /\ rank[y] \in Nat
    BY <1>1, <1>2, <2>1
  <2> QED
    BY <1>4, <1>5, <2>2, <2>3, <2>4
<1> QED
  BY <1>2, <1>5, <1>6, <1>7

\* What is and is not inside block b.
LEMMA Span ==
  ASSUME NEW t, NEW S, SoundBut(t, S), NEW b \in HeadsOf(t), b # Last, b # Area
  PROVE  LET e == NextBlock(t, b) IN
         /\ t \in Pool /\ b \in Spots /\ e \in Spots /\ e \in HeadsOf(t)
         /\ b \in Nat /\ e \in Nat /\ First <= b /\ b < e /\ e <= Last
         /\ t.hdr[b].size \in 2 .. FirstSize /\ e = b + 2 + t.hdr[b].size
         /\ \A x \in UsedOf(t) : ~(b < x /\ x < e)
         /\ {x \in FreeOf(t) : ~(b <= x /\ x < e)} = FreeOf(t) \ {b}
         /\ \A x \in Spots : b < x /\ x < e => NoTags(t.hdr[x])
         /\ \A x \in Spots : b < x /\ x < e => x \notin FreeOf(t)
<1> DEFINE e == NextBlock(t, b)
<1>1. t \in Pool /\ Ends(t) /\ Plain(t) /\ Adjacent(t)
  BY DEF SoundBut
<1>2. /\ b \in Spots /\ b \in Nat /\ First <= b /\ t.hdr[b].size \in Nat
      /\ t.hdr[b].size >= 2 /\ e = b + 2 + t.hdr[b].size
      /\ e \in HeadsOf(t) /\ e \in Spots /\ e \in Nat /\ e <= Last /\ b < e
  BY <1>1, HeadPlaces
<1>3. First = 6 /\ Last = 8 + FirstSize /\ FirstSize \in Nat
  BY SpotsArePlaces, Parameters
<1>4. t.hdr[b].size \in 2 .. FirstSize
  BY <1>2, <1>3
<1>5. \A x \in Spots : b < x /\ x < e => x \notin HeadsOf(t) /\ NoTags(t.hdr[x])
  BY <1>1, Inside
<1>6. \A x \in UsedOf(t) : x \in Spots /\ x \in HeadsOf(t)
  BY SpotsArePlaces DEF UsedOf, HeadsOf
<1>7. \A x \in FreeOf(t) : x \in Spots /\ x \in HeadsOf(t) /\ x \in Nat
  BY <1>1, FreeAreHeads, SpotsArePlaces
<1> HIDE DEF e
<1>8. \A x \in UsedOf(t) : ~(b < x /\ x < e)
  BY <1>5, <1>6
<1>9. {x \in FreeOf(t) : ~(b <= x /\ x < e)} = FreeOf(t) \ {b}
  <2>1. ASSUME NEW x \in FreeOf(t) PROVE ~(b <= x /\ x < e) <=> x # b
    BY <1>2, <1>5, <1>7
  <2> QED
    BY <2>1
<1>10. \A x \in Spots : b < x /\ x < e => x \notin FreeOf(t)
  BY <1>5, <1>7
<1> QED
  BY <1>1, <1>2, <1>4, <1>5, <1>8, <1>9, <1>10 DEF e

LEMMA RoundedRange ==
  ASSUME NEW n \in 0 .. (Pow2[29] - 1)
  PROVE  /\ Rounded(n) \in 1 .. Pow2[29] /\ Rounded(n) >= 2 /\ Rounded(n) >= n
         /\ Rounded(n) <= n + 2 /\ (n >= 2 => Rounded(n) <= n + 1)
<1>1. Pow2[29] \in Nat /\ Pow2[29] >= 2
  <2>1. Pow2[1] = 2
    <3>1. Pow2[0] = 1 /\ 0 + 1 = 1
      BY Pow2Def
    <3>2. Pow2[0 + 1] = 2 * Pow2[0]
      BY Pow2Next
    <3> QED
      BY <3>1, <3>2
  <2>2. Pow2[1] <= Pow2[29]
    BY Pow2Grows
  <2> QED
    BY <2>1, <2>2, Parameters
<1>2. CASE n < 2
  BY <1>1, <1>2 DEF Rounded, MinBlock
<1>3. CASE n >= 2
  <2>1. Rounded(n) = ((n + 1) \div 2) * 2
    BY <1>1, <1>3 DEF Rounded, MinBlock, RoundUp, Align
  <2> QED
    BY <1>1, <1>3, <2>1
<1> QED
  BY <1>1, <1>2, <1>3

\* Block b changes hands, and no other used block changes.
Taken(t, u, b) ==
    /\ Good(u) /\ UsedOf(u) = UsedOf(t) \cup {b}
    /\ \A x \in UsedOf(t) \ {b} : u.hdr[x].size = t.hdr[x].size

\* malloc_ex, once it has the block: all of it, or what it needs of it.
LEMMA TakeStep ==
  ASSUME NEW t, Good(t), NEW b \in FreeOf(t), NEW size \in Nat, 2 <= size,
         size <= t.hdr[b].size
  PROVE  LET u == Extract(t, b)
             next == NextBlock(t, b)
             rest == t.hdr[b].size - size
             v == IF rest >= Header THEN Cut(u, b, size, rest, next)
                  ELSE [u EXCEPT !.hdr[next].prevFree = FALSE, !.hdr[b].free = FALSE]
         IN  Taken(t, v, b) /\ v.hdr[b].size >= size
<1> DEFINE u == Extract(t, b)
           F == FreeOf(t)
           e == NextBlock(t, b)
           rest == t.hdr[b].size - size
           c == b + 2 + size
<1>1. /\ Sound(t) /\ SoundBut(t, {}) /\ SoundBut(t, {b}) /\ Lists(t, F)
      /\ t \in Pool /\ Ends(t) /\ Plain(t) /\ Adjacent(t)
  BY DEF Good, Sound, SoundBut
<1>2. b \in HeadsOf(t) /\ b # Area /\ b # Last /\ t.hdr[b].free
  BY <1>1, FreeAreHeads DEF FreeOf
<1>3. Tagged(t, b)
  BY <1>1, <1>2 DEF SoundBut
<1>4. /\ b \in Spots /\ e \in Spots /\ e \in HeadsOf(t)
      /\ b \in Nat /\ e \in Nat /\ First <= b /\ b < e /\ e <= Last
      /\ t.hdr[b].size \in 2 .. FirstSize /\ e = b + 2 + t.hdr[b].size
      /\ \A x \in UsedOf(t) : ~(b < x /\ x < e)
      /\ {x \in F : ~(b <= x /\ x < e)} = F \ {b}
      /\ \A x \in Spots : b < x /\ x < e => NoTags(t.hdr[x])
      /\ \A x \in Spots : b < x /\ x < e => x \notin F
  BY <1>1, <1>2, Span
<1>5. t.hdr[e].prevFree /\ t.hdr[e].prev_hdr = b /\ ~t.hdr[e].free
  BY <1>1, <1>2, <1>3, <1>4, HeaderFields DEF Tagged
<1>6. Lists(u, F \ {b}) /\ SameTags(t, u)
  BY <1>1, ExtractLists
<1>7. u \in Pool
  BY <1>6 DEF Lists
<1>8. \A x \in Spots : SameHeader(t, u, x)
  BY <1>6 DEF SameTags, SameHeader
<1>9. rest \in Nat /\ e = c + rest /\ rest = t.hdr[b].size - size
  BY <1>4, Parameters
<1> HIDE DEF u, e, F, rest
<1>10. CASE rest >= 4
  <2> DEFINE v == Cut(u, b, size, rest, e)
  <2>1. c \in Spots /\ c \in Nat /\ b < c /\ c < e
    <3>1. c \in Nat /\ b < c /\ c < e /\ c >= First /\ c <= Last
      BY <1>4, <1>9, <1>10, SpotsArePlaces, Parameters
    <3>2. First = 6 /\ Area = 2 /\ Last \in Nat
      BY SpotsArePlaces, Parameters
    <3> HIDE DEF c, First, Area, Last
    <3> QED
      BY <3>1, <3>2 DEF Spots
  <2>2. c \notin F
    BY <1>4, <2>1
  <2> HIDE DEF c, v
  <2>3. /\ Lists(v, (F \ {b}) \cup {c}) /\ v \in Pool
        /\ v.hdr[b].size = size /\ ~v.hdr[b].free
        /\ v.hdr[b].prevFree = u.hdr[b].prevFree
        /\ v.hdr[b].prev_hdr = u.hdr[b].prev_hdr
        /\ v.hdr[c].size = rest - 2 /\ v.hdr[c].free /\ ~v.hdr[c].prevFree
        /\ v.hdr[e].size = u.hdr[e].size /\ v.hdr[e].free = u.hdr[e].free
        /\ v.hdr[e].prevFree = u.hdr[e].prevFree /\ v.hdr[e].prev_hdr = c
        /\ \A x \in Spots \ {b, c, e} : SameHeader(u, v, x)
    <3> DEFINE G == F \ {b}
    <3>1. b \notin G /\ c \notin G /\ Lists(u, G)
      BY <1>6, <2>2
    <3>2. /\ b \in Spots /\ c \in Spots /\ e \in Spots /\ rest \in Nat
          /\ First <= b /\ 4 <= rest /\ c = b + 2 + size /\ e = c + rest
      BY <1>4, <1>9, <1>10, <2>1 DEF c
    <3> HIDE DEF G
    <3>3. Lists(v, G \cup {c}) /\ AfterCut(u, v, b, c, e, size, rest)
      BY <3>1, <3>2, CutStep DEF v
    <3> QED
      BY <3>3 DEF G, AfterCut
  <2>4. \A x \in Spots \ {b, c, e} : SameHeader(t, v, x)
    BY <1>8, <2>3 DEF SameHeader
  <2>5. /\ v.hdr[b].prevFree = t.hdr[b].prevFree
        /\ v.hdr[b].prev_hdr = t.hdr[b].prev_hdr
        /\ v.hdr[e].size = t.hdr[e].size /\ v.hdr[e].free = t.hdr[e].free
        /\ v.hdr[e].prevFree = t.hdr[e].prevFree
    BY <1>4, <1>8, <2>3 DEF SameHeader
  <2>6. Changed(t, v, b, e)
    <3>1. \A x \in Spots : x < b \/ x > e => x \in Spots \ {b, c, e}
      BY <1>4, <2>1, SpotsArePlaces
    <3>2. c # NULL
      BY <2>1, SpotsArePlaces
    <3> QED
      <4>1. b \in HeadsOf(t) /\ e \in HeadsOf(t) /\ First <= b /\ b < e
        BY <1>2, <1>4, Zenon
      <4> QED
        BY <2>3, <2>4, <2>5, <3>1, <3>2, <4>1 DEF Changed
  <2>7. NextBlock(v, b) = c /\ NextBlock(v, c) = e
    BY <1>4, <1>9, <1>10, <2>1, <2>3 DEF NextBlock, Overhead, c
  <2>8. \A x \in Spots : b < x /\ x < e /\ x # c => NoTags(v.hdr[x])
    <3>1. \A x \in Spots : b < x /\ x < e /\ x # c => x \in Spots \ {b, c, e}
      BY <1>4, SpotsArePlaces
    <3> QED
      BY <1>4, <2>4, <3>1 DEF SameHeader, NoTags
  <2>9. v.hdr[e].prevFree /\ v.hdr[e].prev_hdr = c /\ ~v.hdr[e].free
    BY <1>5, <2>3, <2>5
  <2>10. (F \ {b}) \cup {c} = {x \in FreeOf(t) : ~(b <= x /\ x < e)} \cup {c}
    BY <1>4 DEF F
  <2>11. v.hdr[b].size >= 2 /\ v.hdr[c].size >= 2 /\ v.hdr[b].size >= size
    BY <1>9, <1>10, <2>3
  <2>12. Taken(t, v, b)
    <3> DEFINE G == (F \ {b}) \cup {c}
    <3>1. G = {x \in FreeOf(t) : ~(b <= x /\ x < e)} \cup {c}
      BY <2>10
    <3>2. Lists(v, G)
      BY <2>3
    <3>3. \A x \in UsedOf(t) : ~(b < x /\ x < e)
      BY <1>4
    <3>4. Sound(t)
      BY <1>1
    <3>5. /\ NextBlock(v, b) = c /\ v.hdr[b].size >= 2 /\ ~v.hdr[b].free
          /\ NextBlock(v, c) = e /\ v.hdr[c].size >= 2 /\ v.hdr[c].free
          /\ ~v.hdr[c].prevFree /\ c \in Spots
      BY <2>1, <2>3, <2>7, <2>11
    <3> HIDE DEF G
    <3>6. Good(v) /\ UsedAfter(t, v, b)
      BY <2>6, <2>8, <2>9, <3>1, <3>2, <3>3, <3>4, <3>5, Divided
    <3> QED
      BY <3>5, <3>6 DEF Taken, UsedAfter
  <2> QED
    BY <1>10, <2>11, <2>12 DEF u, e, rest, v, Header
<1>11. CASE ~(rest >= 4)
  <2> DEFINE v == [u EXCEPT !.hdr[e].prevFree = FALSE, !.hdr[b].free = FALSE]
  <2>1. /\ Retagged(u, v)
        /\ v.hdr[b].size = u.hdr[b].size /\ ~v.hdr[b].free
        /\ v.hdr[b].prevFree = u.hdr[b].prevFree
        /\ v.hdr[b].prev_hdr = u.hdr[b].prev_hdr
        /\ v.hdr[e].size = u.hdr[e].size /\ v.hdr[e].free = u.hdr[e].free
        /\ ~v.hdr[e].prevFree /\ v.hdr[e].prev_hdr = u.hdr[e].prev_hdr
        /\ \A x \in Spots \ {b, e} : v.hdr[x] = u.hdr[x]
    <3>1. b \in Spots /\ e \in Spots /\ b # e
      BY <1>4
    <3> QED
      BY <1>7, <3>1, TakeEffect
  <2> HIDE DEF v
  <2>2. /\ v \in Pool /\ v.hdr[b].size = t.hdr[b].size
        /\ v.hdr[b].prevFree = t.hdr[b].prevFree
        /\ v.hdr[b].prev_hdr = t.hdr[b].prev_hdr
        /\ v.hdr[e].size = t.hdr[e].size /\ v.hdr[e].free = t.hdr[e].free
        /\ v.hdr[e].prev_hdr = t.hdr[e].prev_hdr
    BY <1>4, <1>8, <2>1 DEF SameHeader, Retagged
  <2>3. \A x \in Spots \ {b, e} : SameHeader(t, v, x)
    BY <1>8, <2>1 DEF SameHeader
  <2>4. Changed(t, v, b, e)
    <3>1. \A x \in Spots : x < b \/ x > e => x \in Spots \ {b, e}
      BY <1>4, SpotsArePlaces
    <3>2. b # NULL
      BY <1>4, SpotsArePlaces
    <3> QED
      <4>1. /\ b \in HeadsOf(t) /\ e \in HeadsOf(t) /\ First <= b /\ b < e
            /\ ~v.hdr[b].free
        BY <1>2, <1>4, <1>5, <2>1, Zenon
      <4> QED
        BY <1>5, <2>2, <2>3, <3>1, <3>2, <4>1 DEF Changed
  <2>5. NextBlock(v, b) = e
    BY <1>4, <2>2 DEF NextBlock, Overhead
  <2>6. \A x \in Spots : b < x /\ x < e => NoTags(v.hdr[x])
    <3>1. \A x \in Spots : b < x /\ x < e => x \in Spots \ {b, e}
      BY <1>4, SpotsArePlaces
    <3> QED
      BY <1>4, <2>3, <3>1 DEF SameHeader, NoTags
  <2>7. Tagged(v, b)
    <3>1. ~v.hdr[e].prevFree /\ ~v.hdr[b].free
      BY <2>1, Zenon
    <3>2. v.hdr[e].prevFree \in BOOLEAN /\ v.hdr[b].free \in BOOLEAN
      BY <1>4, <2>2, HeaderFields
    <3> QED
      BY <2>5, <3>1, <3>2 DEF Tagged
  <2>8. Lists(v, F \ {b})
    <3>1. /\ v \in Pool /\ v.matrix = u.matrix /\ v.sl = u.sl /\ v.fl = u.fl
          /\ \A x \in Spots : v.hdr[x].prev = u.hdr[x].prev /\ v.hdr[x].next = u.hdr[x].next
      BY <2>1 DEF Retagged
    <3>2. ASSUME NEW x \in F \ {b} PROVE v.hdr[x].size = u.hdr[x].size
      <4>1. x \in Spots
        BY DEF F, FreeOf
      <4> QED
        BY <2>1, <4>1
    <3> QED
      BY <1>6, <3>1, <3>2, SameLists
  <2>9. F \ {b} = {x \in FreeOf(t) : ~(b <= x /\ x < e)}
                    \cup (IF v.hdr[b].free THEN {b} ELSE {})
    BY <1>4, <2>1 DEF F
  <2>10. Taken(t, v, b)
    <3> DEFINE G == F \ {b}
    <3>1. Lists(v, G) /\ G = {x \in FreeOf(t) : ~(b <= x /\ x < e)}
                                \cup (IF v.hdr[b].free THEN {b} ELSE {})
      BY <2>8, <2>9
    <3>2. SoundBut(t, {}) /\ \A x \in UsedOf(t) : ~(b < x /\ x < e)
      BY <1>1, <1>4
    <3> HIDE DEF G
    <3>3. OneFor(t, v, b, e, {}, G)
      BY <2>4, <2>5, <2>6, <2>7, <3>1, <3>2 DEF OneFor
    <3>4. Good(v) /\ UsedAfter(t, v, b)
      BY <3>3, Whole, Zenon
    <3> QED
      BY <2>1, <3>4 DEF Taken, UsedAfter
  <2>11. v.hdr[b].size >= size
    BY <1>4, <2>2, Parameters
  <2> QED
    BY <1>11, <2>10, <2>11 DEF u, e, rest, v, Header
<1> QED
  BY <1>9, <1>10, <1>11

\* malloc_ex finds a block if there is one large enough for the class that is
\* searched, takes it, and leaves all other blocks alone.
Got(t, got, size) ==
    /\ got.ptr = NULL => /\ got.tlsf = t
                         /\ \A x \in FreeOf(t) : t.hdr[x].size < size
    /\ got.ptr # NULL => LET b == got.ptr - Overhead IN
                         /\ b \in FreeOf(t) /\ got.ptr \in Pointer
                         /\ t.hdr[b].size >= size /\ got.tlsf.hdr[b].size >= size
                         /\ Taken(t, got.tlsf, b)

LEMMA MallocStep ==
  ASSUME NEW t, Good(t), NEW n \in 0 .. (Pow2[29] - 1)
  PROVE  LET s == MappingSearch(Rounded(n)) IN
         /\ Got(t, MallocEx(t, n), s.size)
         /\ s.size \in Nat /\ s.size >= Rounded(n)
<1> DEFINE F == FreeOf(t)
           s == MappingSearch(Rounded(n))
           found == Suitable(t, s.class)
           got == MallocEx(t, n)
<1>1. /\ Sound(t) /\ SoundBut(t, {}) /\ Lists(t, F)
      /\ t \in Pool /\ Ends(t) /\ Plain(t) /\ Adjacent(t)
  BY DEF Good, Sound, SoundBut
<1>2. Linked(t, F) /\ Headed(t, F) /\ Mapped(t)
  BY <1>1 DEF Lists
<1>3. Rounded(n) \in 1 .. Pow2[29] /\ Rounded(n) >= 2
  BY RoundedRange
<1>4. /\ s.size \in Nat /\ s.size >= Rounded(n) /\ s.class \in Nat \X Nat
      /\ \A z \in Nat : z < Pow2[30] =>
            (Reaches(MappingInsert(z), s.class) <=> z >= s.size)
  BY <1>3, Search
<1> HIDE DEF s
<1>5. ASSUME NEW x \in F
      PROVE  /\ Reaches(ClassOf(t, x), s.class) <=> t.hdr[x].size >= s.size
             /\ t.hdr[x].size \in Nat
  <2>1. x \in HeadsOf(t) /\ x # Area /\ x # Last
    BY <1>1, FreeAreHeads
  <2>2. t.hdr[x].size \in 2 .. FirstSize
    BY <1>1, <2>1, Span
  <2>3. t.hdr[x].size \in Nat /\ t.hdr[x].size < Pow2[30]
    <3>1. Levels - 1 + Log2Sli \in 0 .. 30
      BY Parameters
    <3>2. /\ Pow2[Levels - 1 + Log2Sli] <= Pow2[30]
          /\ Pow2[Levels - 1 + Log2Sli] \in Nat /\ Pow2[30] \in Nat
      BY <3>1, Pow2Grows, Pow2Positive
    <3> QED
      BY <2>2, <3>2, Parameters
  <2> QED
    BY <1>4, <2>3 DEF ClassOf
<1>6. /\ \A c \in found : c \in Class /\ t.matrix[c] # NULL /\ Reaches(c, s.class)
      /\ found = {} => \A c \in Class : t.matrix[c] # NULL => ~Reaches(c, s.class)
  BY <1>2, <1>4, SuitableReaches
<1> HIDE DEF found
<1>7. CASE found = {}
  <2>1. got = [tlsf |-> t, ptr |-> NULL]
    BY <1>7, Zenon DEF MallocEx, found, s
  <2>2. ASSUME NEW x \in F PROVE t.hdr[x].size < s.size
    <3>1. ClassOf(t, x) \in Class
      BY <1>2 DEF Linked
    <3>2. t.matrix[ClassOf(t, x)] # NULL
      BY <1>1, ListStarts
    <3>3. ~Reaches(ClassOf(t, x), s.class)
      BY <1>6, <1>7, <3>1, <3>2
    <3> QED
      BY <1>4, <1>5, <3>3
  <2>3. got.tlsf = t /\ got.ptr = NULL
    BY <2>1
  <2> HIDE DEF got
  <2>4. Got(t, got, s.size)
    BY <2>2, <2>3 DEF Got
  <2> QED
    BY <1>4, <2>4 DEF s, got
<1>8. CASE found # {}
  <2> DEFINE c == CHOOSE d \in found : TRUE
             b == t.matrix[c]
             u == ExtractHead(t, c)
             next == NextBlock(t, b)
             rest == t.hdr[b].size - s.size
             v == IF rest >= Header THEN Cut(u, b, s.size, rest, next)
                  ELSE [u EXCEPT !.hdr[next].prevFree = FALSE,
                                 !.hdr[b].free = FALSE]
  <2>1. c \in found
    BY <1>8
  <2>2. got = [tlsf |-> v, ptr |-> b + Overhead]
    BY <1>8, Zenon DEF MallocEx, found, s
  <2>3. c \in Class /\ b # NULL /\ Reaches(c, s.class)
    BY <1>6, <2>1
  <2> HIDE DEF c
  <2>4. b \in F /\ ClassOf(t, b) = c
    BY <1>2, <2>3 DEF Headed
  <2>5. t.hdr[b].size >= s.size /\ t.hdr[b].size \in Nat
    BY <1>4, <1>5, <2>3, <2>4
  <2>6. u = Extract(t, b)
    BY <1>1, <2>3, HeadIsExtract
  <2> HIDE DEF b
  <2>7. Taken(t, v, b) /\ v.hdr[b].size >= s.size
    <3>1. 2 <= s.size /\ s.size <= t.hdr[b].size /\ s.size \in Nat
      BY <1>3, <1>4, <2>5
    <3> QED
      BY <2>4, <2>6, <3>1, TakeStep
  <2>8. b \in HeadsOf(t) /\ b # Area /\ b # Last
    BY <1>1, <2>4, FreeAreHeads
  <2>9. /\ b \in Nat /\ NextBlock(t, b) \in Nat /\ NextBlock(t, b) <= Last
        /\ First <= b /\ NextBlock(t, b) = b + 2 + t.hdr[b].size
    BY <1>1, <2>8, Span
  <2>10. b + Overhead \in Pointer /\ b + Overhead # NULL /\ b + Overhead - Overhead = b
    <3>1. b + 2 \in 2 .. Last
      BY <2>5, <2>9, SpotsArePlaces
    <3> QED
      BY <2>9, <3>1, SpotsArePlaces DEF Overhead, Pointer, Spots
  <2> HIDE DEF v
  <2>11. got.tlsf = v /\ got.ptr = b + Overhead
    BY <2>2
  <2> HIDE DEF got
  <2>12. got.ptr # NULL /\ got.ptr \in Pointer /\ got.ptr - Overhead = b
    BY <2>9, <2>10, <2>11 DEF Overhead
  <2>13. Taken(t, got.tlsf, b) /\ got.tlsf.hdr[b].size >= s.size
    BY <2>7, <2>11
  <2>14. Got(t, got, s.size)
    BY <2>4, <2>5, <2>12, <2>13 DEF Got
  <2> QED
    BY <1>4, <2>14 DEF s, got
<1> QED
  BY <1>7, <1>8

-----------------------------------------------------------------------------
(* free.                                                                   *)

\* v is u with one block from b up to e.
Merged(u, v, b, e) ==
    /\ v \in Pool /\ NextBlock(v, b) = e /\ v.hdr[b].size >= 2
    /\ v.hdr[b].free = u.hdr[b].free /\ v.hdr[b].prevFree = u.hdr[b].prevFree
    /\ v.hdr[b].prev_hdr = u.hdr[b].prev_hdr
    /\ \A x \in Spots : b < x /\ x < e => NoTags(v.hdr[x])
    /\ \A x \in Spots : x < b \/ x >= e => SameHeader(u, v, x)

\* One of two adjacent blocks leaves its list and they become one.
LEMMA MergeStep ==
  ASSUME NEW u, NEW F, Lists(u, F), NEW k \in F, NEW b \in Spots, NEW n \in Spots,
         NEW e \in Spots, k = b \/ k = n, b \in F => k = b, n \in F => k = n,
         NextBlock(u, b) = n, NextBlock(u, n) = e, b < n, n < e,
         \A x \in Spots : b < x /\ x < e /\ x # n => NoTags(u.hdr[x])
  PROVE  LET v == Absorb(Extract(u, k), b, n)
         IN  Lists(v, F \ {k}) /\ Merged(u, v, b, e)
<1> DEFINE w == Extract(u, k)
           v == Absorb(w, b, n)
           G == F \ {k}
<1>1. Lists(w, G) /\ SameTags(u, w)
  BY ExtractLists
<1>2. w \in Pool /\ u \in Pool /\ Unlinked(w, G) /\ b \notin G /\ n \notin G
  BY <1>1 DEF Lists
<1>3. /\ b \in Nat /\ n \in Nat /\ e \in Nat /\ b # n
      /\ \A x \in Spots : x \in Nat
  BY SpotsArePlaces
<1>4. /\ u.hdr[b].size \in Nat /\ u.hdr[n].size \in Nat
      /\ n = b + 2 + u.hdr[b].size /\ e = n + 2 + u.hdr[n].size
  BY <1>2, HeaderFields DEF NextBlock, Overhead
<1>5. \A x \in Spots : SameHeader(u, w, x)
  BY <1>1 DEF SameTags, SameHeader
<1> HIDE DEF w, G
<1>6. /\ v \in Pool /\ v.matrix = w.matrix /\ v.sl = w.sl /\ v.fl = w.fl
      /\ v.hdr[b].size = w.hdr[b].size + w.hdr[n].size + 2
      /\ v.hdr[b].free = w.hdr[b].free
      /\ v.hdr[b].prevFree = w.hdr[b].prevFree
      /\ v.hdr[b].prev_hdr = w.hdr[b].prev_hdr
      /\ v.hdr[b].prev = w.hdr[b].prev /\ v.hdr[b].next = w.hdr[b].next
      /\ v.hdr[n] = Dead
      /\ \A x \in Spots \ {b, n} : v.hdr[x] = w.hdr[x]
  BY <1>2, <1>3, AbsorbEffect
<1> HIDE DEF v
<1>7. Lists(v, G)
  <2>1. ASSUME NEW x \in Spots
        PROVE  v.hdr[x].prev = w.hdr[x].prev /\ v.hdr[x].next = w.hdr[x].next
    <3>1. CASE x = n
      <4>1. w.hdr[n].prev = NULL /\ w.hdr[n].next = NULL
        BY <1>2 DEF Unlinked
      <4> QED
        BY <1>6, <3>1, <4>1 DEF Dead
    <3> QED
      BY <1>6, <3>1
  <2>2. ASSUME NEW x \in G PROVE v.hdr[x].size = w.hdr[x].size
    <3>1. x \in Spots \ {b, n}
      BY <1>1, <1>2 DEF Lists
    <3> QED
      BY <1>6, <3>1
  <2> QED
    BY <1>1, <1>6, <2>1, <2>2, SameLists
<1>8. NextBlock(v, b) = e /\ v.hdr[b].size >= 2
  <2>1. w.hdr[b].size = u.hdr[b].size /\ w.hdr[n].size = u.hdr[n].size
    BY <1>5 DEF SameHeader
  <2> QED
    <3>1. v.hdr[b].size = w.hdr[b].size + w.hdr[n].size + 2
      BY <1>6, Zenon
    <3>2. v.hdr[b].size = u.hdr[b].size + u.hdr[n].size + 2
      BY <2>1, <3>1
    <3>3. /\ b \in Nat /\ u.hdr[b].size \in Nat /\ u.hdr[n].size \in Nat
          /\ n = b + 2 + u.hdr[b].size /\ e = n + 2 + u.hdr[n].size
      BY <1>3, <1>4, Zenon
    <3>4. e = b + 2 + v.hdr[b].size /\ v.hdr[b].size >= 2
      BY <3>2, <3>3
    <3> QED
      BY <3>4 DEF NextBlock, Overhead
<1>9. ASSUME NEW x \in Spots, b < x, x < e PROVE NoTags(v.hdr[x])
  <2>1. CASE x = n
    BY <1>6, <2>1 DEF Dead, NoTags
  <2>2. CASE x # n
    <3>1. x \in Spots \ {b, n} /\ NoTags(u.hdr[x])
      BY <1>3, <1>9, <2>2
    <3> QED
      BY <1>5, <1>6, <3>1 DEF SameHeader, NoTags
  <2> QED
    BY <2>1, <2>2
<1>10. ASSUME NEW x \in Spots, x < b \/ x >= e PROVE SameHeader(u, v, x)
  <2>1. x \in Spots \ {b, n}
    BY <1>3, <1>10
  <2> QED
    BY <1>5, <1>6, <2>1 DEF SameHeader
<1>11. /\ v.hdr[b].free = u.hdr[b].free /\ v.hdr[b].prevFree = u.hdr[b].prevFree
       /\ v.hdr[b].prev_hdr = u.hdr[b].prev_hdr
  BY <1>5, <1>6 DEF SameHeader
<1>12. Merged(u, v, b, e)
  BY <1>6, <1>8, <1>9, <1>10, <1>11 DEF Merged
<1> QED
  BY <1>7, <1>12 DEF v, w, G

\* Block b is free but not yet in a list, and neither it nor the one before it
\* has been told.
Marked(t, u, b) ==
    LET m == IF t.hdr[b].prevFree THEN t.hdr[b].prev_hdr ELSE b IN
    /\ u \in Pool /\ Lists(u, FreeOf(t)) /\ SoundBut(u, {b, m})
    /\ FreeOf(u) = FreeOf(t) \cup {b} /\ UsedOf(u) = UsedOf(t) \ {b}
    /\ u.hdr[b].free
    /\ \A x \in Spots : u.hdr[x].size = t.hdr[x].size
    /\ \A x \in Spots : u.hdr[x].prevFree = t.hdr[x].prevFree
    /\ \A x \in Spots : u.hdr[x].prev_hdr = t.hdr[x].prev_hdr
    /\ \A x \in Spots \ {b} : u.hdr[x].free = t.hdr[x].free

LEMMA MarkStep ==
  ASSUME NEW t, NEW b \in UsedOf(t), SoundBut(t, {b}), Lists(t, FreeOf(t))
  PROVE  Marked(t, [t EXCEPT !.hdr[b].free = TRUE,
                             !.hdr[b].prev = NULL, !.hdr[b].next = NULL], b)
<1> DEFINE u == [t EXCEPT !.hdr[b].free = TRUE,
                          !.hdr[b].prev = NULL, !.hdr[b].next = NULL]
           m == IF t.hdr[b].prevFree THEN t.hdr[b].prev_hdr ELSE b
           F == FreeOf(t)
<1>1. /\ t \in Pool /\ Ends(t) /\ Plain(t) /\ Adjacent(t)
      /\ b \in HeadsOf(t) /\ b # Area /\ b # Last /\ ~t.hdr[b].free
  BY DEF SoundBut, UsedOf
<1>2. b \in Spots /\ Last \in Spots /\ Area \in Spots /\ First \in Spots
  BY <1>1, HeadPlaces, SpotsArePlaces
<1>3. /\ u \in Pool /\ u.matrix = t.matrix /\ u.sl = t.sl /\ u.fl = t.fl
      /\ u.hdr[b].size = t.hdr[b].size /\ u.hdr[b].free
      /\ u.hdr[b].prevFree = t.hdr[b].prevFree
      /\ u.hdr[b].prev_hdr = t.hdr[b].prev_hdr
      /\ u.hdr[b].prev = NULL /\ u.hdr[b].next = NULL
      /\ \A x \in Spots \ {b} : u.hdr[x] = t.hdr[x]
  BY <1>1, <1>2, ReleaseEffect
<1> HIDE DEF u
<1>4. /\ \A x \in Spots : u.hdr[x].size = t.hdr[x].size
      /\ \A x \in Spots : u.hdr[x].prevFree = t.hdr[x].prevFree
      /\ \A x \in Spots : u.hdr[x].prev_hdr = t.hdr[x].prev_hdr
      /\ \A x \in Spots \ {b} : u.hdr[x].free = t.hdr[x].free
  BY <1>3
<1>5. Lists(u, F)
  <2>1. b \notin F
    BY <1>1 DEF FreeOf
  <2>2. t.hdr[b].prev = NULL /\ t.hdr[b].next = NULL
    BY <1>2, <2>1 DEF Lists, Unlinked, F
  <2>3. \A x \in Spots : u.hdr[x].prev = t.hdr[x].prev /\ u.hdr[x].next = t.hdr[x].next
    BY <1>3, <2>2
  <2>4. \A x \in F : u.hdr[x].size = t.hdr[x].size
    BY <1>4 DEF FreeOf
  <2> HIDE DEF F
  <2>5. Lists(t, F)
    BY DEF F
  <2> QED
    BY <1>3, <2>3, <2>4, <2>5, SameLists
<1>6. FreeOf(u) = F \cup {b}
  BY <1>2, <1>3 DEF FreeOf
<1>7. HeadsOf(u) = HeadsOf(t) /\ \A x \in Spots : NextBlock(u, x) = NextBlock(t, x)
  BY <1>4 DEF HeadsOf, NextBlock
<1>8. UsedOf(u) = UsedOf(t) \ {b}
  <2>1. HeadsOf(t) \subseteq Spots
    BY <1>2 DEF HeadsOf
  <2> QED
    BY <1>3, <1>4, <1>7, <2>1 DEF UsedOf
<1>9. SoundBut(u, {b, m})
  <2>1. Ends(u)
    BY <1>1, <1>2, <1>3, <1>4 DEF Ends
  <2>2. Plain(u)
    <3> SUFFICES ASSUME NEW x \in Spots, x # Last
                 PROVE  NoTags(u.hdr[x]) \/ u.hdr[x].size >= MinBlock
      BY DEF Plain
    <3>1. CASE x = b
      BY <1>1, <1>4, <3>1 DEF HeadsOf
    <3>2. CASE x # b
      BY <1>1, <1>3, <3>2 DEF Plain
    <3> QED
      BY <3>1, <3>2
  <2>3. Adjacent(u)
    <3>1. HeadsOf(t) \subseteq Spots
      BY <1>2 DEF HeadsOf
    <3> QED
      BY <1>1, <1>7, <3>1 DEF Adjacent
  <2>4. ASSUME NEW x \in HeadsOf(t), x # Last, x # b, x # m PROVE Tagged(u, x)
    <3> DEFINE n == NextBlock(t, x)
    <3>1. Tagged(t, x) /\ x \in Spots /\ n \in Spots /\ NextBlock(u, x) = n
      BY <1>1, <1>7, <2>4, HeadPlaces DEF SoundBut
    <3>2. u.hdr[x].free = t.hdr[x].free
      BY <1>4, <2>4, <3>1
    <3>3. n = b => ~t.hdr[x].free
      <4> SUFFICES ASSUME n = b, t.hdr[x].free PROVE FALSE
        OBVIOUS
      <4>1. t.hdr[b].prev_hdr = x /\ t.hdr[b].prevFree = t.hdr[x].free
        BY <3>1 DEF Tagged
      <4>2. t.hdr[b].prevFree
        BY <4>1
      <4> QED
        BY <2>4, <4>1, <4>2
    <3> QED
      BY <1>4, <3>1, <3>2, <3>3 DEF Tagged
  <2> QED
    BY <1>3, <1>7, <2>1, <2>2, <2>3, <2>4 DEF SoundBut
<1> HIDE DEF m
<1>10. Marked(t, u, b)
  BY <1>3, <1>4, <1>5, <1>6, <1>8, <1>9 DEF Marked, m, F
<1> QED
  BY <1>10 DEF u

\* Block b reaches up to e, where a used block is, and is all there is.
Joined(t, u, v, b, e) ==
    /\ e \in HeadsOf(t) /\ b < e /\ e <= Last /\ ~t.hdr[e].free
    /\ \A x \in UsedOf(t) : ~(b < x /\ x < e)
    /\ Merged(u, v, b, e)
    /\ Lists(v, {x \in FreeOf(t) : ~(b <= x /\ x < e)})

\* free_ex joins the block with the next one, if that is free.
LEMMA JoinNext ==
  ASSUME NEW t, NEW b \in UsedOf(t), SoundBut(t, {b}), NEW u, Marked(t, u, b)
  PROVE  LET n == NextBlock(u, b)
             e == IF u.hdr[n].free THEN NextBlock(u, n) ELSE n
         IN  Joined(t, u, IF u.hdr[n].free THEN Absorb(Extract(u, n), b, n) ELSE u, b, e)
<1> DEFINE n == NextBlock(u, b)
           F == FreeOf(t)
<1>1. /\ t \in Pool /\ Ends(t) /\ Plain(t) /\ Adjacent(t)
      /\ b \in HeadsOf(t) /\ b # Area /\ b # Last /\ ~t.hdr[b].free /\ b \notin F
  BY DEF SoundBut, UsedOf, FreeOf
<1>2. /\ u \in Pool /\ Lists(u, F) /\ u.hdr[b].free
      /\ \A x \in Spots : u.hdr[x].size = t.hdr[x].size
      /\ \A x \in Spots : u.hdr[x].prevFree = t.hdr[x].prevFree
      /\ \A x \in Spots : u.hdr[x].prev_hdr = t.hdr[x].prev_hdr
      /\ \A x \in Spots \ {b} : u.hdr[x].free = t.hdr[x].free
  BY Zenon DEF Marked
<1>3. \A x \in Spots : NextBlock(u, x) = NextBlock(t, x)
  BY <1>2 DEF NextBlock
<1>4. \A x \in Spots : x \in Nat
  BY SpotsArePlaces
<1>5. /\ b \in Spots /\ n \in Spots /\ n \in HeadsOf(t)
      /\ b \in Nat /\ n \in Nat /\ First <= b /\ b < n /\ n <= Last
      /\ n = NextBlock(t, b) /\ t.hdr[b].size >= 2
      /\ \A x \in UsedOf(t) : ~(b < x /\ x < n)
      /\ \A x \in Spots : b < x /\ x < n => NoTags(t.hdr[x])
      /\ \A x \in Spots : b < x /\ x < n => x \notin F
  <2>1. b \in Spots
    BY <1>1, HeadPlaces
  <2>2. n = NextBlock(t, b)
    BY <1>3, <2>1
  <2> QED
    BY <1>1, <2>2, Span
<1> HIDE DEF n, F
<1>6. \A x \in Spots : x # b => SameHeader(t, u, x)
  BY <1>2 DEF SameHeader
<1>7. CASE ~u.hdr[n].free
  <2>1. Merged(u, u, b, n)
    <3>1. NextBlock(u, b) = n /\ u.hdr[b].size >= 2
      BY <1>2, <1>3, <1>5
    <3>2. \A x \in Spots : b < x /\ x < n => NoTags(u.hdr[x])
      <4> SUFFICES ASSUME NEW x \in Spots, b < x, x < n PROVE NoTags(u.hdr[x])
        OBVIOUS
      <4>1. x # b /\ NoTags(t.hdr[x])
        BY <1>5
      <4> QED
        BY <1>6, <4>1 DEF SameHeader, NoTags
    <3>3. \A x \in Spots : SameHeader(u, u, x)
      BY DEF SameHeader
    <3> QED
      BY <1>2, <3>1, <3>2, <3>3 DEF Merged
  <2>2. F = {x \in F : ~(b <= x /\ x < n)}
    <3>1. F \subseteq Spots
      BY DEF F, FreeOf
    <3>2. \A x \in F : ~(b <= x /\ x < n)
      BY <1>1, <1>4, <1>5, <3>1
    <3> QED
      BY <3>2
  <2> DEFINE G == {x \in F : ~(b <= x /\ x < n)}
  <2>3. Lists(u, G)
    BY <1>2, <2>2
  <2>4. ~t.hdr[n].free
    BY <1>2, <1>5, <1>7
  <2>5. Joined(t, u, u, b, n)
    BY <1>5, <2>1, <2>3, <2>4 DEF Joined, F
  <2> QED
    BY <1>7, <2>5 DEF n
<1>8. CASE u.hdr[n].free
  <2> DEFINE e == NextBlock(u, n)
             v == Absorb(Extract(u, n), b, n)
  <2>1. n \in F /\ t.hdr[n].free
    BY <1>2, <1>5, <1>8 DEF F, FreeOf
  <2>2. n # Area /\ n # Last
    BY <1>1, <2>1, FreeAreHeads DEF F
  <2>3. /\ e \in Spots /\ e \in HeadsOf(t) /\ e \in Nat /\ n < e /\ e <= Last
        /\ e = NextBlock(t, n)
        /\ \A x \in UsedOf(t) : ~(n < x /\ x < e)
        /\ \A x \in Spots : n < x /\ x < e => NoTags(t.hdr[x])
        /\ \A x \in Spots : n < x /\ x < e => x \notin F
    <3>1. e = NextBlock(t, n)
      BY <1>3, <1>5
    <3> QED
      BY <1>5, <2>2, <3>1, Span DEF F
  <2>4. ~t.hdr[e].free
    <3>1. Tagged(t, n)
      BY <1>5, <2>2 DEF SoundBut
    <3> QED
      BY <2>1, <2>3, <3>1 DEF Tagged
  <2>5. NextBlock(u, n) = e /\ NextBlock(u, b) = n
    BY DEF n
  <2> HIDE DEF e
  <2>6. \A x \in Spots : b < x /\ x < e /\ x # n => NoTags(u.hdr[x])
    <3> SUFFICES ASSUME NEW x \in Spots, b < x, x < e, x # n PROVE NoTags(u.hdr[x])
      OBVIOUS
    <3>1. x # b /\ NoTags(t.hdr[x])
      BY <1>4, <1>5, <2>3
    <3> QED
      BY <1>6, <3>1 DEF SameHeader, NoTags
  <2>7. Lists(v, F \ {n}) /\ Merged(u, v, b, e)
    <3>1. b \in F => n = b
      BY <1>1 DEF F
    <3> HIDE DEF v
    <3> QED
      BY <1>2, <1>5, <2>1, <2>3, <2>5, <2>6, <3>1, MergeStep DEF v
  <2>8. F \ {n} = {x \in F : ~(b <= x /\ x < e)}
    <3>1. F \subseteq Spots
      BY DEF F, FreeOf
    <3>2. \A x \in F : x = n \/ ~(b <= x /\ x < e)
      <4> SUFFICES ASSUME NEW x \in F, x # n, b <= x, x < e PROVE FALSE
        OBVIOUS
      <4>1. x \in Spots /\ x \in Nat /\ x # b
        BY <1>1, <1>4, <3>1 DEF F
      <4> QED
        BY <1>5, <2>3, <4>1
    <3>3. b <= n /\ n < e
      BY <1>5, <2>3
    <3> QED
      BY <3>2, <3>3
  <2> HIDE DEF v
  <2>9. \A x \in UsedOf(t) : ~(b < x /\ x < e)
    <3> SUFFICES ASSUME NEW x \in UsedOf(t), b < x, x < e PROVE FALSE
      OBVIOUS
    <3>1. x \in Spots /\ x \in Nat /\ ~t.hdr[x].free
      BY <1>4, SpotsArePlaces DEF UsedOf, HeadsOf
    <3> QED
      BY <1>5, <2>1, <2>3, <3>1
  <2> DEFINE G == {x \in F : ~(b <= x /\ x < e)}
  <2>10. Lists(v, G)
    BY <2>7, <2>8
  <2>11. b < e
    BY <1>5, <2>3
  <2>12. Joined(t, u, v, b, e)
    BY <2>3, <2>4, <2>7, <2>9, <2>10, <2>11 DEF Joined, F
  <2> QED
    BY <1>8, <2>12 DEF n, e, v
<1> QED
  BY <1>7, <1>8

\* The free block from m up to e has b, and is all there is.
JoinedAll(t, u, w, b, m, e) ==
    /\ m \in HeadsOf(t) /\ First <= m /\ m <= b /\ b < e
    /\ ~t.hdr[m].prevFree /\ w.hdr[m].free /\ (m = b \/ t.hdr[m].free)
    /\ \A x \in UsedOf(t) : x = b \/ ~(m < x /\ x < e)
    /\ Merged(u, w, m, e)
    /\ Lists(w, {x \in FreeOf(t) : ~(m <= x /\ x < e)})

\* free_ex joins the block with the one before it, if that is free.
LEMMA JoinBefore ==
  ASSUME NEW t, NEW b \in UsedOf(t), SoundBut(t, {b}), NEW u, Marked(t, u, b),
         NEW v, NEW e, Joined(t, u, v, b, e)
  PROVE  LET m == IF v.hdr[b].prevFree THEN v.hdr[b].prev_hdr ELSE b
         IN  JoinedAll(t, u, IF m = b THEN v ELSE Absorb(Extract(v, m), m, b), b, m, e)
<1> DEFINE m == IF v.hdr[b].prevFree THEN v.hdr[b].prev_hdr ELSE b
           F == FreeOf(t)
           G == {x \in F : ~(b <= x /\ x < e)}
<1>1. /\ t \in Pool /\ Ends(t) /\ Plain(t) /\ Adjacent(t)
      /\ b \in HeadsOf(t) /\ b # Area /\ b # Last /\ ~t.hdr[b].free /\ b \notin F
  BY DEF SoundBut, UsedOf, FreeOf
<1>2. /\ u.hdr[b].free
      /\ \A x \in Spots : u.hdr[x].size = t.hdr[x].size
      /\ \A x \in Spots : u.hdr[x].prevFree = t.hdr[x].prevFree
      /\ \A x \in Spots : u.hdr[x].prev_hdr = t.hdr[x].prev_hdr
      /\ \A x \in Spots \ {b} : u.hdr[x].free = t.hdr[x].free
  BY Zenon DEF Marked
<1>3. /\ e \in HeadsOf(t) /\ b < e /\ e <= Last /\ ~t.hdr[e].free
      /\ \A x \in UsedOf(t) : ~(b < x /\ x < e)
      /\ Merged(u, v, b, e) /\ Lists(v, G)
  BY DEF Joined
<1>4. /\ v \in Pool /\ NextBlock(v, b) = e /\ v.hdr[b].size >= 2
      /\ v.hdr[b].free = u.hdr[b].free /\ v.hdr[b].prevFree = u.hdr[b].prevFree
      /\ v.hdr[b].prev_hdr = u.hdr[b].prev_hdr
      /\ \A x \in Spots : b < x /\ x < e => NoTags(v.hdr[x])
      /\ \A x \in Spots : x < b \/ x >= e => SameHeader(u, v, x)
  BY <1>3 DEF Merged
<1>5. /\ b \in Spots /\ b \in Nat /\ e \in Spots /\ e \in Nat /\ First <= b
      /\ \A x \in Spots : x \in Nat
  BY <1>1, <1>3, HeadPlaces, SpotsArePlaces
<1>6. m = IF t.hdr[b].prevFree THEN t.hdr[b].prev_hdr ELSE b
  BY <1>2, <1>4, <1>5
<1> HIDE DEF m
<1>7. CASE ~t.hdr[b].prevFree
  <2>1. m = b
    BY <1>6, <1>7
  <2>2. JoinedAll(t, u, v, b, b, e)
    BY <1>1, <1>2, <1>3, <1>4, <1>5, <1>7 DEF JoinedAll
  <2> QED
    BY <2>1, <2>2 DEF m
<1>8. CASE t.hdr[b].prevFree
  <2> DEFINE w == Absorb(Extract(v, m), m, b)
  <2>1. /\ m \in HeadsOf(t) /\ m # Last /\ m # Area /\ t.hdr[m].free
        /\ NextBlock(t, m) = b /\ m < b /\ ~t.hdr[m].prevFree
    <3>1. m = t.hdr[b].prev_hdr
      BY <1>6, <1>8
    <3> QED
      BY <1>1, <1>8, <3>1, FreeBefore
  <2>2. /\ m \in Spots /\ m \in Nat /\ First <= m
        /\ \A x \in UsedOf(t) : ~(m < x /\ x < b)
        /\ \A x \in Spots : m < x /\ x < b => NoTags(t.hdr[x])
        /\ \A x \in Spots : m < x /\ x < b => x \notin F
    BY <2>1, Span
  <2>3. m \in G /\ b \notin G
    BY <1>1, <1>5, <2>1, <2>2 DEF FreeOf
  <2>4. NextBlock(v, m) = b
    <3>1. SameHeader(u, v, m)
      BY <1>4, <2>1, <2>2
    <3>2. v.hdr[m].size = t.hdr[m].size
      BY <1>2, <2>2, <3>1 DEF SameHeader
    <3> QED
      BY <2>1, <3>2 DEF NextBlock
  <2>5. \A x \in Spots : m < x /\ x < e /\ x # b => NoTags(v.hdr[x])
    <3> SUFFICES ASSUME NEW x \in Spots, m < x, x < e, x # b PROVE NoTags(v.hdr[x])
      OBVIOUS
    <3>1. CASE x < b
      <4>1. SameHeader(u, v, x) /\ NoTags(t.hdr[x])
        BY <1>4, <2>2, <3>1
      <4> QED
        BY <1>2, <4>1 DEF SameHeader, NoTags
    <3>2. CASE b < x
      BY <1>4, <3>2
    <3> QED
      BY <1>5, <3>1, <3>2
  <2> HIDE DEF G
  <2>6. Lists(w, G \ {m}) /\ Merged(v, w, m, e)
    <3> HIDE DEF w
    <3> QED
      BY <1>3, <1>4, <1>5, <2>1, <2>2, <2>3, <2>4, <2>5, MergeStep DEF w
  <2> HIDE DEF w
  <2>7. Merged(u, w, m, e)
    <3>1. /\ w \in Pool /\ NextBlock(w, m) = e /\ w.hdr[m].size >= 2
          /\ w.hdr[m].free = v.hdr[m].free /\ w.hdr[m].prevFree = v.hdr[m].prevFree
          /\ w.hdr[m].prev_hdr = v.hdr[m].prev_hdr
          /\ \A x \in Spots : m < x /\ x < e => NoTags(w.hdr[x])
          /\ \A x \in Spots : x < m \/ x >= e => SameHeader(v, w, x)
      BY <2>6 DEF Merged
    <3>2. SameHeader(u, v, m)
      BY <1>4, <2>1, <2>2
    <3>3. \A x \in Spots : x < m \/ x >= e => SameHeader(u, v, x)
      BY <1>4, <1>5, <2>1, <2>2
    <3>4. \A x \in Spots : x < m \/ x >= e => SameHeader(u, w, x)
      BY <3>1, <3>3 DEF SameHeader
    <3> QED
      BY <3>1, <3>2, <3>4 DEF Merged, SameHeader
  <2>8. w.hdr[m].free
    <3>1. w.hdr[m].free = v.hdr[m].free
      BY <2>6 DEF Merged
    <3>2. SameHeader(u, v, m)
      BY <1>4, <2>1, <2>2
    <3>3. u.hdr[m].free = t.hdr[m].free
      BY <1>2, <1>5, <2>1, <2>2
    <3> QED
      BY <2>1, <3>1, <3>2, <3>3 DEF SameHeader
  <2>9. G \ {m} = {x \in F : ~(m <= x /\ x < e)}
    <3>1. ASSUME NEW x \in F
          PROVE  (~(b <= x /\ x < e) /\ x # m) <=> ~(m <= x /\ x < e)
      <4>1. x \in Spots /\ x \in Nat
        BY <1>5 DEF FreeOf
      <4> QED
        BY <1>3, <1>5, <2>1, <2>2, <4>1
    <3> QED
      BY <3>1 DEF G
  <2> DEFINE K == {x \in F : ~(m <= x /\ x < e)}
  <2>10. Lists(w, K)
    BY <2>6, <2>9
  <2>11. \A x \in UsedOf(t) : x = b \/ ~(m < x /\ x < e)
    <3> SUFFICES ASSUME NEW x \in UsedOf(t), x # b, m < x, x < e PROVE FALSE
      OBVIOUS
    <3>1. x \in Spots /\ x \in Nat
      BY <1>5, SpotsArePlaces DEF UsedOf, HeadsOf
    <3> QED
      BY <1>3, <1>5, <2>2, <3>1
  <2>12. m <= b
    BY <1>5, <2>1, <2>2
  <2>13. JoinedAll(t, u, w, b, m, e)
    BY <1>3, <2>1, <2>2, <2>7, <2>8, <2>10, <2>11, <2>12 DEF JoinedAll
  <2>14. m # b
    BY <1>5, <2>1, <2>2
  <2> QED
    BY <2>13, <2>14 DEF w, m
<1> QED
  BY <1>7, <1>8

\* The block is given back, and no other used block changes.
Freed(t, v, b) ==
    /\ Good(v) /\ UsedOf(v) = UsedOf(t) \ {b}
    /\ \A x \in UsedOf(t) \ {b} : v.hdr[x].size = t.hdr[x].size

\* What free_ex does in the end: list the free block and tell the next one.
LEMMA ListAndTell ==
  ASSUME NEW t, NEW b \in UsedOf(t), SoundBut(t, {b}), NEW u, Marked(t, u, b),
         NEW w, NEW m, NEW e \in HeadsOf(t), e <= Last, ~t.hdr[e].free,
         m = IF t.hdr[b].prevFree THEN t.hdr[b].prev_hdr ELSE b,
         JoinedAll(t, u, w, b, m, e)
  PROVE  Freed(t, TellNext(Insert(w, m), m), b)
<1> DEFINE y == Insert(w, m)
           v == TellNext(y, m)
           F == FreeOf(t)
           G == {x \in F : ~(m <= x /\ x < e)}
<1>1. /\ t \in Pool /\ Ends(t) /\ Adjacent(t)
      /\ b \in HeadsOf(t) /\ b # Area /\ b # Last /\ ~t.hdr[b].free
  BY DEF SoundBut, UsedOf
<1>2. /\ u \in Pool /\ SoundBut(u, {b, m})
      /\ FreeOf(u) = F \cup {b} /\ UsedOf(u) = UsedOf(t) \ {b}
      /\ u.hdr[b].free
      /\ \A x \in Spots : u.hdr[x].size = t.hdr[x].size
      /\ \A x \in Spots : u.hdr[x].prevFree = t.hdr[x].prevFree
      /\ \A x \in Spots : u.hdr[x].prev_hdr = t.hdr[x].prev_hdr
      /\ \A x \in Spots \ {b} : u.hdr[x].free = t.hdr[x].free
  BY Zenon DEF Marked
<1>3. /\ m \in HeadsOf(t) /\ First <= m /\ m <= b /\ b < e
      /\ ~t.hdr[m].prevFree /\ w.hdr[m].free /\ (m = b \/ t.hdr[m].free)
      /\ \A x \in UsedOf(t) : x = b \/ ~(m < x /\ x < e)
      /\ Lists(w, G)
      /\ w \in Pool /\ NextBlock(w, m) = e /\ w.hdr[m].size >= 2
      /\ w.hdr[m].free = u.hdr[m].free /\ w.hdr[m].prevFree = u.hdr[m].prevFree
      /\ w.hdr[m].prev_hdr = u.hdr[m].prev_hdr
      /\ \A x \in Spots : m < x /\ x < e => NoTags(w.hdr[x])
      /\ \A x \in Spots : x < m \/ x >= e => SameHeader(u, w, x)
  BY DEF JoinedAll, Merged
<1> HIDE DEF G, F, y, v
<1>4. /\ m \in Spots /\ m \in Nat /\ e \in Spots /\ e \in Nat /\ m < e /\ m # e
      /\ \A x \in Spots : x \in Nat
      /\ b \in Nat /\ b \in Spots
  <2>1. /\ m \in Spots /\ b \in Spots /\ e \in Spots
    BY <1>1, <1>3, HeadPlaces
  <2>2. \A x \in Spots : x \in Nat
    BY SpotsArePlaces
  <2>3. m \in Nat /\ b \in Nat /\ e \in Nat
    BY <2>1, <2>2
  <2>4. m < e /\ m # e
    <3>1. m <= b /\ b < e
      BY <1>3, Zenon
    <3> QED
      BY <2>3, <3>1
  <2> QED
    BY <2>1, <2>2, <2>3, <2>4
<1>5. ClassOf(w, m) \in Class
  <2>1. /\ w.hdr[m].size \in Nat /\ e = m + 2 + w.hdr[m].size
    BY <1>3, <1>4, HeaderFields DEF NextBlock, Overhead
  <2>2. w.hdr[m].size \in 0 .. FirstSize
    <3>1. First = 6 /\ Last = 8 + FirstSize /\ FirstSize \in Nat
      BY SpotsArePlaces, Parameters
    <3>2. e <= Last /\ First <= m /\ w.hdr[m].size \in Nat /\ m \in Nat
      BY <1>3, <1>4, <2>1
    <3>3. w.hdr[m].size <= FirstSize
      <4> DEFINE size == w.hdr[m].size
      <4>1. size \in Nat /\ e = m + 2 + size
        BY <2>1
      <4> HIDE DEF size
      <4>2. m + 2 + size <= 8 + FirstSize
        BY <3>1, <3>2, <4>1
      <4>3. 6 <= m
        BY <3>1, <3>2
      <4>4. size <= FirstSize
        BY <3>1, <3>2, <4>1, <4>2, <4>3
      <4> QED
        BY <4>4 DEF size
    <3> QED
      BY <3>1, <3>2, <3>3
  <2> QED
    BY <2>2, ClassInMatrix DEF ClassOf
<1>6. Lists(y, G \cup {m}) /\ SameTags(w, y)
  <2>1. m \in Spots \ G
    <3>1. m \in Spots /\ m \in Nat /\ m < e
      BY <1>4, Zenon
    <3> QED
      BY <3>1 DEF G
  <2>2. Lists(w, G)
    BY <1>3
  <2> QED
    BY <1>5, <2>1, <2>2, InsertLists DEF y
<1>7. y \in Pool /\ NextBlock(y, m) = e /\ \A x \in Spots : SameHeader(w, y, x)
  <2>1. y \in Pool /\ \A x \in Spots : SameHeader(w, y, x)
    BY <1>6 DEF Lists, SameTags, SameHeader
  <2> QED
    BY <1>3, <1>4, <2>1 DEF SameHeader, NextBlock
<1>8. v = [y EXCEPT !.hdr[e].prevFree = TRUE, !.hdr[e].prev_hdr = m]
  BY <1>7 DEF v, TellNext
<1>9. /\ Retagged(y, v)
      /\ v.hdr[e].size = y.hdr[e].size /\ v.hdr[e].free = y.hdr[e].free
      /\ v.hdr[e].prevFree = TRUE /\ v.hdr[e].prev_hdr = m
      /\ \A x \in Spots \ {e} : v.hdr[x] = y.hdr[x]
  <2>1. m \in Pointer
    BY <1>4 DEF Pointer
  <2>2. Told(y, [y EXCEPT !.hdr[e].prevFree = TRUE, !.hdr[e].prev_hdr = m], e, m, TRUE)
    BY <1>4, <1>7, <2>1, TellEffect, Zenon
  <2>3. Told(y, v, e, m, TRUE)
    BY <1>8, <2>2, Zenon
  <2> QED
    BY <2>3 DEF Told
<1>10. /\ \A x \in Spots \ {e} : SameHeader(w, v, x)
       /\ v.hdr[e].size = w.hdr[e].size /\ v.hdr[e].free = w.hdr[e].free
  BY <1>4, <1>7, <1>9 DEF SameHeader
<1>11. Lists(v, G \cup {m})
  <2>1. /\ v \in Pool /\ v.matrix = y.matrix /\ v.sl = y.sl /\ v.fl = y.fl
        /\ \A x \in Spots : v.hdr[x].prev = y.hdr[x].prev /\ v.hdr[x].next = y.hdr[x].next
    BY <1>9 DEF Retagged
  <2>2. ASSUME NEW x \in G \cup {m} PROVE v.hdr[x].size = y.hdr[x].size
    <3>1. x \in Spots
      BY <1>4 DEF G, F, FreeOf
    <3> QED
      BY <1>9, <3>1
  <2> DEFINE K == G \cup {m}
  <2>3. Lists(y, K) /\ \A x \in K : v.hdr[x].size = y.hdr[x].size
    BY <1>6, <2>2
  <2> HIDE DEF K
  <2>4. Lists(v, K)
    BY <2>1, <2>3, SameLists
  <2> QED
    BY <2>4 DEF K
<1>12. HeadsOf(u) = HeadsOf(t)
  BY <1>2 DEF HeadsOf
<1>13. /\ v.hdr[m].free /\ v.hdr[m].size = w.hdr[m].size
       /\ v.hdr[m].prevFree = u.hdr[m].prevFree
       /\ v.hdr[m].prev_hdr = u.hdr[m].prev_hdr
  BY <1>3, <1>4, <1>10 DEF SameHeader
<1>14. v.hdr[e].size = u.hdr[e].size /\ v.hdr[e].free = u.hdr[e].free
  <2>1. SameHeader(u, w, e)
    <3>1. e \in Spots /\ e >= e
      BY <1>4
    <3> QED
      BY <1>3, <3>1, Zenon
  <2> QED
    BY <1>10, <2>1 DEF SameHeader
<1>15. Changed(u, v, m, e)
  <2>1. \A x \in Spots : x < m \/ x > e => SameHeader(u, v, x)
    <3> SUFFICES ASSUME NEW x \in Spots, x < m \/ x > e PROVE SameHeader(u, v, x)
      OBVIOUS
    <3>1. x \in Spots \ {e} /\ (x < m \/ x >= e)
      BY <1>4
    <3>2. SameHeader(u, w, x) /\ SameHeader(w, v, x)
      BY <1>3, <1>10, <3>1
    <3> QED
      BY <3>2 DEF SameHeader
  <2>2. ~u.hdr[m].prevFree
    BY <1>2, <1>3, <1>4, Zenon
  <2>3. v \in Pool
    BY <1>9 DEF Retagged
  <2>4. m # NULL
    BY <1>4, SpotsArePlaces
  <2> QED
    <3>1. /\ m \in HeadsOf(u) /\ e \in HeadsOf(u) /\ First <= m /\ m < e
          /\ v.hdr[e].prev_hdr = m
      BY <1>3, <1>4, <1>9, <1>12, Zenon
    <3> QED
      BY <1>13, <1>14, <2>1, <2>2, <2>3, <2>4, <3>1 DEF Changed
<1>16. NextBlock(v, m) = e
  BY <1>3, <1>13 DEF NextBlock
<1>17. \A x \in Spots : m < x /\ x < e => NoTags(v.hdr[x])
  <2> SUFFICES ASSUME NEW x \in Spots, m < x, x < e PROVE NoTags(v.hdr[x])
    OBVIOUS
  <2>1. x \in Spots \ {e} /\ NoTags(w.hdr[x])
    <3>1. x \in Nat /\ e \in Nat
      BY <1>4, Zenon
    <3>2. x # e
      BY <3>1
    <3> QED
      BY <1>3, <3>2, Zenon
  <2> QED
    BY <1>10, <2>1 DEF SameHeader, NoTags
<1>18. ~v.hdr[e].free
  <2>1. u.hdr[e].free = t.hdr[e].free
    <3>1. e \in Spots /\ b \in Nat /\ e \in Nat /\ b < e
      BY <1>3, <1>4, Zenon
    <3>2. e # b
      BY <3>1
    <3> QED
      BY <1>2, <3>1, <3>2, Zenon
  <2> QED
    BY <1>14, <2>1
<1>19. Tagged(v, m)
  BY <1>9, <1>13, <1>16, <1>18 DEF Tagged
<1>20. G \cup {m} = {x \in FreeOf(u) : ~(m <= x /\ x < e)}
                       \cup (IF v.hdr[m].free THEN {m} ELSE {})
  <2>1. G = {x \in FreeOf(u) : ~(m <= x /\ x < e)}
    BY <1>2, <1>3, <1>4 DEF G
  <2> QED
    BY <1>13, <2>1
<1>21. \A x \in UsedOf(u) : ~(m < x /\ x < e)
  BY <1>2, <1>3
<1> DEFINE K == G \cup {m}
           S == {b, m}
<1>22. /\ K = {x \in FreeOf(u) : ~(m <= x /\ x < e)}
                 \cup (IF v.hdr[m].free THEN {m} ELSE {})
       /\ Lists(v, K)
  BY <1>11, <1>20
<1>23. SoundBut(u, S) /\ \A x \in S : m <= x /\ x < e
  <2>1. m <= m /\ m <= b /\ m < e /\ b < e
    <3>1. m \in Nat /\ m <= b /\ m < e /\ b < e
      BY <1>3, <1>4, Zenon
    <3> QED
      BY <3>1
  <2>2. \A x \in S : x = b \/ x = m
    OBVIOUS
  <2>3. SoundBut(u, S)
    BY <1>2
  <2> HIDE DEF S
  <2> QED
    BY <2>1, <2>2, <2>3
<1> HIDE DEF K, S
<1>24. Good(v) /\ UsedAfter(u, v, m)
  <2>1. OneFor(u, v, m, e, S, K)
    BY <1>15, <1>16, <1>17, <1>19, <1>21, <1>22, <1>23 DEF OneFor
  <2> QED
    BY <2>1, Whole, Zenon
<1>25. m \notin UsedOf(u)
  <2>1. u.hdr[m].free
    BY <1>3
  <2> QED
    BY <2>1 DEF UsedOf
<1>26. UsedOf(v) = UsedOf(t) \ {b}
  BY <1>2, <1>13, <1>24, <1>25 DEF UsedAfter
<1>27. ASSUME NEW x \in UsedOf(t) \ {b} PROVE v.hdr[x].size = t.hdr[x].size
  <2>1. x \in UsedOf(u) \ {m} /\ x \in Spots
    BY <1>2, <1>25, SpotsArePlaces DEF UsedOf, HeadsOf
  <2>2. v.hdr[x].size = u.hdr[x].size
    BY <1>24, <2>1 DEF UsedAfter
  <2> QED
    BY <1>2, <2>1, <2>2
<1>28. Freed(t, v, b)
  BY <1>24, <1>26, <1>27 DEF Freed
<1> QED
  BY <1>28 DEF v, y

LEMMA FreeStep ==
  ASSUME NEW t, NEW p, p - Overhead \in UsedOf(t), SoundBut(t, {p - Overhead}),
         Lists(t, FreeOf(t))
  PROVE  Freed(t, FreeEx(t, p), p - Overhead)
<1> DEFINE b == p - Overhead
           u == [t EXCEPT !.hdr[b].free = TRUE,
                          !.hdr[b].prev = NULL, !.hdr[b].next = NULL]
           n == NextBlock(u, b)
           e == IF u.hdr[n].free THEN NextBlock(u, n) ELSE n
           v == IF u.hdr[n].free THEN Absorb(Extract(u, n), b, n) ELSE u
           m == IF v.hdr[b].prevFree THEN v.hdr[b].prev_hdr ELSE b
           w == IF m = b THEN v ELSE Absorb(Extract(v, m), m, b)
<1>1. FreeEx(t, p) = TellNext(Insert(w, m), m)
  BY Zenon DEF FreeEx
<1>2. b \in UsedOf(t) /\ SoundBut(t, {b}) /\ Lists(t, FreeOf(t))
  OBVIOUS
<1> HIDE DEF b
<1>3. Marked(t, u, b)
  BY <1>2, MarkStep
<1> HIDE DEF u
<1>4. Joined(t, u, v, b, e)
  BY <1>2, <1>3, JoinNext
<1> HIDE DEF e, v, n
<1>5. JoinedAll(t, u, w, b, m, e)
  BY <1>2, <1>3, <1>4, JoinBefore
<1>6. m = IF t.hdr[b].prevFree THEN t.hdr[b].prev_hdr ELSE b
  <2>1. b \in Spots
    BY <1>2, SpotsArePlaces DEF UsedOf, HeadsOf
  <2>2. u.hdr[b].prevFree = t.hdr[b].prevFree /\ u.hdr[b].prev_hdr = t.hdr[b].prev_hdr
    BY <1>3, <2>1 DEF Marked
  <2>3. v.hdr[b].prevFree = u.hdr[b].prevFree /\ v.hdr[b].prev_hdr = u.hdr[b].prev_hdr
    BY <1>4 DEF Joined, Merged
  <2> QED
    BY <2>2, <2>3
<1>7. e \in HeadsOf(t) /\ e <= Last /\ ~t.hdr[e].free
  BY <1>4 DEF Joined
<1> HIDE DEF m, w
<1>8. Freed(t, TellNext(Insert(w, m), m), b)
  BY <1>2, <1>3, <1>5, <1>6, <1>7, ListAndTell
<1> QED
  BY <1>1, <1>8 DEF b

-----------------------------------------------------------------------------
(* realloc.                                                                *)

\* Block b has another size, not below n, and no other used block changes.
Resized(t, v, b, n) ==
    /\ Good(v) /\ UsedOf(v) = UsedOf(t)
    /\ v.hdr[b].size >= n
    /\ \A x \in UsedOf(t) \ {b} : v.hdr[x].size = t.hdr[x].size

\* Of t's blocks, u has those before b and from e on, and b, which is used;
\* what is between b's header and e is in no list.
Room(t, u, b, e) ==
    /\ u \in Pool /\ b \in UsedOf(t) /\ e \in HeadsOf(t)
    /\ First <= b /\ b < e /\ e <= Last /\ ~t.hdr[e].free
    /\ \A x \in UsedOf(t) : ~(b < x /\ x < e)
    /\ \A x \in Spots : x < b \/ x > e => SameHeader(t, u, x)
    /\ u.hdr[b].prevFree = t.hdr[b].prevFree /\ u.hdr[b].prev_hdr = t.hdr[b].prev_hdr
    /\ u.hdr[e].size = t.hdr[e].size /\ u.hdr[e].free = t.hdr[e].free
    /\ \A x \in Spots : b < x /\ x < e => NoTags(u.hdr[x])
    /\ Lists(u, {x \in FreeOf(t) : ~(b <= x /\ x < e)})

\* realloc_ex cuts off what is left behind n words.
LEMMA CutOff ==
  ASSUME NEW t, Good(t), NEW u, NEW b, NEW e, Room(t, u, b, e),
         NEW n \in Nat, 2 <= n, NEW rest \in Nat, 4 <= rest, e = b + 2 + n + rest
  PROVE  Resized(t, [Cut(u, b, n, rest, e) EXCEPT !.hdr[e].prevFree = TRUE], b, n)
<1> DEFINE c == b + 2 + n
           w == Cut(u, b, n, rest, e)
           v == [w EXCEPT !.hdr[e].prevFree = TRUE]
           G == {x \in FreeOf(t) : ~(b <= x /\ x < e)}
<1>1. /\ Sound(t) /\ t \in Pool /\ Ends(t) /\ Adjacent(t)
  BY DEF Good, Sound, SoundBut
<1>2. /\ u \in Pool /\ b \in UsedOf(t) /\ e \in HeadsOf(t)
      /\ First <= b /\ b < e /\ e <= Last /\ ~t.hdr[e].free
      /\ \A x \in UsedOf(t) : ~(b < x /\ x < e)
      /\ \A x \in Spots : x < b \/ x > e => SameHeader(t, u, x)
      /\ u.hdr[b].prevFree = t.hdr[b].prevFree /\ u.hdr[b].prev_hdr = t.hdr[b].prev_hdr
      /\ u.hdr[e].size = t.hdr[e].size /\ u.hdr[e].free = t.hdr[e].free
      /\ \A x \in Spots : b < x /\ x < e => NoTags(u.hdr[x])
      /\ Lists(u, G)
  BY DEF Room
<1>3. /\ b \in HeadsOf(t) /\ b \in Spots /\ b \in Nat /\ e \in Spots /\ e \in Nat
      /\ \A x \in Spots : x \in Nat
  BY <1>1, <1>2, HeadPlaces, SpotsArePlaces DEF UsedOf
<1>4. c \in Spots /\ c \in Nat /\ b < c /\ c < e /\ e = c + rest
  <2>1. First = 6 /\ Area = 2 /\ Last \in Nat
    BY SpotsArePlaces, Parameters
  <2>2. c \in Nat /\ 2 <= c /\ c <= Last /\ b < c /\ c < e /\ e = c + rest
    BY <1>2, <1>3, <2>1
  <2> HIDE DEF c
  <2> QED
    BY <2>1, <2>2 DEF Spots
<1>5. c \notin G /\ b \notin G
  BY <1>2, <1>3, <1>4
<1>6. c = b + 2 + n
  OBVIOUS
<1> HIDE DEF c, G, w, v
<1>7. Lists(w, G \cup {c}) /\ AfterCut(u, w, b, c, e, n, rest)
  BY <1>2, <1>3, <1>4, <1>5, <1>6, CutStep DEF w
<1>8. /\ w \in Pool
      /\ w.hdr[b].size = n /\ ~w.hdr[b].free
      /\ w.hdr[b].prevFree = u.hdr[b].prevFree
      /\ w.hdr[b].prev_hdr = u.hdr[b].prev_hdr
      /\ w.hdr[c].size = rest - 2 /\ w.hdr[c].free /\ ~w.hdr[c].prevFree
      /\ w.hdr[e].size = u.hdr[e].size /\ w.hdr[e].free = u.hdr[e].free
      /\ w.hdr[e].prev_hdr = c
      /\ \A x \in Spots \ {b, c, e} : SameHeader(u, w, x)
  BY <1>7 DEF AfterCut
<1>9. Told(w, v, e, w.hdr[e].prev_hdr, TRUE)
  <2>1. TRUE \in BOOLEAN /\ NULL \in Pointer
    BY DEF Pointer
  <2> QED
    BY <1>3, <1>8, <2>1, TellEffect, Zenon DEF v
<1>10. /\ Retagged(w, v)
       /\ v.hdr[e].size = u.hdr[e].size /\ v.hdr[e].free = u.hdr[e].free
       /\ v.hdr[e].prevFree /\ v.hdr[e].prev_hdr = c
       /\ \A x \in Spots \ {e} : v.hdr[x] = w.hdr[x]
  BY <1>8, <1>9 DEF Told
<1>11. /\ v.hdr[b] = w.hdr[b] /\ v.hdr[c] = w.hdr[c]
       /\ \A x \in Spots \ {b, c, e} : SameHeader(u, v, x)
  <2>1. b \in Spots \ {e} /\ c \in Spots \ {e}
    BY <1>3, <1>4
  <2> QED
    BY <1>8, <1>10, <2>1 DEF SameHeader
<1> DEFINE K == G \cup {c}
<1>12. Lists(v, K)
  <2>1. /\ v \in Pool /\ v.matrix = w.matrix /\ v.sl = w.sl /\ v.fl = w.fl
        /\ \A x \in Spots : v.hdr[x].prev = w.hdr[x].prev /\ v.hdr[x].next = w.hdr[x].next
    BY <1>10 DEF Retagged
  <2>2. K \subseteq Spots /\ Lists(w, K)
    BY <1>7 DEF Lists
  <2> HIDE DEF K
  <2>3. \A x \in K : v.hdr[x].size = w.hdr[x].size
    BY <1>3, <1>8, <1>10, <2>2
  <2> QED
    BY <2>1, <2>2, <2>3, SameLists
<1>13. Changed(t, v, b, e)
  <2>1. \A x \in Spots : x < b \/ x > e => SameHeader(t, v, x)
    <3> SUFFICES ASSUME NEW x \in Spots, x < b \/ x > e PROVE SameHeader(t, v, x)
      OBVIOUS
    <3>1. x \in Spots \ {b, c, e}
      BY <1>3, <1>4
    <3>2. SameHeader(t, u, x) /\ SameHeader(u, v, x)
      BY <1>2, <1>11, <3>1
    <3> QED
      BY <3>2 DEF SameHeader
  <2>2. v \in Pool /\ c # NULL
    BY <1>4, <1>10, SpotsArePlaces DEF Retagged
  <2> QED
    BY <1>2, <1>3, <1>8, <1>10, <1>11, <2>1, <2>2 DEF Changed
<1>14. NextBlock(v, b) = c /\ NextBlock(v, c) = e /\ v.hdr[b].size = n /\ v.hdr[c].size >= 2
  <2>1. v.hdr[b].size = n /\ v.hdr[c].size = rest - 2
    BY <1>8, <1>11
  <2> QED
    BY <1>4, <1>6, <2>1 DEF NextBlock, Overhead
<1>15. \A x \in Spots : b < x /\ x < e /\ x # c => NoTags(v.hdr[x])
  <2> SUFFICES ASSUME NEW x \in Spots, b < x, x < e, x # c PROVE NoTags(v.hdr[x])
    OBVIOUS
  <2>1. x \in Spots \ {b, c, e} /\ NoTags(u.hdr[x])
    BY <1>2, <1>3
  <2> QED
    BY <1>11, <2>1 DEF SameHeader, NoTags
<1>16. Good(v) /\ UsedAfter(t, v, b)
  <2>1. K = {x \in FreeOf(t) : ~(b <= x /\ x < e)} \cup {c}
    BY DEF G
  <2>2. /\ v.hdr[b].size >= 2 /\ ~v.hdr[b].free /\ v.hdr[c].free /\ ~v.hdr[c].prevFree
        /\ v.hdr[e].prevFree /\ v.hdr[e].prev_hdr = c /\ ~v.hdr[e].free
    BY <1>2, <1>8, <1>10, <1>11, <1>14
  <2> HIDE DEF K
  <2> QED
    BY <1>1, <1>2, <1>4, <1>12, <1>13, <1>14, <1>15, <2>1, <2>2, Divided
<1>17. Resized(t, v, b, n)
  <2>1. ~v.hdr[b].free
    BY <1>8, <1>11
  <2>2. UsedOf(v) = UsedOf(t)
    BY <1>2, <1>16, <2>1 DEF UsedAfter
  <2> QED
    BY <1>14, <1>16, <2>2 DEF Resized, UsedAfter
<1> QED
  BY <1>17 DEF v, w

\* A free block n is behind block b, and reaches up to e.
Behind(t, b, n, e) ==
    /\ n \in FreeOf(t) /\ b \in Spots /\ n \in Spots /\ e \in Spots
    /\ e \in HeadsOf(t) /\ First <= b /\ b < n /\ n < e /\ e <= Last
    /\ ~t.hdr[e].free /\ b \notin FreeOf(t)
    /\ NextBlock(t, b) = n /\ NextBlock(t, n) = e
    /\ t.hdr[b].size \in Nat /\ t.hdr[n].size \in Nat /\ 2 <= t.hdr[n].size
    /\ n = b + 2 + t.hdr[b].size /\ e = n + 2 + t.hdr[n].size
    /\ \A x \in UsedOf(t) : ~(b < x /\ x < e)
    /\ \A x \in Spots : b < x /\ x < e /\ x # n => NoTags(t.hdr[x])
    /\ FreeOf(t) \ {n} = {x \in FreeOf(t) : ~(b <= x /\ x < e)}

LEMMA FreeBehind ==
  ASSUME NEW t, Good(t), NEW b \in UsedOf(t), t.hdr[NextBlock(t, b)].free
  PROVE  Behind(t, b, NextBlock(t, b), NextBlock(t, NextBlock(t, b)))
<1> DEFINE n == NextBlock(t, b)
           e == NextBlock(t, n)
           F == FreeOf(t)
<1>1. /\ Sound(t) /\ SoundBut(t, {}) /\ t \in Pool /\ Ends(t) /\ Plain(t) /\ Adjacent(t)
      /\ b \in HeadsOf(t) /\ b # Area /\ b # Last /\ b \notin F
  BY DEF Good, Sound, SoundBut, UsedOf, FreeOf
<1>2. \A x \in Spots : x \in Nat
  BY SpotsArePlaces
<1>3. /\ b \in Spots /\ n \in Spots /\ n \in HeadsOf(t)
      /\ b \in Nat /\ n \in Nat /\ First <= b /\ b < n
      /\ n = b + 2 + t.hdr[b].size
      /\ \A x \in UsedOf(t) : ~(b < x /\ x < n)
      /\ \A x \in Spots : b < x /\ x < n => NoTags(t.hdr[x])
      /\ \A x \in Spots : b < x /\ x < n => x \notin F
  BY <1>1, Span
<1>4. NextBlock(t, b) = n /\ NextBlock(t, n) = e
  OBVIOUS
<1> HIDE DEF n
<1>5. n \in F
  BY <1>3, <1>4 DEF FreeOf
<1>6. n # Area /\ n # Last
  BY <1>1, <1>5, FreeAreHeads
<1>7. /\ e \in Spots /\ e \in HeadsOf(t) /\ e \in Nat /\ n < e /\ e <= Last
      /\ e = n + 2 + t.hdr[n].size
      /\ \A x \in UsedOf(t) : ~(n < x /\ x < e)
      /\ \A x \in Spots : n < x /\ x < e => NoTags(t.hdr[x])
      /\ \A x \in Spots : n < x /\ x < e => x \notin F
  BY <1>1, <1>3, <1>6, Span
<1> HIDE DEF e
<1>8. ~t.hdr[e].free
  <2>1. Tagged(t, n)
    BY <1>1, <1>3, <1>6 DEF SoundBut
  <2> QED
    BY <1>4, <1>5, <2>1 DEF Tagged, FreeOf
<1>9. \A x \in Spots : b < x /\ x < e /\ x # n => NoTags(t.hdr[x])
  <2> SUFFICES ASSUME NEW x \in Spots, b < x, x < e, x # n PROVE NoTags(t.hdr[x])
    OBVIOUS
  <2>1. x < n \/ n < x
    BY <1>2, <1>3
  <2> QED
    BY <1>3, <1>7, <2>1
<1> HIDE DEF F
<1>10. F \ {n} = {x \in F : ~(b <= x /\ x < e)}
  <2>1. b \in Nat /\ n \in Nat /\ e \in Nat /\ b < n /\ n < e
    BY <1>3, <1>7, Zenon
  <2>2. ASSUME NEW x \in F PROVE x # n <=> ~(b <= x /\ x < e)
    <3>1. x \in Spots /\ x \in Nat /\ x # b
      BY <1>1, <1>2 DEF F, FreeOf
    <3>2. b <= n /\ n < e
      BY <2>1
    <3>3. x < b \/ (b < x /\ x < n) \/ x = n \/ (n < x /\ x < e) \/ e <= x
      BY <2>1, <3>1
    <3>4. ~(b < x /\ x < n) /\ ~(n < x /\ x < e)
      BY <1>3, <1>7, <3>1, Zenon
    <3> QED
      BY <2>1, <3>1, <3>2, <3>3, <3>4
  <2> QED
    BY <2>2
<1>11. \A x \in UsedOf(t) : ~(b < x /\ x < e)
  <2> SUFFICES ASSUME NEW x \in UsedOf(t), b < x, x < e PROVE FALSE
    OBVIOUS
  <2>1. x \in Spots /\ x \in Nat /\ ~t.hdr[x].free
    BY <1>2, SpotsArePlaces DEF UsedOf, HeadsOf
  <2>2. x # n
    BY <1>5, <2>1 DEF F, FreeOf
  <2>3. x < n \/ n < x
    BY <1>3, <2>1, <2>2
  <2> QED
    BY <1>3, <1>7, <2>3
<1>12. t.hdr[b].size \in Nat /\ t.hdr[n].size \in Nat /\ 2 <= t.hdr[n].size
  <2>1. t.hdr[n].size \in 2 .. FirstSize /\ FirstSize \in Nat
    BY <1>1, <1>3, <1>4, <1>6, Span, Parameters
  <2>2. t.hdr[b].size \in Nat
    BY <1>1, <1>3, HeaderFields
  <2> QED
    BY <2>1, <2>2
<1>13. Behind(t, b, n, e)
  BY <1>1, <1>3, <1>4, <1>5, <1>7, <1>8, <1>9, <1>10, <1>11, <1>12 DEF Behind, F
<1> QED
  BY <1>13 DEF n, e

\* realloc_ex on a block that is large enough.
LEMMA ShrinkStep ==
  ASSUME NEW t, Good(t), NEW b \in UsedOf(t), NEW n \in Nat, 2 <= n, n <= t.hdr[b].size
  PROVE  Resized(t, Shrink(t, b, n), b, n)
<1> DEFINE after == NextBlock(t, b)
           F == FreeOf(t)
<1>1. /\ Sound(t) /\ SoundBut(t, {}) /\ Lists(t, F)
      /\ t \in Pool /\ Ends(t) /\ Plain(t) /\ Adjacent(t)
      /\ b \in HeadsOf(t) /\ b # Area /\ b # Last /\ b \notin F
  BY DEF Good, Sound, SoundBut, UsedOf, FreeOf
<1>2. /\ b \in Spots /\ after \in Spots /\ after \in HeadsOf(t)
      /\ b \in Nat /\ after \in Nat /\ First <= b /\ b < after /\ after <= Last
      /\ after = b + 2 + t.hdr[b].size
      /\ \A x \in UsedOf(t) : ~(b < x /\ x < after)
      /\ {x \in F : ~(b <= x /\ x < after)} = F \ {b}
      /\ \A x \in Spots : b < x /\ x < after => NoTags(t.hdr[x])
  BY <1>1, Span
<1>3. t.hdr[b].size \in Nat
  BY <1>1, <1>2, HeaderFields
<1>4. CASE ~t.hdr[after].free
  <2> DEFINE rest == t.hdr[b].size - n
             v == [Cut(t, b, n, rest, after) EXCEPT !.hdr[after].prevFree = TRUE]
  <2>1. rest \in Nat /\ after = b + 2 + n + rest /\ rest = (t.hdr[b].size + 0) - n
        /\ after = b + Overhead + (t.hdr[b].size + 0)
    BY <1>2, <1>3 DEF Overhead
  <2>2. Room(t, t, b, after)
    <3> DEFINE K == {x \in F : ~(b <= x /\ x < after)}
    <3>1. K = F
      BY <1>1, <1>2
    <3>2. Lists(t, K)
      BY <1>1, <3>1
    <3>3. \A x \in Spots : SameHeader(t, t, x)
      BY DEF SameHeader
    <3> HIDE DEF after
    <3>4. Lists(t, {x \in FreeOf(t) : ~(b <= x /\ x < after)})
      BY <3>2
    <3> QED
      BY <1>1, <1>2, <1>4, <3>3, <3>4 DEF Room
  <2>3. Shrink(t, b, n) = IF rest >= 4 THEN v ELSE t
    <3>1. Shrink(t, b, n) =
             LET total == t.hdr[b].size + 0
                 next == b + Overhead + total
             IN  IF total - n >= Header
                 THEN [Cut(t, b, n, total - n, next) EXCEPT !.hdr[next].prevFree = TRUE]
                 ELSE t
      BY <1>4, Zenon DEF Shrink
    <3> HIDE DEF rest, after
    <3> QED
      BY <2>1, <3>1, Zenon DEF Header
  <2>4. rest >= 4 => Resized(t, v, b, n)
    <3> HIDE DEF rest, after
    <3> SUFFICES ASSUME rest >= 4 PROVE Resized(t, v, b, n)
      OBVIOUS
    <3> QED
      BY <2>1, <2>2, CutOff
  <2>5. Resized(t, t, b, n)
    BY <1>3 DEF Resized
  <2> HIDE DEF v, rest
  <2> QED
    BY <2>3, <2>4, <2>5
<1>5. CASE t.hdr[after].free
  <2> DEFINE e == NextBlock(t, after)
             w == Extract(t, after)
             u == [w EXCEPT !.hdr[after] = Dead]
             total == t.hdr[b].size + (t.hdr[after].size + Overhead)
             rest == total - n
             v == [Cut(u, b, n, rest, e) EXCEPT !.hdr[e].prevFree = TRUE]
             K == {x \in F : ~(b <= x /\ x < e)}
  <2>1. Behind(t, b, after, e)
    BY <1>5, FreeBehind
  <2> HIDE DEF after, e
  <2>2. /\ after \in F /\ e \in Spots /\ e \in HeadsOf(t) /\ after < e /\ e <= Last
        /\ ~t.hdr[e].free
        /\ t.hdr[after].size \in Nat /\ 2 <= t.hdr[after].size
        /\ e = after + 2 + t.hdr[after].size
        /\ \A x \in UsedOf(t) : ~(b < x /\ x < e)
        /\ \A x \in Spots : b < x /\ x < e /\ x # after => NoTags(t.hdr[x])
        /\ F \ {after} = K
    BY <2>1 DEF Behind
  <2>3. e \in Nat /\ b < e /\ b # e /\ after # e /\ after # b
    <3>1. e \in Nat
      BY <2>2, SpotsArePlaces, Zenon
    <3>2. b \in Nat /\ after \in Nat /\ b < after /\ after < e
      BY <1>2, <2>2, Zenon
    <3> QED
      BY <3>1, <3>2
  <2>4. /\ total \in Nat /\ rest \in Nat /\ rest >= 4 /\ e = b + 2 + n + rest
        /\ e = b + Overhead + total /\ total - n >= Header
    <3>1. /\ b \in Nat /\ t.hdr[after].size \in Nat /\ 2 <= t.hdr[after].size
          /\ e = after + 2 + t.hdr[after].size /\ after = b + 2 + t.hdr[b].size
      BY <1>2, <2>2, Zenon
    <3> QED
      BY <1>3, <3>1, SMTT(40) DEF Overhead, Header
  <2>5. Lists(w, K) /\ SameTags(t, w)
    BY <1>1, <2>2, ExtractLists
  <2>6. /\ w \in Pool /\ Unlinked(w, K) /\ K \subseteq Spots
        /\ \A x \in Spots : SameHeader(t, w, x)
    BY <2>5 DEF Lists, SameTags, SameHeader
  <2>7. /\ u \in Pool /\ u.matrix = w.matrix /\ u.sl = w.sl /\ u.fl = w.fl
        /\ u.hdr[after] = Dead
        /\ \A y \in Spots \ {after} : u.hdr[y] = w.hdr[y]
    BY <1>2, <2>6, EraseEffect
  <2>8. Shrink(t, b, n) = v
    <3>1. Shrink(t, b, n) =
             LET next == b + Overhead + total
             IN  IF total - n >= Header
                 THEN [Cut(u, b, n, total - n, next) EXCEPT !.hdr[next].prevFree = TRUE]
                 ELSE u
      BY <1>5, Zenon DEF Shrink, after
    <3> HIDE DEF u, total
    <3> QED
      BY <2>4, <3>1
  <2> HIDE DEF u, w, total, rest
  <2>9. after \notin K
    BY <2>2
  <2> HIDE DEF K
  <2>10. Lists(u, K)
    <3>1. w.hdr[after].prev = NULL /\ w.hdr[after].next = NULL
      BY <1>2, <2>6, <2>9 DEF Unlinked
    <3>2. \A x \in Spots : u.hdr[x].prev = w.hdr[x].prev /\ u.hdr[x].next = w.hdr[x].next
      BY <2>7, <3>1 DEF Dead
    <3>3. \A x \in K : u.hdr[x].size = w.hdr[x].size
      BY <2>6, <2>7, <2>9
    <3> QED
      BY <2>5, <2>7, <3>2, <3>3, SameLists
  <2>11. \A x \in Spots \ {after} : SameHeader(t, u, x)
    BY <2>6, <2>7 DEF SameHeader
  <2>12. \A x \in Spots : b < x /\ x < e => NoTags(u.hdr[x])
    <3> SUFFICES ASSUME NEW x \in Spots, b < x, x < e PROVE NoTags(u.hdr[x])
      OBVIOUS
    <3>1. CASE x = after
      BY <2>7, <3>1 DEF Dead, NoTags
    <3>2. CASE x # after
      BY <2>2, <2>11, <3>2 DEF NoTags, SameHeader
    <3> QED
      BY <3>1, <3>2
  <2>13. Room(t, u, b, e)
    <3>1. \A x \in Spots : x < b \/ x > e => SameHeader(t, u, x)
      <4> SUFFICES ASSUME NEW x \in Spots, x < b \/ x > e PROVE SameHeader(t, u, x)
        OBVIOUS
      <4>1. b \in Nat /\ after \in Nat /\ b < after /\ after < e /\ e \in Nat
        BY <1>2, <2>2, <2>3, Zenon
      <4>2. x \in Nat
        BY SpotsArePlaces
      <4>3. x # after
        BY <4>1, <4>2
      <4> QED
        BY <2>11, <4>3
    <3>2. SameHeader(t, u, b) /\ SameHeader(t, u, e)
      BY <1>2, <2>2, <2>3, <2>11
    <3>3. Lists(u, {x \in FreeOf(t) : ~(b <= x /\ x < e)})
      BY <2>10 DEF K
    <3> QED
      BY <1>2, <2>2, <2>3, <2>7, <2>12, <3>1, <3>2, <3>3 DEF Room, SameHeader
  <2>14. Resized(t, v, b, n)
    BY <2>4, <2>13, CutOff
  <2> QED
    BY <2>8, <2>14
<1> QED
  BY <1>4, <1>5

\* realloc_ex on a block that is large enough together with the one behind it.
LEMMA GrowStep ==
  ASSUME NEW t, Good(t), NEW b \in UsedOf(t), NEW n \in Nat, 2 <= n, CanGrow(t, b, n)
  PROVE  Resized(t, Grow(t, b, n), b, n)
<1> DEFINE after == NextBlock(t, b)
           e == NextBlock(t, after)
           F == FreeOf(t)
           K == {x \in F : ~(b <= x /\ x < e)}
           u == Absorb(Extract(t, after), b, after)
           rest == u.hdr[b].size - n
           v == [u EXCEPT !.hdr[e].prev_hdr = b, !.hdr[e].prevFree = FALSE]
           w == [Cut(v, b, n, rest, e) EXCEPT !.hdr[e].prevFree = TRUE]
<1>1. /\ Sound(t) /\ SoundBut(t, {}) /\ Lists(t, F) /\ t \in Pool
      /\ b \in HeadsOf(t) /\ ~t.hdr[b].free
  BY DEF Good, Sound, SoundBut, UsedOf
<1>2. t.hdr[after].free /\ n <= t.hdr[b].size + t.hdr[after].size
  BY DEF CanGrow
<1>3. Behind(t, b, after, e)
  BY <1>2, FreeBehind
<1>4. NextBlock(t, b) = after
  OBVIOUS
<1> HIDE DEF after, e
<1>5. /\ after \in F /\ b \in Spots /\ after \in Spots /\ e \in Spots
      /\ e \in HeadsOf(t) /\ First <= b /\ b < after /\ after < e /\ e <= Last
      /\ ~t.hdr[e].free /\ b \notin F
      /\ NextBlock(t, b) = after /\ NextBlock(t, after) = e
      /\ t.hdr[b].size \in Nat /\ t.hdr[after].size \in Nat
      /\ after = b + 2 + t.hdr[b].size /\ e = after + 2 + t.hdr[after].size
      /\ \A x \in UsedOf(t) : ~(b < x /\ x < e)
      /\ \A x \in Spots : b < x /\ x < e /\ x # after => NoTags(t.hdr[x])
      /\ F \ {after} = K
  BY <1>3 DEF Behind
<1>6. /\ b \in Nat /\ after \in Nat /\ e \in Nat /\ b < e /\ b # e
      /\ \A x \in Spots : x \in Nat
  <2>1. \A x \in Spots : x \in Nat
    BY SpotsArePlaces
  <2>2. /\ b \in Spots /\ after \in Spots /\ e \in Spots
        /\ b < after /\ after < e
    BY <1>5, Zenon
  <2>3. b \in Nat /\ after \in Nat /\ e \in Nat
    BY <2>1, <2>2
  <2> QED
    BY <2>1, <2>2, <2>3
<1>7. Lists(u, K) /\ Merged(t, u, b, e)
  <2> HIDE DEF u, K, F
  <2>1. Lists(u, F \ {after}) /\ Merged(t, u, b, e)
    BY <1>1, <1>5, MergeStep DEF u
  <2> QED
    BY <1>5, <2>1
<1> HIDE DEF u, K
<1>8. /\ u \in Pool /\ NextBlock(u, b) = e
      /\ u.hdr[b].free = t.hdr[b].free /\ u.hdr[b].prevFree = t.hdr[b].prevFree
      /\ u.hdr[b].prev_hdr = t.hdr[b].prev_hdr /\ u.hdr[b].size >= 2
      /\ \A x \in Spots : b < x /\ x < e => NoTags(u.hdr[x])
      /\ \A x \in Spots : x < b \/ x >= e => SameHeader(t, u, x)
  BY <1>7 DEF Merged
<1>9. /\ u.hdr[b].size \in Nat /\ e = b + 2 + u.hdr[b].size
      /\ rest \in Nat /\ rest >= 2 /\ e = b + 2 + n + rest
  <2>1. u.hdr[b].size \in Nat /\ e = b + 2 + u.hdr[b].size
    BY <1>5, <1>8, HeaderFields DEF NextBlock, Overhead
  <2>2. n + 2 <= u.hdr[b].size
    <3>1. /\ t.hdr[b].size \in Nat /\ t.hdr[after].size \in Nat
          /\ after = b + 2 + t.hdr[b].size /\ e = after + 2 + t.hdr[after].size
      BY <1>5, Zenon
    <3> QED
      BY <1>2, <1>6, <2>1, <3>1
  <2> QED
    BY <1>6, <2>1, <2>2
<1>10. Grow(t, b, n) = IF rest >= Header THEN w ELSE v
  <2>1. Grow(t, b, n) =
           LET next == NextBlock(u, b)
               z == [u EXCEPT !.hdr[next].prev_hdr = b, !.hdr[next].prevFree = FALSE]
           IN  IF rest >= Header
               THEN [Cut(z, b, n, rest, next) EXCEPT !.hdr[next].prevFree = TRUE]
               ELSE z
    BY Zenon DEF Grow, u, after
  <2> QED
    BY <1>8, <2>1, Zenon
<1>11. Told(u, v, e, b, FALSE)
  <2>1. FALSE \in BOOLEAN /\ b \in Pointer
    BY <1>5 DEF Pointer
  <2> QED
    BY <1>5, <1>8, <2>1, TellEffect, Zenon
<1> HIDE DEF v, w
<1>12. /\ v \in Pool /\ v.matrix = u.matrix /\ v.sl = u.sl /\ v.fl = u.fl
       /\ \A x \in Spots : v.hdr[x].prev = u.hdr[x].prev /\ v.hdr[x].next = u.hdr[x].next
       /\ v.hdr[e].size = u.hdr[e].size /\ v.hdr[e].free = u.hdr[e].free
       /\ ~v.hdr[e].prevFree /\ v.hdr[e].prev_hdr = b
       /\ \A x \in Spots \ {e} : v.hdr[x] = u.hdr[x]
  BY <1>11 DEF Told, Retagged
<1>13. Lists(v, K)
  <2>1. K \subseteq Spots
    BY <1>7 DEF Lists
  <2>2. \A x \in K : v.hdr[x].size = u.hdr[x].size
    BY <1>12, <2>1
  <2> QED
    BY <1>7, <1>12, <2>2, SameLists
<1>14. \A x \in Spots : x < b \/ x > e => SameHeader(t, v, x)
  <2> SUFFICES ASSUME NEW x \in Spots, x < b \/ x > e PROVE SameHeader(t, v, x)
    OBVIOUS
  <2>1. x # e /\ (x < b \/ x >= e)
    BY <1>6
  <2>2. SameHeader(t, u, x) /\ v.hdr[x] = u.hdr[x]
    BY <1>8, <1>12, <2>1
  <2> QED
    BY <2>2 DEF SameHeader
<1>15. \A x \in Spots : b < x /\ x < e => NoTags(v.hdr[x])
  <2> SUFFICES ASSUME NEW x \in Spots, b < x, x < e PROVE NoTags(v.hdr[x])
    OBVIOUS
  <2>1. x # e
    BY <1>6
  <2> QED
    BY <1>8, <1>12, <2>1
<1>16. /\ v.hdr[b] = u.hdr[b]
       /\ v.hdr[e].size = t.hdr[e].size /\ v.hdr[e].free = t.hdr[e].free
  <2>1. SameHeader(t, u, e)
    <3>1. e \in Spots /\ e \in Nat
      BY <1>5, <1>6, Zenon
    <3>2. e >= e
      BY <3>1
    <3> QED
      BY <1>8, <3>1, <3>2, Zenon
  <2> QED
    BY <1>5, <1>6, <1>12, <2>1 DEF SameHeader
<1>17. Room(t, v, b, e)
  <2>1. Lists(v, {x \in FreeOf(t) : ~(b <= x /\ x < e)})
    BY <1>13 DEF K
  <2> QED
    BY <1>5, <1>6, <1>8, <1>12, <1>14, <1>15, <1>16, <2>1 DEF Room
<1> HIDE DEF rest
<1>18. CASE rest >= Header
  <2>1. Resized(t, w, b, n)
    BY <1>9, <1>17, <1>18, CutOff DEF Header, w
  <2> QED
    BY <1>10, <1>18, <2>1
<1>19. CASE ~(rest >= Header)
  <2>1. ~v.hdr[b].free /\ v.hdr[b].size = u.hdr[b].size
    BY <1>1, <1>8, <1>16
  <2>2. NextBlock(v, b) = e
    BY <1>8, <2>1 DEF NextBlock
  <2>3. Tagged(v, b)
    <3>1. ~v.hdr[e].prevFree /\ ~v.hdr[b].free
      BY <1>12, <2>1
    <3>2. v.hdr[e].prevFree \in BOOLEAN /\ v.hdr[b].free \in BOOLEAN
      BY <1>5, <1>12, HeaderFields
    <3> QED
      BY <2>2, <3>1, <3>2 DEF Tagged
  <2>4. Changed(t, v, b, e)
    <3>1. b # NULL
      BY <1>5, SpotsArePlaces
    <3> QED
      BY <1>1, <1>5, <1>6, <1>8, <1>12, <1>14, <1>16, <2>1, <3>1 DEF Changed
  <2> DEFINE S == {}
             G == K
  <2>5. SoundBut(t, S) /\ \A x \in S : b <= x /\ x < e
    BY <1>1
  <2>6. G = {x \in FreeOf(t) : ~(b <= x /\ x < e)} \cup (IF v.hdr[b].free THEN {b} ELSE {})
    BY <2>1 DEF K
  <2>7. Lists(v, G)
    BY <1>13
  <2> HIDE DEF S, G
  <2>8. Good(v) /\ UsedAfter(t, v, b)
    <3>1. OneFor(t, v, b, e, S, G)
      BY <1>5, <1>15, <2>2, <2>3, <2>4, <2>5, <2>6, <2>7 DEF OneFor
    <3> QED
      BY <3>1, Whole, Zenon
  <2>9. UsedOf(v) = UsedOf(t)
    BY <2>1, <2>8 DEF UsedAfter
  <2>10. v.hdr[b].size >= n
    BY <1>2, <1>6, <1>9, <2>1
  <2>11. Resized(t, v, b, n)
    BY <2>8, <2>9, <2>10 DEF Resized, UsedAfter
  <2> QED
    BY <1>10, <1>19, <2>11
<1> QED
  BY <1>18, <1>19

-----------------------------------------------------------------------------
(* What the client holds.                                                  *)

\* Block x is some buffer's.
Has(p, x) == \E d \in Buffers : p[d] # NULL /\ x = p[d] - Overhead

LEMMA HeldBy ==
  ASSUME NEW t, NEW p \in [Buffers -> Pointer], NEW a \in [Buffers -> Nat]
  PROVE  Held(t, p, a) <=>
            /\ \A x : x \in UsedOf(t) <=> Has(p, x)
            /\ \A b \in Buffers : p[b] # NULL => t.hdr[p[b] - Overhead].size >= a[b]
            /\ \A b, d \in Buffers : p[b] # NULL /\ p[b] = p[d] => b = d
<1>1. (UsedOf(t) = {p[b] - Overhead : b \in {d \in Buffers : p[d] # NULL}})
         <=> \A x : x \in UsedOf(t) <=> Has(p, x)
  <2> DEFINE S == {p[b] - Overhead : b \in {d \in Buffers : p[d] # NULL}}
  <2>1. \A x : x \in S <=> Has(p, x)
    BY Zenon DEF Has
  <2> HIDE DEF S
  <2>2. UsedOf(t) = S <=> \A x : x \in UsedOf(t) <=> x \in S
    OBVIOUS
  <2> QED
    BY <2>1, <2>2 DEF S
<1> QED
  BY <1>1, Zenon DEF Held

\* Different pointers are pointers to different blocks.
LEMMA PointersApart ==
  ASSUME NEW q \in Pointer, NEW r \in Pointer, q - Overhead = r - Overhead
  PROVE  q = r
<1>1. q \in Nat /\ r \in Nat
  BY SpotsArePlaces DEF Pointer
<1> QED
  BY <1>1 DEF Overhead

LEMMA HeldTaken ==
  ASSUME NEW t, NEW p, NEW a, Held(t, p, a), NEW b \in Buffers, p[b] = NULL,
         NEW u, NEW q \in Pointer, q # NULL, q - Overhead \in FreeOf(t),
         Taken(t, u, q - Overhead),
         NEW n \in Nat, u.hdr[q - Overhead].size >= n
  PROVE  Held(u, [p EXCEPT ![b] = q], [a EXCEPT ![b] = n])
<1> DEFINE pp == [p EXCEPT ![b] = q]
           aa == [a EXCEPT ![b] = n]
           k == q - Overhead
<1>1. p \in [Buffers -> Pointer] /\ a \in [Buffers -> Nat]
  BY DEF Held
<1>2. /\ \A x : x \in UsedOf(t) <=> Has(p, x)
      /\ \A d \in Buffers : p[d] # NULL => t.hdr[p[d] - Overhead].size >= a[d]
      /\ \A d, f \in Buffers : p[d] # NULL /\ p[d] = p[f] => d = f
  BY <1>1, HeldBy
<1>3. /\ pp \in [Buffers -> Pointer] /\ aa \in [Buffers -> Nat]
      /\ pp[b] = q /\ aa[b] = n
      /\ \A d \in Buffers : d # b => pp[d] = p[d] /\ aa[d] = a[d]
  BY <1>1
<1>4. k \notin UsedOf(t) /\ u.hdr[k].size >= n /\ k = pp[b] - Overhead
  BY <1>3 DEF UsedOf, FreeOf
<1>5. /\ \A x : x \in UsedOf(u) <=> (x \in UsedOf(t) \/ x = k)
      /\ \A x \in UsedOf(t) : u.hdr[x].size = t.hdr[x].size
  BY <1>4 DEF Taken
<1> HIDE DEF pp, aa, k
<1>6. ASSUME NEW x PROVE x \in UsedOf(u) <=> Has(pp, x)
  <2>1. Has(pp, x) <=> (Has(p, x) \/ x = k)
    BY <1>3, <1>4 DEF Has
  <2> QED
    BY <1>2, <1>5, <2>1
<1>7. ASSUME NEW d \in Buffers, d # b, p[d] # NULL
      PROVE  /\ p[d] - Overhead \in UsedOf(t) /\ p[d] # q
             /\ u.hdr[p[d] - Overhead].size >= a[d]
  <2>1. p[d] - Overhead \in UsedOf(t)
    BY <1>2, <1>7 DEF Has
  <2>2. p[d] # q
    BY <1>3, <1>4, <2>1
  <2> QED
    BY <1>2, <1>5, <1>7, <2>1, <2>2
<1>8. \A d \in Buffers : pp[d] # NULL => u.hdr[pp[d] - Overhead].size >= aa[d]
  BY <1>3, <1>4, <1>7
<1>9. \A d, f \in Buffers : pp[d] # NULL /\ pp[d] = pp[f] => d = f
  BY <1>2, <1>3, <1>7
<1>10. Held(u, pp, aa)
  BY <1>3, <1>6, <1>8, <1>9, HeldBy
<1> QED
  BY <1>10 DEF pp, aa

LEMMA HeldFreed ==
  ASSUME NEW t, NEW p, NEW a, Held(t, p, a), NEW b \in Buffers, p[b] # NULL,
         NEW u, Freed(t, u, p[b] - Overhead)
  PROVE  Held(u, [p EXCEPT ![b] = NULL], [a EXCEPT ![b] = 0])
<1> DEFINE pp == [p EXCEPT ![b] = NULL]
           aa == [a EXCEPT ![b] = 0]
           k == p[b] - Overhead
<1>1. p \in [Buffers -> Pointer] /\ a \in [Buffers -> Nat]
  BY DEF Held
<1>2. /\ \A x : x \in UsedOf(t) <=> Has(p, x)
      /\ \A d \in Buffers : p[d] # NULL => t.hdr[p[d] - Overhead].size >= a[d]
      /\ \A d, f \in Buffers : p[d] # NULL /\ p[d] = p[f] => d = f
  BY <1>1, HeldBy
<1>3. /\ pp \in [Buffers -> Pointer] /\ aa \in [Buffers -> Nat]
      /\ pp[b] = NULL /\ aa[b] = 0
      /\ \A d \in Buffers : d # b => pp[d] = p[d] /\ aa[d] = a[d]
  BY <1>1 DEF Pointer
<1>4. /\ \A x : x \in UsedOf(u) <=> (x \in UsedOf(t) /\ x # k)
      /\ \A x \in UsedOf(t) : x # k => u.hdr[x].size = t.hdr[x].size
      /\ k = p[b] - Overhead
  BY DEF Freed
<1> HIDE DEF pp, aa, k
<1>5. ASSUME NEW d \in Buffers, d # b, p[d] # NULL
      PROVE  p[d] - Overhead \in UsedOf(t) /\ p[d] - Overhead # k
  <2>1. p[d] # p[b]
    BY <1>2, <1>5
  <2>2. p[d] - Overhead # p[b] - Overhead
    BY <1>1, <2>1, PointersApart
  <2> QED
    BY <1>2, <1>4, <1>5, <2>2 DEF Has
<1>6. ASSUME NEW x PROVE x \in UsedOf(u) <=> Has(pp, x)
  <2>1. Has(pp, x) <=> (Has(p, x) /\ x # k)
    BY <1>3, <1>4, <1>5 DEF Has
  <2> QED
    BY <1>2, <1>4, <2>1
<1>7. \A d \in Buffers : pp[d] # NULL => u.hdr[pp[d] - Overhead].size >= aa[d]
  BY <1>2, <1>3, <1>4, <1>5
<1>8. \A d, f \in Buffers : pp[d] # NULL /\ pp[d] = pp[f] => d = f
  BY <1>2, <1>3
<1>9. Held(u, pp, aa)
  BY <1>3, <1>6, <1>7, <1>8, HeldBy
<1> QED
  BY <1>9 DEF pp, aa

LEMMA HeldResized ==
  ASSUME NEW t, NEW p, NEW a, Held(t, p, a), NEW b \in Buffers, p[b] # NULL,
         NEW u, NEW n \in Nat, NEW size \in Nat, n <= size,
         Resized(t, u, p[b] - Overhead, size), u.hdr[p[b] - Overhead].size \in Nat
  PROVE  Held(u, p, [a EXCEPT ![b] = n])
<1> DEFINE aa == [a EXCEPT ![b] = n]
           k == p[b] - Overhead
<1>1. p \in [Buffers -> Pointer] /\ a \in [Buffers -> Nat]
  BY DEF Held
<1>2. /\ \A x : x \in UsedOf(t) <=> Has(p, x)
      /\ \A d \in Buffers : p[d] # NULL => t.hdr[p[d] - Overhead].size >= a[d]
      /\ \A d, f \in Buffers : p[d] # NULL /\ p[d] = p[f] => d = f
  BY <1>1, HeldBy
<1>3. /\ aa \in [Buffers -> Nat] /\ aa[b] = n
      /\ \A d \in Buffers : d # b => aa[d] = a[d]
  BY <1>1
<1>4. /\ UsedOf(u) = UsedOf(t)
      /\ \A x \in UsedOf(t) : x # k => u.hdr[x].size = t.hdr[x].size
      /\ u.hdr[k].size >= n /\ k = p[b] - Overhead
  <2>1. u.hdr[k].size >= size
    BY DEF Resized
  <2>2. u.hdr[k].size \in Nat
    OBVIOUS
  <2>3. u.hdr[k].size >= n
    BY <2>1, <2>2
  <2> QED
    BY <2>3 DEF Resized
<1> HIDE DEF aa, k
<1>5. ASSUME NEW d \in Buffers, d # b, p[d] # NULL
      PROVE  p[d] - Overhead \in UsedOf(t) /\ p[d] - Overhead # k
  <2>1. p[d] # p[b]
    BY <1>2, <1>5
  <2>2. p[d] - Overhead # p[b] - Overhead
    BY <1>1, <2>1, PointersApart
  <2> QED
    BY <1>2, <1>4, <1>5, <2>2 DEF Has
<1>6. \A d \in Buffers : p[d] # NULL => u.hdr[p[d] - Overhead].size >= aa[d]
  BY <1>2, <1>3, <1>4, <1>5
<1>7. Held(u, p, aa)
  BY <1>1, <1>2, <1>3, <1>4, <1>6, HeldBy
<1> QED
  BY <1>7 DEF aa

LEMMA HeldMoved ==
  ASSUME NEW t, NEW p, NEW a, Held(t, p, a), NEW b \in Buffers, p[b] # NULL,
         NEW u, NEW q \in Pointer, q # NULL, q - Overhead \in FreeOf(t),
         Taken(t, u, q - Overhead), NEW v, Freed(u, v, p[b] - Overhead),
         NEW n \in Nat, u.hdr[q - Overhead].size >= n
  PROVE  Held(v, [p EXCEPT ![b] = q], [a EXCEPT ![b] = n])
<1> DEFINE pp == [p EXCEPT ![b] = q]
           aa == [a EXCEPT ![b] = n]
           k == q - Overhead
           h == p[b] - Overhead
<1>1. p \in [Buffers -> Pointer] /\ a \in [Buffers -> Nat]
  BY DEF Held
<1>2. /\ \A x : x \in UsedOf(t) <=> Has(p, x)
      /\ \A d \in Buffers : p[d] # NULL => t.hdr[p[d] - Overhead].size >= a[d]
      /\ \A d, f \in Buffers : p[d] # NULL /\ p[d] = p[f] => d = f
  BY <1>1, HeldBy
<1>3. /\ pp \in [Buffers -> Pointer] /\ aa \in [Buffers -> Nat]
      /\ pp[b] = q /\ aa[b] = n
      /\ \A d \in Buffers : d # b => pp[d] = p[d] /\ aa[d] = a[d]
  BY <1>1
<1>4. /\ k \notin UsedOf(t) /\ u.hdr[k].size >= n /\ k = pp[b] - Overhead
      /\ h = p[b] - Overhead /\ h \in UsedOf(t)
  BY <1>2, <1>3 DEF UsedOf, FreeOf, Has
<1>5. /\ \A x : x \in UsedOf(v) <=> ((x \in UsedOf(t) \/ x = k) /\ x # h)
      /\ \A x \in UsedOf(t) : x # h => v.hdr[x].size = t.hdr[x].size
      /\ v.hdr[k].size = u.hdr[k].size
  BY <1>4 DEF Taken, Freed
<1> HIDE DEF pp, aa, k, h
<1>6. ASSUME NEW d \in Buffers, d # b, p[d] # NULL
      PROVE  /\ p[d] - Overhead \in UsedOf(t) /\ p[d] - Overhead # h /\ p[d] # q
             /\ v.hdr[p[d] - Overhead].size >= a[d]
  <2>1. p[d] # p[b]
    BY <1>2, <1>6
  <2>2. p[d] - Overhead # h
    BY <1>1, <1>4, <2>1, PointersApart
  <2>3. p[d] - Overhead \in UsedOf(t)
    BY <1>2, <1>6 DEF Has
  <2>4. p[d] # q
    BY <1>3, <1>4, <2>3
  <2> QED
    BY <1>2, <1>5, <1>6, <2>2, <2>3, <2>4
<1>7. ASSUME NEW x PROVE x \in UsedOf(v) <=> Has(pp, x)
  <2>1. Has(pp, x) <=> (Has(p, x) \/ x = k) /\ x # h
    <3>1. k # h
      BY <1>4
    <3> QED
      BY <1>3, <1>4, <1>6, <3>1 DEF Has
  <2> QED
    BY <1>2, <1>5, <2>1
<1>8. \A d \in Buffers : pp[d] # NULL => v.hdr[pp[d] - Overhead].size >= aa[d]
  BY <1>3, <1>4, <1>5, <1>6
<1>9. \A d, f \in Buffers : pp[d] # NULL /\ pp[d] = pp[f] => d = f
  BY <1>2, <1>3, <1>6
<1>10. Held(v, pp, aa)
  BY <1>3, <1>7, <1>8, <1>9, HeldBy
<1> QED
  BY <1>10 DEF pp, aa

-----------------------------------------------------------------------------
(* The pool at first.                                                      *)

LEMMA EmptyFields ==
  /\ EmptyPool \in Pool
  /\ EmptyPool.hdr[Area] = [Dead EXCEPT !.size = AreaInfo]
  /\ EmptyPool.hdr[First] = [Dead EXCEPT !.size = FirstSize]
  /\ EmptyPool.hdr[Last] = [Dead EXCEPT !.prevFree = TRUE, !.prev_hdr = First]
  /\ \A x \in Spots \ {Area, First, Last} : EmptyPool.hdr[x] = Dead
  /\ EmptyPool.matrix = [c \in Class |-> NULL]
  /\ EmptyPool.sl = {} /\ EmptyPool.fl = {}
<1>1. /\ Area \in Spots /\ First \in Spots /\ Last \in Spots
      /\ Area # First /\ First # Last /\ Area # Last
      /\ FirstSize \in Nat
  BY SpotsArePlaces, Parameters
<1>2. Dead \in Block
  BY DEF Dead, Block, Pointer
<1> DEFINE hd == EmptyPool.hdr
<1>3. EmptyPool = [hdr |-> hd, matrix |-> [c \in Class |-> NULL], sl |-> {}, fl |-> {}]
  BY DEF EmptyPool
<1>4. /\ [Dead EXCEPT !.size = AreaInfo] \in Block
      /\ [Dead EXCEPT !.size = FirstSize] \in Block
      /\ [Dead EXCEPT !.prevFree = TRUE, !.prev_hdr = First] \in Block
  BY <1>1, <1>2 DEF Dead, Block, Pointer, AreaInfo
<1> DEFINE a == [Dead EXCEPT !.size = AreaInfo]
           f == [Dead EXCEPT !.size = FirstSize]
           l == [Dead EXCEPT !.prevFree = TRUE, !.prev_hdr = First]
<1>5. hd = [x \in Spots |-> CASE x = Area -> a [] x = First -> f [] x = Last -> l
                              [] OTHER -> Dead]
  BY Zenon DEF EmptyPool
<1> HIDE DEF a, f, l
<1>6. /\ a \in Block /\ f \in Block /\ l \in Block
  BY <1>4 DEF a, f, l
<1> HIDE DEF hd
<1>7. /\ hd[Area] = a /\ hd[First] = f /\ hd[Last] = l
      /\ \A x \in Spots \ {Area, First, Last} : hd[x] = Dead
  BY <1>1, <1>5
<1>8. hd \in [Spots -> Block]
  BY <1>2, <1>5, <1>6
<1>9. EmptyPool \in Pool
  BY <1>3, <1>8 DEF Pool, Pointer
<1> QED
  BY <1>3, <1>7, <1>9 DEF a, f, l, hd

LEMMA InitialIsGood ==
  Good(InitialPool) /\ UsedOf(InitialPool) = {}
<1> DEFINE t == EmptyPool
<1>1. /\ t \in Pool
      /\ t.hdr[Area].size = 2 /\ ~t.hdr[Area].free /\ ~t.hdr[Area].prevFree
      /\ t.hdr[Area].prev_hdr = NULL
      /\ t.hdr[First].size = FirstSize /\ ~t.hdr[First].free /\ ~t.hdr[First].prevFree
      /\ t.hdr[First].prev_hdr = NULL
      /\ t.hdr[Last].size = 0 /\ ~t.hdr[Last].free /\ t.hdr[Last].prev_hdr = First
      /\ \A x \in Spots \ {Area, First, Last} : t.hdr[x] = Dead
      /\ \A x \in Spots : t.hdr[x].prev = NULL /\ t.hdr[x].next = NULL
      /\ t.matrix = [c \in Class |-> NULL] /\ t.sl = {} /\ t.fl = {}
  <2>1. /\ t \in Pool
        /\ t.hdr[Area] = [Dead EXCEPT !.size = AreaInfo]
        /\ t.hdr[First] = [Dead EXCEPT !.size = FirstSize]
        /\ t.hdr[Last] = [Dead EXCEPT !.prevFree = TRUE, !.prev_hdr = First]
        /\ \A x \in Spots \ {Area, First, Last} : t.hdr[x] = Dead
        /\ t.matrix = [c \in Class |-> NULL] /\ t.sl = {} /\ t.fl = {}
    BY EmptyFields
  <2> HIDE DEF t
  <2>2. /\ t.hdr[Area].size = 2 /\ ~t.hdr[Area].free /\ ~t.hdr[Area].prevFree
        /\ t.hdr[Area].prev_hdr = NULL
        /\ t.hdr[Area].prev = NULL /\ t.hdr[Area].next = NULL
    BY <2>1 DEF Dead, AreaInfo
  <2>3. /\ t.hdr[First].size = FirstSize /\ ~t.hdr[First].free
        /\ ~t.hdr[First].prevFree /\ t.hdr[First].prev_hdr = NULL
        /\ t.hdr[First].prev = NULL /\ t.hdr[First].next = NULL
    BY <2>1 DEF Dead
  <2>4. /\ t.hdr[Last].size = 0 /\ ~t.hdr[Last].free /\ t.hdr[Last].prev_hdr = First
        /\ t.hdr[Last].prev = NULL /\ t.hdr[Last].next = NULL
    BY <2>1 DEF Dead
  <2>5. Dead.prev = NULL /\ Dead.next = NULL
    BY DEF Dead
  <2>6. \A x \in Spots : t.hdr[x].prev = NULL /\ t.hdr[x].next = NULL
    BY <2>1, <2>2, <2>3, <2>4, <2>5
  <2> QED
    BY <2>1, <2>2, <2>3, <2>4, <2>6
<1> HIDE DEF t
<1>2. /\ Area \in Spots /\ First \in Spots /\ Last \in Spots
      /\ Area = 2 /\ First = 6 /\ Last = 8 + FirstSize
      /\ FirstSize \in Nat /\ FirstSize >= 2
      /\ Area # First /\ First # Last /\ Area # Last
  BY SpotsArePlaces, Parameters
<1>3. HeadsOf(t) = {Area, First, Last}
  <2>1. \A x \in Spots \ {Area, First, Last} : t.hdr[x].size = 0
    BY <1>1 DEF Dead
  <2>2. \A x \in Spots : x \in HeadsOf(t) <=> x \in {Area, First, Last}
    <3>1. t.hdr[Area].size >= MinBlock /\ t.hdr[First].size >= MinBlock
      BY <1>1, <1>2 DEF MinBlock
    <3>2. \A x \in Spots \ {Area, First, Last} : ~(t.hdr[x].size >= MinBlock)
      BY <2>1 DEF MinBlock
    <3> QED
      BY <1>2, <3>1, <3>2, Zenon DEF HeadsOf
  <2>3. HeadsOf(t) \subseteq Spots /\ {Area, First, Last} \subseteq Spots
    BY <1>2 DEF HeadsOf
  <2> QED
    BY <2>2, <2>3
<1>4. FreeOf(t) = {}
  BY <1>1 DEF FreeOf, Dead
<1>5. UsedOf(t) = {First}
  BY <1>1, <1>2, <1>3 DEF UsedOf
<1>6. NextBlock(t, Area) = First /\ NextBlock(t, First) = Last
  BY <1>1, <1>2 DEF NextBlock, Overhead
<1>7. SoundBut(t, {First})
  <2>1. Ends(t)
    BY <1>1, <1>2, SpotsArePlaces DEF Ends, AreaInfo, MinBlock
  <2>2. Plain(t)
    BY <1>1, <1>2 DEF Plain, NoTags, Dead, MinBlock
  <2>3. Adjacent(t)
    BY <1>2, <1>3, <1>6 DEF Adjacent
  <2>4. Tagged(t, Area)
    BY <1>1, <1>2, <1>6, HeaderFields DEF Tagged
  <2> QED
    BY <1>1, <1>3, <2>1, <2>2, <2>3, <2>4 DEF SoundBut
<1>8. Lists(t, FreeOf(t))
  <2>1. Linked(t, {}) /\ Headed(t, {}) /\ Unlinked(t, {}) /\ Mapped(t)
    BY <1>1 DEF Linked, Headed, Unlinked, Mapped
  <2>2. Ranked(t, {})
    <3>1. [x \in Spots |-> 0] \in [Spots -> Nat]
      OBVIOUS
    <3> QED
      BY <3>1 DEF Ranked
  <2>3. Lists(t, {})
    BY <1>1, <2>1, <2>2 DEF Lists
  <2> QED
    BY <1>4, <2>3
<1>9. (First + Overhead) - Overhead = First
  BY <1>2 DEF Overhead
<1> DEFINE p == First + Overhead
<1>10. p - Overhead \in UsedOf(t) /\ SoundBut(t, {p - Overhead})
  BY <1>5, <1>7, <1>9
<1> HIDE DEF p
<1>11. Freed(t, FreeEx(t, p), p - Overhead)
  BY <1>8, <1>10, FreeStep
<1>12. InitialPool = FreeEx(t, p)
  BY Zenon DEF InitialPool, t, p
<1>13. p - Overhead = First
  BY <1>9 DEF p
<1> QED
  BY <1>5, <1>11, <1>12, <1>13 DEF Freed

-----------------------------------------------------------------------------
(* The invariant.                                                          *)

\* A buffer's block is used, and lies in the pool.
LEMMA HeldBlock ==
  ASSUME NEW t, Good(t), NEW p, NEW a, Held(t, p, a), NEW b \in Buffers, p[b] # NULL
  PROVE  LET h == p[b] - Overhead IN
         /\ h \in UsedOf(t) /\ h \in Nat /\ p[b] \in Nat /\ p[b] = h + 2
         /\ First <= h /\ t.hdr[h].size \in Nat
         /\ h + 2 + t.hdr[h].size <= Last
<1> DEFINE h == p[b] - Overhead
<1>1. p \in [Buffers -> Pointer] /\ a \in [Buffers -> Nat]
  BY DEF Held
<1>2. h \in UsedOf(t)
  BY <1>1, HeldBy DEF Has
<1>3. p[b] \in Nat /\ p[b] = h + 2
  <2>1. p[b] \in Pointer
    BY <1>1
  <2>2. p[b] \in Nat
    BY <2>1, SpotsArePlaces DEF Pointer
  <2> QED
    BY <2>2 DEF Overhead
<1> HIDE DEF h
<1>4. h \in HeadsOf(t) /\ h # Area /\ h # Last /\ SoundBut(t, {}) /\ t \in Pool
  BY <1>2 DEF UsedOf, Good, Sound, SoundBut
<1>5. /\ h \in Spots /\ h \in Nat /\ First <= h
      /\ NextBlock(t, h) <= Last /\ NextBlock(t, h) = h + 2 + t.hdr[h].size
  BY <1>4, Span
<1>6. t.hdr[h].size \in Nat
  BY <1>4, <1>5, HeaderFields
<1> QED
  BY <1>2, <1>3, <1>5, <1>6 DEF h

\* The requests can be rounded up, and rounded up again.
LEMMA RequestRange ==
  ASSUME NEW n \in Requests
  PROVE  /\ n \in 0 .. (Pow2[29] - 1) /\ n \in Nat
         /\ Rounded(n) \in 0 .. (Pow2[29] - 1) /\ Rounded(n) \in Nat
         /\ 2 <= Rounded(n) /\ n <= Rounded(n)
<1>1. Pow2[29] \in Nat /\ n \in 0 .. (Pow2[29] - 2)
  BY Parameters
<1>2. Pow2[29] >= 4
  <2>1. 0 \in 0 .. 30 /\ 1 \in 0 .. 30 /\ 2 \in 0 .. 30 /\ 29 \in 0 .. 30
    OBVIOUS
  <2>2. Pow2[0] = 1 /\ Pow2[1] = 2 * Pow2[0] /\ Pow2[2] = 2 * Pow2[1]
    BY <2>1, Pow2Def
  <2>3. Pow2[2] = 4 /\ 2 <= 29
    BY <2>2
  <2> QED
    BY <1>1, <2>1, <2>3, Pow2Grows
<1>3. n \in 0 .. (Pow2[29] - 1)
  BY <1>1
<1>4. /\ Rounded(n) \in 1 .. Pow2[29] /\ Rounded(n) >= 2 /\ Rounded(n) >= n
      /\ (n >= 2 => Rounded(n) <= n + 1)
  BY <1>3, RoundedRange
<1>5. n < 2 => Rounded(n) = 2
  BY <1>1 DEF Rounded, MinBlock
<1> QED
  BY <1>1, <1>2, <1>3, <1>4, <1>5

LEMMA HeapInit ==
  Init => HeapInv
<1> SUFFICES ASSUME Init PROVE HeapInv
  OBVIOUS
<1>1. /\ tlsf = InitialPool
      /\ ptr = [b \in Buffers |-> NULL] /\ asked = [b \in Buffers |-> 0]
  BY DEF Init
<1>2. Good(tlsf) /\ UsedOf(tlsf) = {}
  BY <1>1, InitialIsGood
<1>3. Held(tlsf, ptr, asked)
  <2>1. ptr \in [Buffers -> Pointer] /\ asked \in [Buffers -> Nat]
    BY <1>1 DEF Pointer
  <2>2. \A b \in Buffers : ptr[b] = NULL
    BY <1>1
  <2> QED
    BY <1>2, <2>1, <2>2, HeldBy DEF Has
<1> QED
  BY <1>2, <1>3 DEF HeapInv, Good

\* malloc.
LEMMA MallocKeeps ==
  ASSUME HeapInv, NEW b \in Buffers, NEW n \in Requests, Malloc(b, n)
  PROVE  HeapInv'
<1> DEFINE got == MallocEx(tlsf, n)
           size == MappingSearch(Rounded(n)).size
<1>1. Good(tlsf) /\ Held(tlsf, ptr, asked)
  BY DEF HeapInv, Good
<1>2. ptr \in [Buffers -> Pointer] /\ asked \in [Buffers -> Nat]
  BY <1>1 DEF Held
<1>3. /\ ptr[b] = NULL /\ tlsf' = got.tlsf
      /\ ptr' = [ptr EXCEPT ![b] = got.ptr]
      /\ asked' = [asked EXCEPT ![b] = IF got.ptr = NULL THEN 0 ELSE n]
  BY DEF Malloc
<1>4. Rounded(n) \in Nat /\ n \in Nat /\ n <= Rounded(n) /\ n \in 0 .. (Pow2[29] - 1)
  BY RequestRange
<1>5. Got(tlsf, got, size) /\ size \in Nat /\ size >= Rounded(n)
  BY <1>1, <1>4, MallocStep
<1> HIDE DEF got, size
<1>6. CASE got.ptr = NULL
  <2>1. tlsf' = tlsf
    BY <1>3, <1>5, <1>6 DEF Got
  <2>2. ptr' = ptr
    BY <1>2, <1>3, <1>6
  <2>3. asked' \in [Buffers -> Nat] /\ asked' = [asked EXCEPT ![b] = 0]
    BY <1>2, <1>3, <1>6
  <2>4. Held(tlsf, ptr, asked')
    <3>1. /\ \A x : x \in UsedOf(tlsf) <=> Has(ptr, x)
          /\ \A d \in Buffers : ptr[d] # NULL => tlsf.hdr[ptr[d] - Overhead].size >= asked[d]
          /\ \A d, f \in Buffers : ptr[d] # NULL /\ ptr[d] = ptr[f] => d = f
      BY <1>1, <1>2, HeldBy
    <3>2. \A d \in Buffers : ptr[d] # NULL => asked'[d] = asked[d]
      BY <1>2, <1>3, <2>3
    <3> DEFINE aa == asked'
    <3>3. aa \in [Buffers -> Nat]
      BY <2>3
    <3>4. \A d \in Buffers : ptr[d] # NULL => tlsf.hdr[ptr[d] - Overhead].size >= aa[d]
      BY <3>1, <3>2
    <3> HIDE DEF aa
    <3>5. Held(tlsf, ptr, aa)
      BY <1>2, <3>1, <3>3, <3>4, HeldBy
    <3> QED
      BY <3>5 DEF aa
  <2> QED
    BY <1>1, <2>1, <2>2, <2>4 DEF HeapInv, Good
<1>7. CASE got.ptr # NULL
  <2> DEFINE q == got.ptr
  <2>1. /\ q - Overhead \in FreeOf(tlsf) /\ q \in Pointer
        /\ tlsf'.hdr[q - Overhead].size >= size
        /\ Taken(tlsf, tlsf', q - Overhead)
    BY <1>3, <1>5, <1>7 DEF Got
  <2>2. tlsf'.hdr[q - Overhead].size \in Nat
    <3>1. tlsf' \in Pool
      BY <2>1 DEF Taken, Good, Sound, SoundBut
    <3>2. q - Overhead \in Spots
      BY <2>1 DEF FreeOf
    <3> QED
      BY <3>1, <3>2, HeaderFields
  <2>3. tlsf'.hdr[q - Overhead].size >= n
    BY <1>4, <1>5, <2>1, <2>2
  <2>4. ptr' = [ptr EXCEPT ![b] = q] /\ asked' = [asked EXCEPT ![b] = n]
    BY <1>3, <1>7
  <2> DEFINE u == tlsf'
  <2>5. /\ Taken(tlsf, u, q - Overhead) /\ u.hdr[q - Overhead].size >= n
    BY <2>1, <2>3
  <2> HIDE DEF u
  <2>6. Held(u, [ptr EXCEPT ![b] = q], [asked EXCEPT ![b] = n])
    BY <1>1, <1>3, <1>4, <1>7, <2>1, <2>5, HeldTaken
  <2>7. Held(tlsf', ptr', asked')
    BY <2>4, <2>6 DEF u
  <2>8. Good(tlsf')
    BY <2>1 DEF Taken
  <2> QED
    BY <2>7, <2>8 DEF HeapInv, Good
<1> QED
  BY <1>6, <1>7

\* free.
LEMMA FreeKeeps ==
  ASSUME HeapInv, NEW b \in Buffers, Free(b)
  PROVE  HeapInv'
<1> DEFINE u == FreeEx(tlsf, ptr[b])
           h == ptr[b] - Overhead
<1>1. Good(tlsf) /\ Held(tlsf, ptr, asked)
  BY DEF HeapInv, Good
<1>2. /\ ptr[b] # NULL /\ tlsf' = u
      /\ ptr' = [ptr EXCEPT ![b] = NULL] /\ asked' = [asked EXCEPT ![b] = 0]
  BY DEF Free
<1>3. h \in UsedOf(tlsf)
  BY <1>1, <1>2, HeldBlock
<1>4. SoundBut(tlsf, {h}) /\ Lists(tlsf, FreeOf(tlsf))
  BY <1>1 DEF Good, Sound, SoundBut
<1>5. Freed(tlsf, u, h)
  BY <1>3, <1>4, FreeStep
<1> HIDE DEF u
<1>6. Held(u, [ptr EXCEPT ![b] = NULL], [asked EXCEPT ![b] = 0])
  BY <1>1, <1>2, <1>5, HeldFreed
<1>7. Good(u)
  BY <1>5 DEF Freed
<1> QED
  BY <1>2, <1>6, <1>7 DEF HeapInv, Good

\* realloc in place.
LEMMA ReallocInPlaceKeeps ==
  ASSUME HeapInv, NEW b \in Buffers, NEW n \in Requests, ReallocInPlace(b, n)
  PROVE  HeapInv'
<1> DEFINE h == ptr[b] - Overhead
           size == Rounded(n)
           u == tlsf'
<1>1. Good(tlsf) /\ Held(tlsf, ptr, asked)
  BY DEF HeapInv, Good
<1>2. /\ ptr[b] # NULL /\ ptr' = ptr /\ asked' = [asked EXCEPT ![b] = n]
      /\ \/ size <= tlsf.hdr[h].size /\ tlsf' = Shrink(tlsf, h, size)
         \/ CanGrow(tlsf, h, size) /\ tlsf' = Grow(tlsf, h, size)
  BY DEF ReallocInPlace
<1>3. size \in Nat /\ 2 <= size /\ n \in Nat /\ n <= size
  BY RequestRange
<1>4. h \in UsedOf(tlsf)
  BY <1>1, <1>2, HeldBlock
<1> HIDE DEF size
<1>5. Resized(tlsf, u, h, size)
  <2>1. CASE size <= tlsf.hdr[h].size /\ tlsf' = Shrink(tlsf, h, size)
    <3> HIDE DEF h
    <3>1. Resized(tlsf, Shrink(tlsf, h, size), h, size)
      BY <1>1, <1>3, <1>4, <2>1, ShrinkStep
    <3> QED
      BY <2>1, <3>1
  <2>2. CASE CanGrow(tlsf, h, size) /\ tlsf' = Grow(tlsf, h, size)
    <3> HIDE DEF h
    <3>1. Resized(tlsf, Grow(tlsf, h, size), h, size)
      BY <1>1, <1>3, <1>4, <2>2, GrowStep
    <3> QED
      BY <2>2, <3>1
  <2> QED
    BY <1>2, <2>1, <2>2
<1> HIDE DEF u
<1>6. u.hdr[h].size \in Nat
  <2>1. u \in Pool /\ h \in Spots
    BY <1>4, <1>5, SpotsArePlaces DEF Resized, Good, Sound, SoundBut, UsedOf, HeadsOf
  <2> QED
    BY <2>1, HeaderFields
<1>7. Held(u, ptr, [asked EXCEPT ![b] = n])
  BY <1>1, <1>2, <1>3, <1>5, <1>6, HeldResized
<1>8. Good(u)
  BY <1>5 DEF Resized
<1> QED
  BY <1>2, <1>7, <1>8 DEF HeapInv, Good, u

\* realloc to another block.
LEMMA ReallocMoveKeeps ==
  ASSUME HeapInv, NEW b \in Buffers, NEW n \in Requests, ReallocMove(b, n)
  PROVE  HeapInv'
<1> DEFINE h == ptr[b] - Overhead
           got == MallocEx(tlsf, Rounded(n))
           size == MappingSearch(Rounded(Rounded(n))).size
           u == got.tlsf
           q == got.ptr
           v == FreeEx(u, ptr[b])
<1>1. Good(tlsf) /\ Held(tlsf, ptr, asked)
  BY DEF HeapInv, Good
<1>2. /\ ptr[b] # NULL
      /\ q = NULL => tlsf' = tlsf /\ ptr' = ptr /\ asked' = asked
      /\ q # NULL => /\ tlsf' = v /\ ptr' = [ptr EXCEPT ![b] = q]
                     /\ asked' = [asked EXCEPT ![b] = n]
  BY DEF ReallocMove, vars
<1>3. /\ Rounded(n) \in 0 .. (Pow2[29] - 1) /\ Rounded(n) \in Nat
      /\ n \in Nat /\ n <= Rounded(n)
  BY RequestRange
<1>4. Rounded(Rounded(n)) \in Nat /\ Rounded(Rounded(n)) >= Rounded(n)
  BY <1>3, RoundedRange
<1>5. Got(tlsf, got, size) /\ size \in Nat /\ size >= Rounded(Rounded(n))
  BY <1>1, <1>3, MallocStep
<1> HIDE DEF got, size, v
<1>6. CASE q = NULL
  BY <1>2, <1>6 DEF HeapInv
<1>7. CASE q # NULL
  <2>1. /\ q - Overhead \in FreeOf(tlsf) /\ q \in Pointer
        /\ u.hdr[q - Overhead].size >= size
        /\ Taken(tlsf, u, q - Overhead)
    BY <1>5, <1>7 DEF Got
  <2> HIDE DEF q, u
  <2>2. Good(u) /\ UsedOf(u) = UsedOf(tlsf) \cup {q - Overhead}
    BY <2>1 DEF Taken
  <2>3. u.hdr[q - Overhead].size \in Nat
    <3>1. u \in Pool
      BY <2>2 DEF Good, Sound, SoundBut
    <3>2. q - Overhead \in Spots
      BY <2>1 DEF FreeOf
    <3> QED
      BY <3>1, <3>2, HeaderFields
  <2>4. u.hdr[q - Overhead].size >= n
    BY <1>3, <1>4, <1>5, <2>1, <2>3
  <2>5. h \in UsedOf(u)
    BY <1>1, <1>2, <2>2, HeldBlock
  <2>6. SoundBut(u, {h}) /\ Lists(u, FreeOf(u))
    BY <2>2 DEF Good, Sound, SoundBut
  <2>7. Freed(u, v, h)
    BY <2>5, <2>6, FreeStep DEF v, u
  <2>8. Held(v, [ptr EXCEPT ![b] = q], [asked EXCEPT ![b] = n])
    BY <1>1, <1>2, <1>3, <1>7, <2>1, <2>4, <2>7, HeldMoved
  <2>9. Good(v)
    BY <2>7 DEF Freed
  <2> QED
    BY <1>2, <1>7, <2>8, <2>9 DEF HeapInv, Good
<1> QED
  BY <1>6, <1>7

\* Who wrote the cells: every operation on them keeps to the pool.
WordType == [Cells -> Buffers \cup {Nobody}]

LEMMA ScratchType ==
  ASSUME NEW w \in WordType, NEW t, NEW u
  PROVE  Scratch(w, t, u) \in WordType
<1> DEFINE S == Written(t, u)
<1>1. Scratch(w, t, u) = [x \in Cells |-> IF x \in S THEN Nobody ELSE w[x]]
  BY Zenon DEF Scratch
<1> HIDE DEF S
<1> QED
  BY <1>1 DEF WordType

LEMMA CopyType ==
  ASSUME NEW w \in WordType, NEW from \in Nat, NEW to \in Nat, NEW n \in Nat,
         First + 2 <= from, from + n <= Last
  PROVE  Copy(w, from, to, n) \in WordType
<1>1. First \in Nat /\ Last \in Nat
  BY SpotsArePlaces, Parameters
<1>2. ASSUME NEW x \in Cells, x \in to .. (to + n - 1)
      PROVE  w[x - to + from] \in Buffers \cup {Nobody}
  <2>1. x - to + from \in Cells
    BY <1>1, <1>2 DEF Cells, Overhead
  <2> QED
    BY <2>1 DEF WordType
<1>3. \A x \in Cells : w[x] \in Buffers \cup {Nobody}
  BY DEF WordType
<1> QED
  BY <1>2, <1>3 DEF Copy, WordType

LEMMA FillType ==
  ASSUME NEW w \in WordType, NEW b \in Buffers, NEW k
  PROVE  Fill(w, b, k) \in WordType
BY DEF Fill, WordType

LEMMA SettledType ==
  ASSUME NEW w \in WordType
  PROVE  Settled(w) \in WordType
<1> DEFINE S == {x \in Cells : \E b \in Buffers :
                                /\ ptr'[b] # NULL
                                /\ x \in ptr'[b] .. (ptr'[b] + asked'[b] - 1)}
<1>1. Settled(w) = [x \in Cells |-> IF x \in S THEN w[x] ELSE Nobody]
  BY DEF Settled
<1> HIDE DEF S
<1> QED
  BY <1>1 DEF WordType

Inv == HeapInv /\ word \in WordType

LEMMA WordNext ==
  ASSUME Inv, Next
  PROVE  word' \in WordType
<1>1. word \in WordType /\ Good(tlsf) /\ Held(tlsf, ptr, asked)
  BY DEF Inv, HeapInv, Good
<1>2. ASSUME NEW b \in Buffers, Free(b) PROVE word' \in WordType
  BY <1>1, <1>2, ScratchType, SettledType DEF Free
<1>3. ASSUME NEW b \in Buffers, NEW n \in Requests, Malloc(b, n)
      PROVE  word' \in WordType
  <2>1. word' = Settled(Fill(Scratch(word, tlsf, tlsf'), b, 0))
    BY <1>3, Zenon DEF Malloc
  <2> QED
    BY <1>1, <2>1, ScratchType, FillType, SettledType
<1>4. ASSUME NEW b \in Buffers, NEW n \in Requests, ReallocInPlace(b, n)
      PROVE  word' \in WordType
  <2>1. word' = Settled(Fill(Scratch(word, tlsf, tlsf'), b, asked[b]))
    BY <1>4, Zenon DEF ReallocInPlace
  <2> QED
    BY <1>1, <2>1, ScratchType, FillType, SettledType
<1>5. ASSUME NEW b \in Buffers, NEW n \in Requests, ReallocMove(b, n)
      PROVE  word' \in WordType
  <2> DEFINE h == ptr[b] - Overhead
             size == Rounded(n)
             got == MallocEx(tlsf, size)
             copied == IF tlsf.hdr[h].size > size THEN size ELSE tlsf.hdr[h].size
             before == Scratch(word, tlsf, got.tlsf)
             moved == Copy(before, ptr[b], got.ptr, copied)
             after == Scratch(moved, got.tlsf, tlsf')
  <2>1. /\ ptr[b] # NULL /\ size > tlsf.hdr[h].size
        /\ \/ word' = word
           \/ got.ptr # NULL /\ word' = Settled(Fill(after, b, asked[b]))
    BY <1>5, Zenon DEF ReallocMove, vars
  <2>2. CASE word' = word
    BY <1>1, <2>2
  <2>3. CASE got.ptr # NULL /\ word' = Settled(Fill(after, b, asked[b]))
    <3>1. /\ ptr[b] = h + 2 /\ ptr[b] \in Nat /\ h \in Nat /\ First <= h
          /\ tlsf.hdr[h].size \in Nat /\ h + 2 + tlsf.hdr[h].size <= Last
      BY <1>1, <2>1, HeldBlock
    <3>2. copied \in Nat /\ copied <= tlsf.hdr[h].size
      <4>1. size \in Nat
        BY RequestRange
      <4> HIDE DEF size, h
      <4> QED
        BY <3>1, <4>1
    <3>3. got.ptr \in Nat
      <4>1. size \in 0 .. (Pow2[29] - 1)
        BY RequestRange
      <4> HIDE DEF size
      <4>2. Got(tlsf, got, MappingSearch(Rounded(size)).size)
        BY <1>1, <4>1, MallocStep
      <4> HIDE DEF got
      <4>3. got.ptr \in Pointer
        BY <2>3, <4>2 DEF Got
      <4>4. Pointer \subseteq Nat
        BY SpotsArePlaces DEF Pointer
      <4> QED
        BY <4>3, <4>4
    <3>4. First + 2 <= ptr[b] /\ ptr[b] + copied <= Last
      <4>1. First \in Nat /\ Last \in Nat
        BY SpotsArePlaces, Parameters
      <4> HIDE DEF h, copied
      <4> QED
        BY <3>1, <3>2, <4>1
    <3> HIDE DEF copied, got
    <3>5. before \in WordType
      BY <1>1, ScratchType
    <3> HIDE DEF before
    <3>6. moved \in WordType
      BY <3>1, <3>2, <3>3, <3>4, <3>5, CopyType
    <3> HIDE DEF moved
    <3>7. after \in WordType
      BY <3>6, ScratchType
    <3> HIDE DEF after
    <3>8. Fill(after, b, asked[b]) \in WordType
      BY <3>7, FillType
    <3> QED
      BY <2>3, <3>8, SettledType
  <2> QED
    BY <2>1, <2>2, <2>3
<1> QED
  BY <1>2, <1>3, <1>4, <1>5 DEF Next

LEMMA InvInit ==
  Init => Inv
<1> SUFFICES ASSUME Init PROVE word \in WordType
  BY HeapInit DEF Inv
<1> QED
  BY DEF Init, WordType

LEMMA InvNext ==
  Inv /\ [Next]_vars => Inv'
<1> SUFFICES ASSUME Inv, [Next]_vars PROVE Inv'
  OBVIOUS
<1>1. CASE UNCHANGED vars
  <2>1. tlsf' = tlsf /\ ptr' = ptr /\ asked' = asked /\ word' = word
    BY <1>1 DEF vars
  <2> QED
    BY <2>1 DEF Inv, HeapInv
<1>2. CASE Next
  <2>1. word' \in WordType
    BY <1>2, WordNext
  <2>2. HeapInv
    BY DEF Inv
  <2>3. HeapInv'
    BY <1>2, <2>2, MallocKeeps, FreeKeeps, ReallocInPlaceKeeps, ReallocMoveKeeps DEF Next
  <2> QED
    BY <2>1, <2>3 DEF Inv
<1> QED
  BY <1>1, <1>2

\* malloc, free and realloc keep the whole invariant: the tiling, the tags,
\* the lists with their bits, and the blocks that the client holds.
THEOREM HeapKept == Spec => []Inv
  BY InvInit, InvNext, PTL DEF Spec

\* The variables have their types: no operation writes a header, a list head
\* or a cell outside the pool.
THEOREM TypeCorrect == Spec => []TypeOK
<1>1. Inv => TypeOK
  BY DEF Inv, HeapInv, Sound, SoundBut, Pool, Held, WordType, TypeOK
<1> QED
  BY HeapKept, <1>1, PTL

\* A place without a block has nothing left in it.
LEMMA NoHeaderLeft ==
  ASSUME NEW t, Good(t), NEW x \in Spots, x \notin HeadsOf(t)
  PROVE  t.hdr[x] = Dead
<1>1. t \in Pool /\ Plain(t) /\ Unlinked(t, FreeOf(t)) /\ x # Last
  BY DEF Good, Sound, SoundBut, Lists, HeadsOf
<1>2. NoTags(t.hdr[x])
  BY <1>1 DEF Plain, HeadsOf
<1>3. t.hdr[x].prev = NULL /\ t.hdr[x].next = NULL
  BY <1>1, <1>2 DEF Unlinked, FreeOf, NoTags
<1>4. t.hdr[x] \in Block
  BY <1>1, HeaderFields
<1> DEFINE h == t.hdr[x]
<1>5. h = [size |-> h.size, free |-> h.free, prevFree |-> h.prevFree,
           prev_hdr |-> h.prev_hdr, prev |-> h.prev, next |-> h.next]
  BY <1>4 DEF Block
<1>6. h.free = FALSE /\ h.prevFree = FALSE /\ h.size = 0 /\ h.prev_hdr = NULL
  BY <1>2, <1>4 DEF NoTags, Block
<1> HIDE DEF h
<1>7. h = Dead
  BY <1>3, <1>5, <1>6 DEF Dead, h
<1> QED
  BY <1>7 DEF h

LEMMA HeadsAre ==
  ASSUME Good(tlsf)
  PROVE  Heads = HeadsOf(tlsf)
<1>1. tlsf \in Pool /\ Ends(tlsf) /\ Last \in Spots
  BY SpotsArePlaces DEF Good, Sound, SoundBut
<1>2. ASSUME NEW x \in Spots PROVE tlsf.hdr[x] # Dead <=> x \in HeadsOf(tlsf)
  <2>1. x \in HeadsOf(tlsf) => tlsf.hdr[x] # Dead
    <3>1. CASE x = Last
      BY <1>1, <3>1 DEF Ends, Dead
    <3>2. CASE tlsf.hdr[x].size >= MinBlock
      <4>1. ~(0 >= MinBlock)
        BY DEF MinBlock
      <4> QED
        BY <3>2, <4>1 DEF Dead
    <3> QED
      BY <3>1, <3>2 DEF HeadsOf
  <2> QED
    BY <2>1, NoHeaderLeft
<1>3. HeadsOf(tlsf) \subseteq Spots
  BY <1>1 DEF HeadsOf
<1> QED
  BY <1>2, <1>3 DEF Heads

\* The blocks tile the pool: after any calls, each block ends where the next
\* one begins, up to the sentinel, and no header is left between them.
THEOREM TiledCorrect == Spec => []Tiled
<1>1. Inv => Tiled
  <2> SUFFICES ASSUME Inv PROVE Tiled
    OBVIOUS
  <2>1. Good(tlsf)
    BY DEF Inv, HeapInv, Good
  <2>2. Heads = HeadsOf(tlsf)
    BY <2>1, HeadsAre
  <2>3. tlsf \in Pool /\ Ends(tlsf) /\ Adjacent(tlsf)
    BY <2>1 DEF Good, Sound, SoundBut
  <2>4. Last \in HeadsOf(tlsf)
    BY DEF HeadsOf
  <2>5. {Area, First, Last} \subseteq HeadsOf(tlsf)
    BY <2>3, <2>4, HeadPlaces
  <2> QED
    BY <2>2, <2>3, <2>5 DEF Tiled, Adjacent
<1> QED
  BY HeapKept, <1>1, PTL

\* What a block's header says of the block before it is true, so that free
\* finds it, and no two free blocks are adjacent.
THEOREM BoundaryTagsCorrect == Spec => []BoundaryTags
<1>1. Inv => BoundaryTags
  <2> SUFFICES ASSUME Inv PROVE BoundaryTags
    OBVIOUS
  <2>1. Good(tlsf)
    BY DEF Inv, HeapInv, Good
  <2>2. Heads = HeadsOf(tlsf)
    BY <2>1, HeadsAre
  <2>3. \A b \in HeadsOf(tlsf) \ {Last} : Tagged(tlsf, b)
    BY <2>1 DEF Good, Sound, SoundBut
  <2> QED
    BY <2>2, <2>3 DEF BoundaryTags, Tagged
<1> QED
  BY HeapKept, <1>1, PTL

\* A block is used exactly as long as a client has a pointer to it, and it
\* holds what the client asked for.
THEOREM OwnedCorrect == Spec => []Owned
<1>1. Inv => Owned
  <2> SUFFICES ASSUME Inv PROVE Owned
    OBVIOUS
  <2>1. Good(tlsf) /\ Held(tlsf, ptr, asked)
    BY DEF Inv, HeapInv, Good
  <2>2. Heads = HeadsOf(tlsf)
    BY <2>1, HeadsAre
  <2>3. UsedOf(tlsf) = {b \in Heads \ {Area, Last} : ~tlsf.hdr[b].free}
    BY <2>2 DEF UsedOf
  <2> QED
    BY <2>1, <2>3, Zenon DEF Owned, Held
<1> QED
  BY HeapKept, <1>1, PTL

\* malloc finds a block exactly when one reaches the request raised to its
\* size class, and what it finds is large enough.
THEOREM GoodFitCorrect == Spec => []GoodFit
<1>1. Inv => GoodFit
  <2> SUFFICES ASSUME Inv, NEW n \in Requests
               PROVE  LET s == MappingSearch(Rounded(n))
                          p == MallocEx(tlsf, n).ptr
                      IN  /\ p # NULL <=> \E b \in FreeBlocks : tlsf.hdr[b].size >= s.size
                          /\ p # NULL => tlsf.hdr[p - Overhead].size >= Rounded(n)
    BY Zenon DEF GoodFit
  <2> DEFINE s == MappingSearch(Rounded(n))
             got == MallocEx(tlsf, n)
  <2>1. Good(tlsf) /\ tlsf \in Pool
    BY DEF Inv, HeapInv, Good, Sound, SoundBut
  <2>2. n \in 0 .. (Pow2[29] - 1) /\ Rounded(n) \in Nat
    BY RequestRange
  <2>3. Got(tlsf, got, s.size) /\ s.size \in Nat /\ s.size >= Rounded(n)
    BY <2>1, <2>2, MallocStep
  <2> HIDE DEF s, got
  <2>4. /\ got.ptr = NULL => \A x \in FreeOf(tlsf) : tlsf.hdr[x].size < s.size
        /\ got.ptr # NULL => /\ got.ptr - Overhead \in FreeOf(tlsf)
                             /\ tlsf.hdr[got.ptr - Overhead].size >= s.size
    BY <2>3 DEF Got
  <2>5. \A x \in FreeOf(tlsf) : tlsf.hdr[x].size \in Nat
    BY <2>1, HeaderFields DEF FreeOf
  <2>6. FreeBlocks = FreeOf(tlsf)
    BY DEF FreeBlocks, FreeOf
  <2>7. got.ptr # NULL <=> \E b \in FreeBlocks : tlsf.hdr[b].size >= s.size
    BY <2>3, <2>4, <2>5, <2>6
  <2>8. got.ptr # NULL => tlsf.hdr[got.ptr - Overhead].size >= Rounded(n)
    BY <2>2, <2>3, <2>4, <2>5
  <2> QED
    BY <2>7, <2>8 DEF s, got
<1> QED
  BY HeapKept, <1>1, PTL

\* The pool when nothing is used: one free block, in the list of its class.
OneBlockPool ==
    LET class == MappingInsert(FirstSize)
        area  == [Dead EXCEPT !.size = AreaInfo]
        first == [Dead EXCEPT !.size = FirstSize, !.free = TRUE]
        last  == [Dead EXCEPT !.prevFree = TRUE, !.prev_hdr = First]
    IN  [hdr |-> [x \in Spots |-> IF x = Area THEN area ELSE IF x = First THEN first
                                  ELSE IF x = Last THEN last ELSE Dead],
         matrix |-> [c \in Class |-> IF c = class THEN First ELSE NULL],
         sl |-> {class},
         fl |-> {class[1]}]

LEMMA HeaderIs ==
  ASSUME NEW h \in Block
  PROVE  h = [size |-> h.size, free |-> h.free, prevFree |-> h.prevFree,
              prev_hdr |-> h.prev_hdr, prev |-> h.prev, next |-> h.next]
BY DEF Block

LEMMA FirstHeaders ==
  /\ [Dead EXCEPT !.size = FirstSize, !.free = TRUE]
        = [size |-> FirstSize, free |-> TRUE, prevFree |-> FALSE, prev_hdr |-> NULL,
           prev |-> NULL, next |-> NULL]
  /\ [Dead EXCEPT !.size = AreaInfo]
        = [size |-> AreaInfo, free |-> FALSE, prevFree |-> FALSE, prev_hdr |-> NULL,
           prev |-> NULL, next |-> NULL]
  /\ [Dead EXCEPT !.prevFree = TRUE, !.prev_hdr = First]
        = [size |-> 0, free |-> FALSE, prevFree |-> TRUE, prev_hdr |-> First,
           prev |-> NULL, next |-> NULL]
<1> DEFINE a == [Dead EXCEPT !.size = AreaInfo]
           f == [Dead EXCEPT !.size = FirstSize, !.free = TRUE]
           l == [Dead EXCEPT !.prevFree = TRUE, !.prev_hdr = First]
<1>1. First \in Spots /\ FirstSize \in Nat
  BY SpotsArePlaces, Parameters
<1>2. /\ a \in Block /\ a.size = AreaInfo /\ a.free = FALSE /\ a.prevFree = FALSE
      /\ a.prev_hdr = NULL /\ a.prev = NULL /\ a.next = NULL
  BY DEF Dead, Block, Pointer, AreaInfo
<1>3. /\ f \in Block /\ f.size = FirstSize /\ f.free = TRUE /\ f.prevFree = FALSE
      /\ f.prev_hdr = NULL /\ f.prev = NULL /\ f.next = NULL
  BY <1>1 DEF Dead, Block, Pointer
<1>4. /\ l \in Block /\ l.size = 0 /\ l.free = FALSE /\ l.prevFree = TRUE
      /\ l.prev_hdr = First /\ l.prev = NULL /\ l.next = NULL
  BY <1>1 DEF Dead, Block, Pointer
<1> HIDE DEF a, f, l
<1>5. /\ a = [size |-> AreaInfo, free |-> FALSE, prevFree |-> FALSE, prev_hdr |-> NULL,
              prev |-> NULL, next |-> NULL]
      /\ f = [size |-> FirstSize, free |-> TRUE, prevFree |-> FALSE, prev_hdr |-> NULL,
              prev |-> NULL, next |-> NULL]
      /\ l = [size |-> 0, free |-> FALSE, prevFree |-> TRUE, prev_hdr |-> First,
              prev |-> NULL, next |-> NULL]
  BY <1>2, <1>3, <1>4, HeaderIs
<1> QED
  BY <1>5 DEF a, f, l

LEMMA AllReleased ==
  ASSUME NEW t, Good(t), UsedOf(t) = {}
  PROVE  t = OneBlockPool
<1> DEFINE e == NextBlock(t, First)
           F == FreeOf(t)
           class == MappingInsert(FirstSize)
<1>1. /\ t \in Pool /\ Ends(t) /\ Plain(t) /\ Adjacent(t) /\ Lists(t, F)
      /\ \A b \in HeadsOf(t) \ {Last} : Tagged(t, b)
  BY DEF Good, Sound, SoundBut
<1>2. /\ Area \in Spots /\ First \in Spots /\ Last \in Spots
      /\ Area = 2 /\ First = 6 /\ Last = 8 + FirstSize
      /\ FirstSize \in Nat /\ FirstSize >= 2
      /\ Area # First /\ First # Last /\ Area # Last
  BY SpotsArePlaces, Parameters
<1>3. First \in HeadsOf(t) /\ Last \in HeadsOf(t) /\ Area \in HeadsOf(t)
      /\ NextBlock(t, Area) = First
  <2>1. Last \in HeadsOf(t)
    BY DEF HeadsOf
  <2> QED
    BY <1>1, <2>1, HeadPlaces
<1>4. /\ t.hdr[First].size \in Nat
      /\ e = First + 2 + t.hdr[First].size
      /\ e \in HeadsOf(t) /\ e \in Spots /\ e # Area /\ e # First
  BY <1>1, <1>2, <1>3, HeadPlaces
<1>5. t.hdr[First].free
  BY <1>2, <1>3 DEF UsedOf
<1>6. Tagged(t, First) /\ Tagged(t, Area)
  BY <1>1, <1>2, <1>3
<1> HIDE DEF F
<1>7. e = Last
  <2>1. ~t.hdr[e].free
    BY <1>5, <1>6 DEF Tagged
  <2> HIDE DEF e
  <2> QED
    BY <1>4, <2>1 DEF UsedOf
<1>8. t.hdr[First].size = FirstSize
  <2> HIDE DEF e
  <2> QED
    BY <1>2, <1>4, <1>7
<1>9. \A x \in HeadsOf(t) : x = Area \/ x = First \/ x = Last
  <2> SUFFICES ASSUME NEW x \in HeadsOf(t), x # Area, x # First, x # Last PROVE FALSE
    OBVIOUS
  <2>1. x \in Spots /\ x \in Nat /\ First <= x /\ x <= Last
    BY <1>1, HeadPlaces
  <2>2. x <= First \/ x >= Last
    BY <1>1, <1>2, <1>3, <1>7 DEF Adjacent
  <2> QED
    BY <1>2, <2>1, <2>2
<1>10. F = {First}
  <2>1. \A x \in F : x \in HeadsOf(t) /\ x # Area /\ x # Last
    BY <1>1, FreeAreHeads DEF F
  <2>2. First \in F
    BY <1>2, <1>5 DEF F, FreeOf
  <2> QED
    BY <1>9, <2>1, <2>2
<1>11. /\ Linked(t, F) /\ Headed(t, F) /\ Unlinked(t, F) /\ Mapped(t)
  BY <1>1 DEF Lists
<1>12. t.hdr[First].prev = NULL /\ t.hdr[First].next = NULL /\ t.matrix[class] = First
       /\ class \in Class
  <2>1. ClassOf(t, First) = class
    BY <1>8 DEF ClassOf
  <2>2. LET n == t.hdr[First].next
            p == t.hdr[First].prev
        IN  /\ n # First /\ p # First
            /\ n # NULL => n \in F
            /\ p # NULL => p \in F
            /\ p = NULL => t.matrix[class] = First
            /\ class \in Class
    <3>1. First \in F
      BY <1>10
    <3> HIDE DEF class
    <3> QED
      BY <1>1, <2>1, <3>1, Neighbours
  <2> QED
    BY <1>10, <2>2
<1>13. t.hdr[First] = [Dead EXCEPT !.size = FirstSize, !.free = TRUE]
  <2> DEFINE h == t.hdr[First]
  <2>1. h \in Block
    BY <1>1, <1>2, HeaderFields
  <2>2. h.size = FirstSize /\ h.free = TRUE /\ h.prevFree = FALSE /\ h.prev_hdr = NULL
    <3>1. h.prevFree = t.hdr[Area].free /\ ~t.hdr[Area].free /\ h.prev_hdr = NULL
      BY <1>1, <1>3, <1>6 DEF Ends, Tagged
    <3>2. h.free \in BOOLEAN /\ h.prevFree \in BOOLEAN
      BY <2>1 DEF Block
    <3> QED
      BY <1>5, <1>8, <3>1, <3>2
  <2>3. h.prev = NULL /\ h.next = NULL
    BY <1>12
  <2> HIDE DEF h
  <2>4. h = [size |-> FirstSize, free |-> TRUE, prevFree |-> FALSE, prev_hdr |-> NULL,
             prev |-> NULL, next |-> NULL]
    BY <2>1, <2>2, <2>3, HeaderIs
  <2> QED
    BY <2>4, FirstHeaders DEF h
<1>14. t.hdr[Area] = [Dead EXCEPT !.size = AreaInfo]
  <2> DEFINE h == t.hdr[Area]
  <2>1. h \in Block
    BY <1>1, <1>2, HeaderFields
  <2>2. h.size = AreaInfo /\ h.free = FALSE /\ h.prevFree = FALSE /\ h.prev_hdr = NULL
    BY <1>1, <2>1 DEF Ends, Block
  <2>3. h.prev = NULL /\ h.next = NULL
    BY <1>2, <1>10, <1>11 DEF Unlinked
  <2> HIDE DEF h
  <2>4. h = [size |-> AreaInfo, free |-> FALSE, prevFree |-> FALSE, prev_hdr |-> NULL,
             prev |-> NULL, next |-> NULL]
    BY <2>1, <2>2, <2>3, HeaderIs
  <2> QED
    BY <2>4, FirstHeaders DEF h
<1>15. t.hdr[Last] = [Dead EXCEPT !.prevFree = TRUE, !.prev_hdr = First]
  <2> DEFINE h == t.hdr[Last]
  <2>1. h \in Block
    BY <1>1, <1>2, HeaderFields
  <2>2. h.size = 0 /\ h.free = FALSE /\ h.prevFree = TRUE /\ h.prev_hdr = First
    <3>1. h.prevFree = t.hdr[First].free /\ h.prev_hdr = First
      BY <1>5, <1>6, <1>7 DEF Tagged
    <3>2. h.free \in BOOLEAN /\ h.prevFree \in BOOLEAN
      BY <2>1 DEF Block
    <3> QED
      BY <1>1, <1>5, <3>1, <3>2 DEF Ends
  <2>3. h.prev = NULL /\ h.next = NULL
    BY <1>2, <1>10, <1>11 DEF Unlinked
  <2> HIDE DEF h
  <2>4. h = [size |-> 0, free |-> FALSE, prevFree |-> TRUE, prev_hdr |-> First,
             prev |-> NULL, next |-> NULL]
    BY <2>1, <2>2, <2>3, HeaderIs
  <2> QED
    BY <2>4, FirstHeaders DEF h
<1>16. \A x \in Spots \ {Area, First, Last} : t.hdr[x] = Dead
  BY <1>9, NoHeaderLeft
<1>17. \A c \in Class : t.matrix[c] = IF c = class THEN First ELSE NULL
  <2> SUFFICES ASSUME NEW c \in Class, c # class, t.matrix[c] # NULL PROVE FALSE
    BY <1>12
  <2>1. t.matrix[c] \in F /\ ClassOf(t, t.matrix[c]) = c
    BY <1>11 DEF Headed
  <2>2. t.matrix[c] = First
    BY <1>10, <2>1
  <2> QED
    BY <1>8, <2>1, <2>2 DEF ClassOf
<1>18. t.sl = {class} /\ t.fl = {class[1]}
  <2>1. First # NULL
    BY <1>2 DEF NULL
  <2>2. t.sl = {class}
    BY <1>11, <1>12, <1>17, <2>1 DEF Mapped
  <2> QED
    BY <1>11, <2>2 DEF Mapped
<1> DEFINE a == [Dead EXCEPT !.size = AreaInfo]
           f == [Dead EXCEPT !.size = FirstSize, !.free = TRUE]
           l == [Dead EXCEPT !.prevFree = TRUE, !.prev_hdr = First]
<1> HIDE DEF class, a, f, l
<1>19. /\ t.hdr \in [Spots -> Block] /\ t.matrix \in [Class -> Pointer]
       /\ t = [hdr |-> t.hdr, matrix |-> t.matrix, sl |-> t.sl, fl |-> t.fl]
  BY <1>1, PoolFields
<1>20. t.hdr = [x \in Spots |-> IF x = Area THEN a ELSE IF x = First THEN f
                                ELSE IF x = Last THEN l ELSE Dead]
  BY <1>2, <1>13, <1>14, <1>15, <1>16, <1>19 DEF a, f, l
<1>21. t.matrix = [c \in Class |-> IF c = class THEN First ELSE NULL]
  BY <1>17, <1>19
<1> QED
  BY <1>18, <1>19, <1>20, <1>21, Zenon DEF OneBlockPool, class, a, f, l

\* When everything has been released, the pool is as it was at first:
\* whatever the order of the calls, nothing is lost and nothing is split.
THEOREM NothingLeaksCorrect == Spec => []NothingLeaks
<1>1. Inv => NothingLeaks
  <2> SUFFICES ASSUME Inv, \A b \in Buffers : ptr[b] = NULL PROVE tlsf = InitialPool
    BY DEF NothingLeaks
  <2>1. Good(tlsf) /\ Held(tlsf, ptr, asked)
    BY DEF Inv, HeapInv, Good
  <2>2. UsedOf(tlsf) = {}
    <3>1. ptr \in [Buffers -> Pointer] /\ asked \in [Buffers -> Nat]
      BY <2>1 DEF Held
    <3> QED
      BY <2>1, <3>1, HeldBy DEF Has
  <2>3. tlsf = OneBlockPool
    BY <2>1, <2>2, AllReleased
  <2> DEFINE u == InitialPool
  <2>4. Good(u) /\ UsedOf(u) = {}
    BY InitialIsGood
  <2> HIDE DEF u
  <2>5. u = OneBlockPool
    BY <2>4, AllReleased
  <2> QED
    BY <2>3, <2>5 DEF u
<1> QED
  BY HeapKept, <1>1, PTL

\* f goes from the head of the list of class c from block to block, and stays
\* at the end of the list.
WalkOf(f, c) ==
    /\ f \in [Nat -> Pointer] /\ f[0] = tlsf.matrix[c]
    /\ \A k \in Nat : f[k + 1] = IF f[k] = NULL THEN NULL ELSE tlsf.hdr[f[k]].next

LEMMA Walks ==
  ASSUME tlsf \in Pool, NEW c \in Class
  PROVE  \E f : /\ WalkOf(f, c)
                /\ Listed(c) = {f[k] : k \in 0 .. (Last - Area)} \ {NULL}
<1> DEFINE Step == [p \in Pointer |-> IF p = NULL THEN NULL ELSE tlsf.hdr[p].next]
           P(f) == f = [k \in Nat |-> IF k = 0 THEN tlsf.matrix[c]
                                      ELSE IF f[k - 1] = NULL THEN NULL
                                      ELSE tlsf.hdr[f[k - 1]].next]
           w == CHOOSE f : P(f)
<1>1. Step \in [Pointer -> Pointer] /\ tlsf.matrix[c] \in Pointer
  <2>1. tlsf.matrix \in [Class -> Pointer]
    BY PoolFields
  <2>2. ASSUME NEW p \in Pointer, p # NULL PROVE tlsf.hdr[p].next \in Pointer
    BY <2>2, HeaderFields DEF Pointer
  <2>3. NULL \in Pointer
    BY DEF Pointer
  <2> QED
    BY <2>1, <2>2, <2>3
<1>2. PICK f \in [Nat -> Pointer] :
         f[0] = tlsf.matrix[c] /\ \A k \in Nat : f[k + 1] = Step[f[k]]
  <2> DEFINE start == tlsf.matrix[c]
  <2>1. start \in Pointer
    BY <1>1
  <2> HIDE DEF Step, start
  <2>2. \E f \in [Nat -> Pointer] :
          f[0] = start /\ \A k \in Nat : f[k + 1] = Step[f[k]]
    BY <1>1, <2>1, Iteration, SMTT(40)
  <2> QED
    BY <2>2 DEF start
<1>3. \A k \in Nat : f[k + 1] = IF f[k] = NULL THEN NULL ELSE tlsf.hdr[f[k]].next
  BY <1>2
<1>4. P(f)
  <2>1. ASSUME NEW k \in Nat
        PROVE  f[k] = IF k = 0 THEN tlsf.matrix[c]
                      ELSE IF f[k - 1] = NULL THEN NULL
                      ELSE tlsf.hdr[f[k - 1]].next
    <3>1. CASE k = 0
      BY <1>2, <3>1
    <3>2. CASE k # 0
      <4>1. k - 1 \in Nat /\ (k - 1) + 1 = k
        BY <3>2
      <4> QED
        BY <1>3, <3>2, <4>1
    <3> QED
      BY <3>1, <3>2
  <2> QED
    BY <2>1
<1>5. P(w)
  <2> HIDE DEF P
  <2> QED
    BY <1>4
<1>6. w \in [Nat -> Pointer]
  <2> SUFFICES \A k \in Nat : w[k] = f[k]
    BY <1>5, <1>2
  <2> DEFINE S == {k \in Nat : w[k] = f[k]}
  <2>1. 0 \in S
    <3>1. w[0] = tlsf.matrix[c]
      <4> HIDE DEF w
      <4> QED
        BY <1>5
    <3> HIDE DEF w
    <3> QED
      BY <1>2, <3>1
  <2>2. ASSUME NEW k \in Nat, k \in S PROVE k + 1 \in S
    <3>1. k + 1 \in Nat /\ k + 1 # 0 /\ (k + 1) - 1 = k
      OBVIOUS
    <3>2. w[k + 1] = IF w[k] = NULL THEN NULL ELSE tlsf.hdr[w[k]].next
      <4> HIDE DEF w
      <4> QED
        BY <1>5, <3>1
    <3> HIDE DEF w
    <3> QED
      BY <1>3, <2>2, <3>1, <3>2
  <2>3. \A k \in Nat : k \in S
    <3> HIDE DEF S
    <3> QED
      BY <2>1, <2>2, Induction
  <2> QED
    BY <2>3
<1>7. Listed(c) = {w[k] : k \in 0 .. (Last - Area)} \ {NULL}
  BY DEF Listed
<1> HIDE DEF w
<1>8. w[0] = tlsf.matrix[c]
  BY <1>5
<1>9. ASSUME NEW k \in Nat
      PROVE w[k + 1] = IF w[k] = NULL THEN NULL ELSE tlsf.hdr[w[k]].next
  <2>1. k + 1 \in Nat /\ k + 1 # 0 /\ (k + 1) - 1 = k
    OBVIOUS
  <2> QED
    BY <1>5, <2>1
<1> QED
  BY <1>6, <1>7, <1>8, <1>9 DEF WalkOf

\* Every block on the way is a free block of the class.
LEMMA WalkStays ==
  ASSUME Good(tlsf), NEW c \in Class, NEW f, WalkOf(f, c)
  PROVE  \A k \in Nat : f[k] # NULL => /\ f[k] \in FreeOf(tlsf)
                                       /\ ClassOf(tlsf, f[k]) = c
<1> DEFINE F == FreeOf(tlsf)
           S == {k \in Nat : f[k] # NULL => f[k] \in F /\ ClassOf(tlsf, f[k]) = c}
<1>1. Lists(tlsf, F)
  BY DEF Good
<1>2. 0 \in S
  BY <1>1 DEF WalkOf, Lists, Headed
<1>3. ASSUME NEW k \in Nat, k \in S PROVE k + 1 \in S
  <2>1. f[k + 1] = IF f[k] = NULL THEN NULL ELSE tlsf.hdr[f[k]].next
    BY DEF WalkOf
  <2>2. CASE f[k] = NULL
    BY <2>1, <2>2
  <2>3. CASE f[k] # NULL
    <3>1. f[k] \in F /\ ClassOf(tlsf, f[k]) = c
      BY <1>3, <2>3
    <3> HIDE DEF F
    <3>2. LET n == tlsf.hdr[f[k]].next
          IN  n # NULL => n \in F /\ ClassOf(tlsf, n) = c
      BY <1>1, <3>1 DEF Lists, Linked
    <3> QED
      BY <2>1, <2>3, <3>2
  <2> QED
    BY <2>2, <2>3
<1>4. \A k \in Nat : k \in S
  <2> HIDE DEF S
  <2> QED
    BY <1>2, <1>3, Induction
<1> QED
  BY <1>4

\* Every block before one on the way is on the way.
LEMMA WalkBack ==
  ASSUME NEW c, NEW f, WalkOf(f, c), NEW n \in Nat, f[n] # NULL
  PROVE  \A k \in 0 .. n : f[k] # NULL
<1> DEFINE S == {m \in 0 .. n : f[n - m] # NULL}
<1>1. 0 \in S
  OBVIOUS
<1>2. ASSUME NEW m \in 0 .. (n - 1), m \in S PROVE m + 1 \in S
  <2>1. n - (m + 1) \in Nat /\ (n - (m + 1)) + 1 = n - m /\ m + 1 \in 0 .. n
    OBVIOUS
  <2> QED
    BY <1>2, <2>1 DEF WalkOf
<1>3. \A m \in 0 .. n : m \in S
  <2> HIDE DEF S
  <2> QED
    BY <1>1, <1>2, BoundedInduction
<1>4. ASSUME NEW k \in 0 .. n PROVE f[k] # NULL
  <2>1. n - k \in 0 .. n /\ n - (n - k) = k
    OBVIOUS
  <2> QED
    BY <1>3, <2>1
<1> QED
  BY <1>4

\* The way does not come back to a block.
LEMMA WalkApart ==
  ASSUME Good(tlsf), NEW c \in Class, NEW f, WalkOf(f, c),
         NEW n \in Nat, f[n] # NULL
  PROVE  \A i, j \in 0 .. n : i # j => f[i] # f[j]
<1>1. Lists(tlsf, FreeOf(tlsf))
  BY DEF Good
<1>2. PICK rank \in [Spots -> Nat] :
        \A b \in FreeOf(tlsf) : tlsf.hdr[b].next # NULL => rank[b] < rank[tlsf.hdr[b].next]
  BY <1>1 DEF Lists, Ranked
<1>3. \A k \in 0 .. n : f[k] # NULL
  BY WalkBack
<1>4. \A k \in 0 .. n : f[k] \in FreeOf(tlsf) /\ f[k] \in Spots /\ rank[f[k]] \in Nat
  BY <1>1, <1>2, <1>3, WalkStays DEF Lists
<1>5. ASSUME NEW k \in 0 .. (n - 1) PROVE rank[f[k]] < rank[f[k + 1]]
  <2>1. k \in Nat /\ k \in 0 .. n /\ k + 1 \in 0 .. n
    OBVIOUS
  <2>2. f[k + 1] = tlsf.hdr[f[k]].next /\ f[k + 1] # NULL
    BY <1>3, <2>1 DEF WalkOf
  <2> QED
    BY <1>2, <1>4, <2>1, <2>2
<1>6. ASSUME NEW i \in 0 .. n, NEW j \in 0 .. n, i < j PROVE rank[f[i]] < rank[f[j]]
  <2> DEFINE S == {m \in 0 .. (n - (i + 1)) : rank[f[i]] < rank[f[(i + 1) + m]]}
  <2>1. 0 \in S
    <3>1. i \in 0 .. (n - 1) /\ (i + 1) + 0 = i + 1 /\ 0 \in 0 .. (n - (i + 1))
      BY <1>6
    <3> QED
      BY <1>5, <3>1
  <2>2. ASSUME NEW m \in 0 .. ((n - (i + 1)) - 1), m \in S PROVE m + 1 \in S
    <3>1. /\ (i + 1) + m \in 0 .. (n - 1) /\ (i + 1) + (m + 1) = ((i + 1) + m) + 1
          /\ m + 1 \in 0 .. (n - (i + 1))
          /\ (i + 1) + m \in 0 .. n /\ ((i + 1) + m) + 1 \in 0 .. n
      BY <1>6
    <3>2. rank[f[(i + 1) + m]] < rank[f[((i + 1) + m) + 1]]
      BY <1>5, <3>1
    <3>3. rank[f[i]] < rank[f[(i + 1) + m]]
      BY <2>2
    <3>4. /\ rank[f[i]] \in Nat /\ rank[f[(i + 1) + m]] \in Nat
          /\ rank[f[((i + 1) + m) + 1]] \in Nat
      BY <1>4, <3>1
    <3>5. rank[f[i]] < rank[f[((i + 1) + m) + 1]]
      BY <3>2, <3>3, <3>4
    <3> QED
      BY <3>1, <3>5
  <2>3. \A m \in 0 .. (n - (i + 1)) : m \in S
    <3>1. n - (i + 1) \in Nat
      BY <1>6
    <3> HIDE DEF S
    <3> QED
      BY <2>1, <2>2, <3>1, BoundedInduction
  <2>4. j - (i + 1) \in 0 .. (n - (i + 1)) /\ (i + 1) + (j - (i + 1)) = j
    BY <1>6
  <2> QED
    BY <2>3, <2>4
<1>7. ASSUME NEW i \in 0 .. n, NEW j \in 0 .. n, i # j PROVE f[i] # f[j]
  <2>1. i < j \/ j < i
    BY <1>7
  <2>2. rank[f[i]] \in Nat /\ rank[f[j]] \in Nat
    BY <1>4
  <2>3. rank[f[i]] < rank[f[j]] \/ rank[f[j]] < rank[f[i]]
    BY <1>6, <2>1
  <2> QED
    BY <2>2, <2>3
<1> QED
  BY <1>7

\* There are no more steps to a block than there are places for a header.
LEMMA WalkShort ==
  ASSUME Good(tlsf), NEW c \in Class, NEW f, WalkOf(f, c),
         NEW n \in Nat, f[n] # NULL
  PROVE  n \in 0 .. (Last - Area)
<1>1. Area \in Nat /\ Last \in Nat /\ Area <= Last /\ Spots = Area .. Last
      /\ Spots \subseteq Nat
  BY SpotsArePlaces DEF Spots
<1> SUFFICES ASSUME ~(n <= Last - Area) PROVE FALSE
  BY <1>1
<1> DEFINE N == (Last - Area) + 1
<1>2. N \in Nat /\ N <= n
  BY <1>1
<1>3. Cardinality(Spots) = N /\ IsFiniteSet(Spots)
  BY <1>1, FS_Interval
<1>4. Cardinality(0 .. n) = n + 1 /\ IsFiniteSet(0 .. n)
  <2>1. 0 \in Int /\ n \in Int /\ ~(0 > n) /\ n - 0 + 1 = n + 1
    OBVIOUS
  <2> QED
    BY <2>1, FS_Interval
<1>5. \A i, j \in 0 .. n : i # j => f[i] # f[j]
  BY WalkApart
<1> DEFINE g == [k \in 0 .. n |-> IF f[k] = NULL THEN Area ELSE f[k]]
<1>6. g \in [0 .. n -> Spots]
  BY SpotsArePlaces DEF WalkOf, Pointer
<1>7. \A k \in 0 .. n : f[k] # NULL
  BY WalkBack
<1>8. \A i, j \in 0 .. n : i # j => g[i] # g[j]
  BY <1>5, <1>7
<1>9. Cardinality(Spots) < Cardinality(0 .. n)
  BY <1>2, <1>3, <1>4
<1> HIDE DEF g, N
<1>10. \E i, j \in 0 .. n : i # j /\ g[i] = g[j]
  BY <1>3, <1>4, <1>6, <1>9, FS_PigeonHole
<1> QED
  BY <1>8, <1>10

\* The list of a class has the free blocks of the class, and no others.
LEMMA ListedIs ==
  ASSUME Good(tlsf), NEW c \in Class
  PROVE  Listed(c) = {b \in FreeOf(tlsf) : ClassOf(tlsf, b) = c}
<1> DEFINE F == FreeOf(tlsf)
<1>1. Lists(tlsf, F) /\ tlsf \in Pool
  BY DEF Good, Lists
<1>2. PICK f : WalkOf(f, c) /\ Listed(c) = {f[k] : k \in 0 .. (Last - Area)} \ {NULL}
  BY <1>1, Walks
<1>3. ASSUME NEW b \in Listed(c) PROVE b \in F /\ ClassOf(tlsf, b) = c
  <2>1. PICK k \in 0 .. (Last - Area) : b = f[k] /\ b # NULL
    BY <1>2
  <2>2. k \in Nat
    OBVIOUS
  <2> QED
    BY <1>2, <2>1, <2>2, WalkStays
<1>4. PICK rank \in [Spots -> Nat] :
        \A b \in F : tlsf.hdr[b].next # NULL => rank[b] < rank[tlsf.hdr[b].next]
  BY <1>1 DEF Lists, Ranked
<1> DEFINE Missed == {b \in F : ClassOf(tlsf, b) = c /\ \A k \in Nat : f[k] # b}
<1>5. ASSUME Missed # {} PROVE FALSE
  <2> DEFINE Ranks == {rank[b] : b \in Missed}
  <2>1. F \subseteq Spots
    BY <1>1 DEF Lists
  <2>2. Ranks \in SUBSET Nat /\ Ranks # {}
    BY <1>5, <2>1
  <2>3. PICK r \in Ranks : \A s \in Ranks : r <= s
    <3> HIDE DEF Ranks
    <3> QED
      BY <2>2, Least
  <2>4. PICK b \in Missed : r = rank[b]
    BY <2>3
  <2>5. b \in F /\ ClassOf(tlsf, b) = c /\ \A k \in Nat : f[k] # b
    BY <2>4
  <2> DEFINE p == tlsf.hdr[b].prev
  <2>6. /\ p # NULL => p \in F /\ p \in Spots /\ tlsf.hdr[p].next = b /\ ClassOf(tlsf, p) = c
        /\ p = NULL => tlsf.matrix[c] = b
        /\ b \in Spots
    <3> HIDE DEF F
    <3> QED
      BY <1>1, <2>5, Neighbours
  <2> HIDE DEF p
  <2>7. CASE p = NULL
    <3>1. f[0] = b
      BY <1>2, <2>6, <2>7 DEF WalkOf
    <3> QED
      BY <2>5, <3>1
  <2>8. CASE p # NULL
    <3>1. b # NULL
      BY <2>6, SpotsArePlaces
    <3>2. rank[p] < rank[b]
      BY <1>4, <2>6, <2>8, <3>1
    <3>3. rank[p] \in Nat /\ rank[b] \in Nat
      BY <2>6, <2>8
    <3>4. p \notin Missed
      <4>1. p \in Missed => rank[b] <= rank[p]
        BY <2>3, <2>4
      <4> QED
        BY <3>2, <3>3, <4>1
    <3>5. PICK k \in Nat : f[k] = p
      BY <2>6, <2>8, <3>4
    <3>6. k + 1 \in Nat /\ f[k + 1] = b
      BY <1>2, <2>6, <2>8, <3>5 DEF WalkOf
    <3> QED
      BY <2>5, <3>6
  <2> QED
    BY <2>7, <2>8
<1>6. ASSUME NEW b \in F, ClassOf(tlsf, b) = c PROVE b \in Listed(c)
  <2>1. PICK k \in Nat : f[k] = b
    BY <1>5, <1>6
  <2>2. b # NULL
    BY <1>1, SpotsArePlaces DEF Lists
  <2>3. k \in 0 .. (Last - Area)
    BY <1>2, <2>1, <2>2, WalkShort
  <2> QED
    BY <1>2, <2>1, <2>2, <2>3
<1> HIDE DEF F
<1>7. Listed(c) = {b \in F : ClassOf(tlsf, b) = c}
  BY <1>3, <1>6
<1> QED
  BY <1>7 DEF F

\* The lists are exact: the list of a class has the free blocks of the class
\* and no others, its links are each other's inverse, and the bitmaps show
\* the lists and the levels that have a block.  Malloc finds what there is.
THEOREM ListsExactCorrect == Spec => []ListsExact
<1>1. Inv => ListsExact
  <2> SUFFICES ASSUME Inv PROVE ListsExact
    OBVIOUS
  <2>1. Good(tlsf)
    BY DEF Inv, HeapInv, Good
  <2>2. FreeBlocks = FreeOf(tlsf)
    BY DEF FreeBlocks, FreeOf
  <2>3. Lists(tlsf, FreeOf(tlsf))
    BY <2>1 DEF Good
  <2>4. ASSUME NEW c \in Class
        PROVE  Listed(c) = {b \in FreeBlocks : MappingInsert(tlsf.hdr[b].size) = c}
    <3>1. Listed(c) = {b \in FreeOf(tlsf) : ClassOf(tlsf, b) = c}
      BY <2>1, ListedIs
    <3> QED
      BY <2>2, <3>1 DEF ClassOf
  <2>5. ASSUME NEW b \in FreeBlocks
        PROVE  LET h == tlsf.hdr[b] IN
               /\ h.next # NULL => tlsf.hdr[h.next].prev = b
               /\ h.prev = NULL <=> b \in {tlsf.matrix[c] : c \in Class}
    <3>1. b \in FreeOf(tlsf) /\ b # NULL
      BY <2>2, <2>3, SpotsArePlaces DEF Lists
    <3>2. tlsf.hdr[b].next # NULL => tlsf.hdr[tlsf.hdr[b].next].prev = b
      BY <2>3, <3>1, Neighbours
    <3>3. tlsf.hdr[b].prev = NULL => \E c \in Class : tlsf.matrix[c] = b
      BY <2>3, <3>1, Neighbours
    <3>4. ASSUME NEW c \in Class, tlsf.matrix[c] = b PROVE tlsf.hdr[b].prev = NULL
      BY <2>3, <3>1, <3>4 DEF Lists, Headed
    <3> QED
      BY <3>2, <3>3, <3>4
  <2>6. /\ tlsf.sl = {c \in Class : tlsf.matrix[c] # NULL}
        /\ tlsf.fl = {c[1] : c \in tlsf.sl}
    BY <2>3 DEF Lists, Mapped
  <2> QED
    BY <2>4, <2>5, <2>6 DEF ListsExact
<1> QED
  BY HeapKept, <1>1, PTL

-----------------------------------------------------------------------------
(* malloc, free and realloc keep the promise of Heap, whatever the calls:  *)
(* a buffer keeps its place and its contents until its owner releases or   *)
(* resizes it, and no two buffers share a cell.                            *)

\* The cells of the used block whose header is at h.
Payload(t, h) == (h + 2) .. (h + 1 + t.hdr[h].size)

\* A block's cells lie in the pool, the pointer to it is the first of them,
\* and they are no other block's.
LEMMA PayloadPlaces ==
  ASSUME NEW t, Good(t), NEW h \in UsedOf(t)
  PROVE  /\ h \in Nat /\ h \in Spots /\ t.hdr[h].size \in Nat /\ t.hdr[h].size >= 2
         /\ Payload(t, h) \subseteq Cells /\ h + 2 \in Payload(t, h)
<1>1. h \in HeadsOf(t) /\ h # Area /\ h # Last /\ SoundBut(t, {})
  BY DEF Good, Sound, UsedOf
<1>2. /\ h \in Spots /\ h \in Nat /\ First <= h /\ NextBlock(t, h) <= Last
      /\ t.hdr[h].size \in 2 .. FirstSize /\ NextBlock(t, h) = h + 2 + t.hdr[h].size
  BY <1>1, Span
<1>3. First \in Nat /\ Last \in Nat /\ FirstSize \in Nat
  BY SpotsArePlaces, Parameters
<1> QED
  BY <1>2, <1>3 DEF Payload, Cells, Overhead

LEMMA PayloadsApart ==
  ASSUME NEW t, Good(t), NEW h \in UsedOf(t), NEW k \in UsedOf(t), h # k
  PROVE  Payload(t, h) \cap Payload(t, k) = {}
<1>1. /\ h \in HeadsOf(t) /\ h # Area /\ h # Last
      /\ k \in HeadsOf(t) /\ k # Area /\ k # Last /\ SoundBut(t, {})
  BY DEF Good, Sound, UsedOf
<1>2. /\ h \in Nat /\ t.hdr[h].size \in 2 .. FirstSize
      /\ NextBlock(t, h) = h + 2 + t.hdr[h].size
      /\ \A x \in UsedOf(t) : ~(h < x /\ x < NextBlock(t, h))
  BY <1>1, Span
<1>3. /\ k \in Nat /\ t.hdr[k].size \in 2 .. FirstSize
      /\ NextBlock(t, k) = k + 2 + t.hdr[k].size
      /\ \A x \in UsedOf(t) : ~(k < x /\ x < NextBlock(t, k))
  BY <1>1, Span
<1>4. ~(h < k /\ k < NextBlock(t, h)) /\ ~(k < h /\ h < NextBlock(t, k))
  BY <1>2, <1>3
<1>5. FirstSize \in Nat
  BY Parameters
<1> QED
  BY <1>2, <1>3, <1>4, <1>5 DEF Payload

\* The places that a block's cells cannot be written from.
LEMMA NoHeaderInside ==
  ASSUME NEW t, Good(t), NEW h \in UsedOf(t), NEW y \in Spots, y # h,
         h - 1 <= y, y < h + 2 + t.hdr[h].size
  PROVE  /\ h < y => NoTags(t.hdr[y])
         /\ t.hdr[y].prev = NULL /\ t.hdr[y].next = NULL
<1>1. /\ h \in HeadsOf(t) /\ h # Area /\ h # Last /\ SoundBut(t, {})
      /\ t \in Pool /\ Ends(t) /\ Plain(t) /\ Adjacent(t)
  BY DEF Good, Sound, SoundBut, UsedOf
<1>2. /\ h \in Nat /\ NextBlock(t, h) = h + 2 + t.hdr[h].size
      /\ \A x \in Spots : h < x /\ x < NextBlock(t, h) => NoTags(t.hdr[x])
  BY <1>1, Span
<1>3. y \in Nat /\ Spots \subseteq Nat
  BY SpotsArePlaces
<1>4. h < y => NoTags(t.hdr[y])
  BY <1>2, <1>3
<1>5. y \notin FreeOf(t)
  <2> SUFFICES ASSUME y \in FreeOf(t) PROVE FALSE
    OBVIOUS
  <2>1. ~(h < y)
    BY <1>4 DEF FreeOf, NoTags
  <2>2. y = h - 1
    BY <1>2, <1>3, <2>1
  <2>3. y \in HeadsOf(t) /\ y # Area /\ y # Last
    BY <1>1, FreeAreHeads
  <2>4. /\ \A x \in UsedOf(t) : ~(y < x /\ x < NextBlock(t, y))
        /\ t.hdr[y].size \in 2 .. FirstSize /\ NextBlock(t, y) = y + 2 + t.hdr[y].size
    BY <1>1, <2>3, Span
  <2>5. FirstSize \in Nat
    BY Parameters
  <2> QED
    BY <1>2, <1>3, <2>2, <2>4, <2>5
<1>6. Unlinked(t, FreeOf(t))
  BY DEF Good, Lists
<1> QED
  BY <1>4, <1>5, <1>6 DEF Unlinked

\* A header without its links.
Tags(g) == [g EXCEPT !.prev = NULL, !.next = NULL]

LEMMA SameButLinks ==
  ASSUME NEW t \in Pool, NEW u \in Pool, NEW y \in Spots, NoTags(t.hdr[y]), NoTags(u.hdr[y])
  PROVE  Tags(t.hdr[y]) = Tags(u.hdr[y])
<1> DEFINE a == t.hdr[y]
           b == u.hdr[y]
<1>1. a \in Block /\ b \in Block /\ NoTags(a) /\ NoTags(b)
  BY HeaderFields
<1>2. \A g, h \in Block : NoTags(g) /\ NoTags(h) =>
         Tags(g) = Tags(h)
  BY DEF Block, NoTags, Tags
<1> HIDE DEF a, b
<1>3. Tags(a) = Tags(b)
  BY <1>1, <1>2
<1> QED
  BY <1>3 DEF a, b

\* Between two sound states of the allocator, no cell of a block that is used
\* in both is written: only what the block has gained or lost can be.
LEMMA Undisturbed ==
  ASSUME NEW t, Good(t), NEW u, Good(u), NEW h \in UsedOf(t), h \in UsedOf(u),
         NEW z \in Payload(t, h), z \in Payload(u, h)
  PROVE  z \notin Written(t, u)
<1>1. /\ h \in Nat /\ h \in Spots /\ t.hdr[h].size \in Nat /\ u.hdr[h].size \in Nat
      /\ t \in Pool /\ u \in Pool
  BY PayloadPlaces DEF Good, Sound, SoundBut
<1>2. z \in Nat /\ h + 2 <= z /\ z < h + 2 + t.hdr[h].size /\ z < h + 2 + u.hdr[h].size
  BY <1>1 DEF Payload
<1>3. ASSUME NEW y \in Spots, z = y \/ z = y + 1
      PROVE  Tags(t.hdr[y]) = Tags(u.hdr[y])
  <2>1. y \in Nat
    BY SpotsArePlaces
  <2>2. y # h /\ h - 1 <= y /\ h < y /\ y < h + 2 + t.hdr[h].size /\ y < h + 2 + u.hdr[h].size
    BY <1>1, <1>2, <1>3, <2>1
  <2>3. NoTags(t.hdr[y]) /\ NoTags(u.hdr[y])
    BY <2>2, NoHeaderInside
  <2> QED
    BY <1>1, <2>3, SameButLinks
<1>4. ASSUME NEW y \in Spots, z = y + 2 \/ z = y + 3
      PROVE  t.hdr[y].prev = u.hdr[y].prev /\ t.hdr[y].next = u.hdr[y].next
  <2>1. y \in Nat
    BY SpotsArePlaces
  <2>2. CASE y = h
    <3>1. h \notin FreeOf(t) /\ h \notin FreeOf(u)
      BY DEF FreeOf, UsedOf
    <3>2. Unlinked(t, FreeOf(t)) /\ Unlinked(u, FreeOf(u))
      BY DEF Good, Lists
    <3> QED
      BY <1>1, <2>2, <3>1, <3>2 DEF Unlinked
  <2>3. CASE y # h
    <3>1. h - 1 <= y /\ y < h + 2 + t.hdr[h].size /\ y < h + 2 + u.hdr[h].size
      BY <1>1, <1>2, <1>4, <2>1
    <3>2. t.hdr[y].prev = NULL /\ t.hdr[y].next = NULL
      BY <2>3, <3>1, NoHeaderInside
    <3>3. u.hdr[y].prev = NULL /\ u.hdr[y].next = NULL
      BY <2>3, <3>1, NoHeaderInside
    <3> QED
      BY <3>2, <3>3
  <2> QED
    BY <2>2, <2>3
<1> DEFINE Headers == {y \in Spots : Tags(t.hdr[y]) # Tags(u.hdr[y])}
           Links == {y \in Spots : <<t.hdr[y].prev, t.hdr[y].next>>
                                      # <<u.hdr[y].prev, u.hdr[y].next>>}
<1>5. \A y \in Headers : z # y /\ z # y + 1
  BY <1>3
<1>6. \A y \in Links : z # y + 2 /\ z # y + 3
  BY <1>4
<1> DEFINE A == UNION {{y, y + 1} : y \in Headers}
           B == UNION {{y + 2, y + 3} : y \in Links}
<1>7. Written(t, u) = A \cup B
  BY Zenon DEF Written, Tags
<1> HIDE DEF Headers, Links
<1>8. ASSUME z \in A PROVE FALSE
  <2>1. PICK x \in Headers : z \in {x, x + 1}
    BY <1>8, Zenon
  <2> QED
    BY <1>5, <2>1
<1>9. ASSUME z \in B PROVE FALSE
  <2>1. PICK x \in Links : z \in {x + 2, x + 3}
    BY <1>9, Zenon
  <2> QED
    BY <1>6, <2>1
<1> HIDE DEF A, B
<1> QED
  BY <1>7, <1>8, <1>9

-----------------------------------------------------------------------------
(* What the operations on the cells do to one cell.                        *)

\* The cells of buffer d, with pointers p and sizes a.
CellsOf(p, a, d) == p[d] .. (p[d] + a[d] - 1)

LEMMA ScratchAt ==
  ASSUME NEW w, NEW t, NEW u, NEW x \in Cells, x \notin Written(t, u)
  PROVE  Scratch(w, t, u)[x] = w[x]
<1> DEFINE S == Written(t, u)
<1>1. Scratch(w, t, u) = [y \in Cells |-> IF y \in S THEN Nobody ELSE w[y]]
  BY Zenon DEF Scratch
<1> HIDE DEF S
<1>2. Scratch(w, t, u)[x] = IF x \in S THEN Nobody ELSE w[x]
  BY <1>1
<1> QED
  BY <1>2 DEF S

LEMMA CopyAt ==
  ASSUME NEW w, NEW from, NEW to, NEW n, NEW x \in Cells
  PROVE  Copy(w, from, to, n)[x] = IF x \in to .. (to + n - 1) THEN w[x - to + from] ELSE w[x]
BY DEF Copy

LEMMA FillAt ==
  ASSUME NEW w, NEW b, NEW k, NEW x \in Cells
  PROVE  Fill(w, b, k)[x] = IF x \in (ptr'[b] + k) .. (ptr'[b] + asked'[b] - 1) THEN b ELSE w[x]
BY DEF Fill

LEMMA SettledAt ==
  ASSUME NEW w, NEW d \in Buffers, ptr'[d] # NULL, NEW x \in Cells, x \in CellsOf(ptr', asked', d)
  PROVE  Settled(w)[x] = w[x]
<1> DEFINE S == {y \in Cells : \E b \in Buffers :
                                /\ ptr'[b] # NULL
                                /\ y \in ptr'[b] .. (ptr'[b] + asked'[b] - 1)}
<1>1. Settled(w) = [y \in Cells |-> IF y \in S THEN w[y] ELSE Nobody]
  BY DEF Settled
<1>2. x \in S
  BY DEF CellsOf
<1> HIDE DEF S
<1> QED
  BY <1>1, <1>2

\* A buffer's cells are its block's.
LEMMA CellsInPayload ==
  ASSUME NEW t, Good(t), NEW p, NEW a, Held(t, p, a), NEW d \in Buffers, p[d] # NULL
  PROVE  LET h == p[d] - Overhead IN
         /\ h \in UsedOf(t) /\ p[d] \in Nat /\ a[d] \in Nat /\ p[d] = h + 2
         /\ CellsOf(p, a, d) \subseteq Payload(t, h) /\ p[d] \in Payload(t, h)
         /\ Payload(t, h) \subseteq Cells /\ a[d] <= t.hdr[h].size
         /\ t.hdr[h].size \in Nat
<1> DEFINE h == p[d] - Overhead
<1>1. h \in UsedOf(t) /\ h \in Nat /\ p[d] \in Nat /\ p[d] = h + 2
  BY HeldBlock
<1>2. a[d] \in Nat /\ t.hdr[h].size >= a[d]
  BY DEF Held
<1> HIDE DEF h
<1>3. t.hdr[h].size \in Nat /\ Payload(t, h) \subseteq Cells /\ h + 2 \in Payload(t, h)
  BY <1>1, PayloadPlaces
<1>4. CellsOf(p, a, d) \subseteq Payload(t, h)
  BY <1>1, <1>2, <1>3 DEF CellsOf, Payload
<1> QED
  BY <1>1, <1>2, <1>3, <1>4 DEF h

\* The cells of two buffers are not the same.
LEMMA BuffersApart ==
  ASSUME NEW t, Good(t), NEW p, NEW a, Held(t, p, a),
         NEW b \in Buffers, p[b] # NULL, NEW d \in Buffers, p[d] # NULL, b # d
  PROVE  LET h == p[b] - Overhead
             k == p[d] - Overhead
         IN  h # k /\ Payload(t, h) \cap Payload(t, k) = {}
<1> DEFINE h == p[b] - Overhead
           k == p[d] - Overhead
<1>1. h \in UsedOf(t) /\ k \in UsedOf(t)
  BY HeldBlock
<1>2. h # k
  <2>1. p[b] \in Pointer /\ p[d] \in Pointer
    BY DEF Held
  <2>2. p[b] # p[d]
    BY DEF Held
  <2> QED
    BY <2>1, <2>2, PointersApart
<1> HIDE DEF h, k
<1>3. Payload(t, h) \cap Payload(t, k) = {}
  BY <1>1, <1>2, PayloadsApart
<1> QED
  BY <1>2, <1>3 DEF h, k

-----------------------------------------------------------------------------
(* What each action does to the buffers.                                   *)

\* A buffer that is not allocated has no cells.
Idle == \A b \in Buffers : ptr[b] = NULL => asked[b] = 0

Unchanged(d) == \A x \in CellsOf(ptr, asked, d) : word'[x] = word[x]

\* b has n cells; the first are what they were, the client filled the rest.
\* The other buffers are where and what they were.
Placed(b, n) ==
    /\ ptr'[b] \in Cells /\ ptr' = [ptr EXCEPT ![b] = ptr'[b]]
    /\ asked' = [asked EXCEPT ![b] = n]
    /\ \A d \in Buffers \ {b} : ptr[d] # NULL => Unchanged(d)
    /\ \A k \in 1 .. n : word'[ptr'[b] + k - 1]
                            = IF k <= asked[b] THEN word[ptr[b] + k - 1] ELSE b

\* What the allocator writes is no cell of a buffer that stays where it is.
LEMMA Survives ==
  ASSUME HeapInv, HeapInv', NEW d \in Buffers, ptr[d] # NULL, ptr'[d] = ptr[d],
         NEW x \in CellsOf(ptr, asked, d), x \in CellsOf(ptr', asked', d)
  PROVE  x \in Cells /\ x \notin Written(tlsf, tlsf')
<1> DEFINE h == ptr[d] - Overhead
<1>1. /\ Good(tlsf) /\ Held(tlsf, ptr, asked)
      /\ Good(tlsf') /\ Held(tlsf', ptr', asked')
  BY DEF HeapInv, Good
<1>2. h \in UsedOf(tlsf) /\ x \in Payload(tlsf, h) /\ x \in Cells
  BY <1>1, CellsInPayload
<1>3. h \in UsedOf(tlsf') /\ x \in Payload(tlsf', h)
  <2>1. LET k == ptr'[d] - Overhead
        IN  k \in UsedOf(tlsf') /\ CellsOf(ptr', asked', d) \subseteq Payload(tlsf', k)
    BY <1>1, CellsInPayload
  <2> QED
    BY <2>1
<1> HIDE DEF h
<1>4. x \notin Written(tlsf, tlsf')
  BY <1>1, <1>2, <1>3, Undisturbed
<1> QED
  BY <1>2, <1>4

\* Nor is it written by the client of another buffer.
LEMMA NotFilled ==
  ASSUME HeapInv', NEW b \in Buffers, ptr'[b] # NULL, NEW d \in Buffers, ptr'[d] # NULL, b # d,
         NEW x \in CellsOf(ptr', asked', d), NEW k \in Nat
  PROVE  x \notin (ptr'[b] + k) .. (ptr'[b] + asked'[b] - 1)
<1>1. Good(tlsf') /\ Held(tlsf', ptr', asked')
  BY DEF HeapInv, Good
<1> DEFINE h == ptr'[b] - Overhead
           g == ptr'[d] - Overhead
<1>2. /\ CellsOf(ptr', asked', b) \subseteq Payload(tlsf', h)
      /\ ptr'[b] \in Nat /\ asked'[b] \in Nat
  BY <1>1, CellsInPayload
<1>3. CellsOf(ptr', asked', d) \subseteq Payload(tlsf', g)
  BY <1>1, CellsInPayload
<1>4. Payload(tlsf', h) \cap Payload(tlsf', g) = {}
  BY <1>1, BuffersApart
<1> HIDE DEF h, g
<1>5. x \notin CellsOf(ptr', asked', b)
  BY <1>2, <1>3, <1>4
<1>6. (ptr'[b] + k) .. (ptr'[b] + asked'[b] - 1) \subseteq CellsOf(ptr', asked', b)
  BY <1>2 DEF CellsOf
<1> QED
  BY <1>5, <1>6

\* The other buffers' cells keep what they have when b is placed or resized.
LEMMA OthersKept ==
  ASSUME HeapInv, HeapInv', NEW b \in Buffers, NEW k \in Nat,
         word' = Settled(Fill(Scratch(word, tlsf, tlsf'), b, k)), ptr'[b] # NULL,
         NEW d \in Buffers, d # b, ptr[d] # NULL, ptr'[d] = ptr[d], asked'[d] = asked[d]
  PROVE  Unchanged(d)
<1> SUFFICES ASSUME NEW x \in CellsOf(ptr, asked, d) PROVE word'[x] = word[x]
  BY DEF Unchanged
<1>1. x \in CellsOf(ptr', asked', d)
  BY DEF CellsOf
<1>2. x \in Cells /\ x \notin Written(tlsf, tlsf')
  BY <1>1, Survives
<1> DEFINE v == Scratch(word, tlsf, tlsf')
           w == Fill(v, b, k)
<1>3. v[x] = word[x]
  BY <1>2, ScratchAt
<1>4. x \notin (ptr'[b] + k) .. (ptr'[b] + asked'[b] - 1)
  BY <1>1, NotFilled
<1> HIDE DEF v
<1>5. w[x] = v[x]
  BY <1>2, <1>4, FillAt
<1>6. word' = Settled(w)
  BY DEF v
<1> HIDE DEF w
<1>7. Settled(w)[x] = w[x]
  BY <1>1, <1>2, SettledAt
<1> QED
  BY <1>3, <1>5, <1>6, <1>7

\* What b has from number k on is its client's.
LEMMA NewFilled ==
  ASSUME HeapInv', NEW b \in Buffers, NEW k \in Nat, NEW v,
         word' = Settled(Fill(v, b, k)), ptr'[b] # NULL, NEW i \in 1 .. asked'[b]
  PROVE  /\ ptr'[b] + i - 1 \in Cells
         /\ word'[ptr'[b] + i - 1] = IF i <= k THEN v[ptr'[b] + i - 1] ELSE b
<1>1. Good(tlsf') /\ Held(tlsf', ptr', asked')
  BY DEF HeapInv, Good
<1> DEFINE h == ptr'[b] - Overhead
           x == ptr'[b] + i - 1
           w == Fill(v, b, k)
<1>2. /\ CellsOf(ptr', asked', b) \subseteq Payload(tlsf', h) /\ Payload(tlsf', h) \subseteq Cells
      /\ ptr'[b] \in Nat /\ asked'[b] \in Nat
  BY <1>1, CellsInPayload
<1> HIDE DEF h
<1>3. x \in CellsOf(ptr', asked', b)
  BY <1>2 DEF CellsOf
<1>4. x \in Cells
  BY <1>2, <1>3
<1>5. x \in (ptr'[b] + k) .. (ptr'[b] + asked'[b] - 1) <=> ~(i <= k)
  BY <1>2
<1> HIDE DEF x
<1>6. w[x] = IF i <= k THEN v[x] ELSE b
  BY <1>4, <1>5, FillAt
<1> HIDE DEF w
<1>7. Settled(w)[x] = w[x]
  BY <1>3, <1>4, SettledAt
<1> QED
  BY <1>4, <1>6, <1>7 DEF w, x

LEMMA HeldPointers ==
  ASSUME HeapInv
  PROVE  /\ ptr \in [Buffers -> Pointer] /\ asked \in [Buffers -> Nat]
         /\ Good(tlsf) /\ Held(tlsf, ptr, asked)
  BY DEF HeapInv, Good, Held

\* malloc.
LEMMA MallocPlaces ==
  ASSUME HeapInv, HeapInv', Idle, NEW b \in Buffers, NEW n \in Requests, Malloc(b, n),
         ptr'[b] # NULL
  PROVE  Placed(b, n)
<1>1. /\ ptr \in [Buffers -> Pointer] /\ asked \in [Buffers -> Nat]
      /\ Good(tlsf') /\ Held(tlsf', ptr', asked')
  BY HeldPointers DEF HeapInv, Good
<1> DEFINE got == MallocEx(tlsf, n)
<1>2. /\ ptr[b] = NULL /\ ptr' = [ptr EXCEPT ![b] = got.ptr]
      /\ asked' = [asked EXCEPT ![b] = IF got.ptr = NULL THEN 0 ELSE n]
      /\ word' = Settled(Fill(Scratch(word, tlsf, tlsf'), b, 0))
  BY Zenon DEF Malloc
<1> HIDE DEF got
<1>3. got.ptr # NULL /\ ptr' = [ptr EXCEPT ![b] = ptr'[b]] /\ asked' = [asked EXCEPT ![b] = n]
  BY <1>1, <1>2
<1>4. /\ \A d \in Buffers \ {b} : ptr'[d] = ptr[d] /\ asked'[d] = asked[d]
      /\ asked'[b] = n /\ asked[b] = 0
  BY <1>1, <1>2, <1>3 DEF Idle
<1>5. ptr'[b] \in Cells
  BY <1>1, CellsInPayload
<1>6. ASSUME NEW d \in Buffers \ {b}, ptr[d] # NULL PROVE Unchanged(d)
  BY <1>2, <1>4, <1>6, OthersKept
<1>7. ASSUME NEW k \in 1 .. n PROVE ~(k <= asked[b]) /\ word'[ptr'[b] + k - 1] = b
  <2> DEFINE v == Scratch(word, tlsf, tlsf')
  <2>1. word' = Settled(Fill(v, b, 0)) /\ k \in 1 .. asked'[b]
    BY <1>2, <1>4
  <2>2. ~(k <= 0)
    OBVIOUS
  <2> HIDE DEF v
  <2> QED
    BY <1>4, <2>1, <2>2, NewFilled
<1> QED
  BY <1>3, <1>5, <1>6, <1>7 DEF Placed

\* malloc when there is no block that is large enough.
LEMMA MallocRefused ==
  ASSUME HeapInv, HeapInv', Idle, NEW b \in Buffers, NEW n \in Requests, Malloc(b, n),
         ptr'[b] = NULL
  PROVE  /\ ptr' = ptr /\ asked' = asked
         /\ \A d \in Buffers : ptr[d] # NULL => Unchanged(d)
<1>1. ptr \in [Buffers -> Pointer] /\ asked \in [Buffers -> Nat]
  BY HeldPointers
<1> DEFINE got == MallocEx(tlsf, n)
<1>2. /\ ptr[b] = NULL /\ ptr' = [ptr EXCEPT ![b] = got.ptr]
      /\ asked' = [asked EXCEPT ![b] = IF got.ptr = NULL THEN 0 ELSE n]
      /\ word' = Settled(Fill(Scratch(word, tlsf, tlsf'), b, 0))
  BY Zenon DEF Malloc
<1> HIDE DEF got
<1>3. got.ptr = NULL /\ asked[b] = 0
  BY <1>1, <1>2 DEF Idle
<1>4. ptr' = ptr /\ asked' = asked
  BY <1>1, <1>2, <1>3
<1>5. ASSUME NEW d \in Buffers, ptr[d] # NULL, NEW x \in CellsOf(ptr, asked, d)
      PROVE  word'[x] = word[x]
  <2> DEFINE v == Scratch(word, tlsf, tlsf')
             w == Fill(v, b, 0)
  <2>1. x \in CellsOf(ptr', asked', d) /\ ptr'[d] # NULL /\ ptr'[d] = ptr[d]
    BY <1>4, <1>5
  <2>2. x \in Cells /\ x \notin Written(tlsf, tlsf')
    BY <1>5, <2>1, Survives
  <2>3. v[x] = word[x]
    BY <2>2, ScratchAt
  <2> HIDE DEF v
  <2>4. x \notin (ptr'[b] + 0) .. (ptr'[b] + asked'[b] - 1)
    BY <1>2, <1>3, <1>4 DEF NULL
  <2>5. w[x] = v[x]
    BY <2>2, <2>4, FillAt
  <2>6. word' = Settled(w)
    BY <1>2 DEF v
  <2> HIDE DEF w
  <2>7. Settled(w)[x] = w[x]
    BY <2>1, <2>2, SettledAt
  <2> QED
    BY <2>3, <2>5, <2>6, <2>7
<1> QED
  BY <1>4, <1>5 DEF Unchanged

\* free.
LEMMA FreeReleases ==
  ASSUME HeapInv, HeapInv', NEW b \in Buffers, Free(b)
  PROVE  /\ ptr[b] # NULL /\ ptr' = [ptr EXCEPT ![b] = NULL]
         /\ asked' = [asked EXCEPT ![b] = 0]
         /\ \A d \in Buffers \ {b} : ptr[d] # NULL => Unchanged(d)
<1>1. ptr \in [Buffers -> Pointer] /\ asked \in [Buffers -> Nat]
  BY HeldPointers
<1>2. /\ ptr[b] # NULL /\ ptr' = [ptr EXCEPT ![b] = NULL]
      /\ asked' = [asked EXCEPT ![b] = 0]
      /\ word' = Settled(Scratch(word, tlsf, tlsf'))
  BY Zenon DEF Free
<1>3. ASSUME NEW d \in Buffers \ {b}, ptr[d] # NULL, NEW x \in CellsOf(ptr, asked, d)
      PROVE  word'[x] = word[x]
  <2> DEFINE v == Scratch(word, tlsf, tlsf')
  <2>1. /\ ptr'[d] # NULL /\ ptr'[d] = ptr[d] /\ asked'[d] = asked[d]
        /\ x \in CellsOf(ptr', asked', d)
    BY <1>1, <1>2, <1>3 DEF CellsOf
  <2>2. x \in Cells /\ x \notin Written(tlsf, tlsf')
    BY <1>3, <2>1, Survives
  <2>3. v[x] = word[x]
    BY <2>2, ScratchAt
  <2>4. word' = Settled(v)
    BY <1>2
  <2> HIDE DEF v
  <2>5. Settled(v)[x] = v[x]
    BY <2>1, <2>2, SettledAt
  <2> QED
    BY <2>3, <2>4, <2>5
<1> QED
  BY <1>2, <1>3 DEF Unchanged

\* realloc in place.
LEMMA ReallocInPlacePlaces ==
  ASSUME HeapInv, HeapInv', NEW b \in Buffers, NEW n \in Requests, ReallocInPlace(b, n)
  PROVE  ptr[b] # NULL /\ Placed(b, n)
<1>1. /\ ptr \in [Buffers -> Pointer] /\ asked \in [Buffers -> Nat]
      /\ Good(tlsf) /\ Held(tlsf, ptr, asked) /\ Good(tlsf') /\ Held(tlsf', ptr', asked')
  BY HeldPointers DEF HeapInv, Good
<1>2. /\ ptr[b] # NULL /\ ptr' = ptr /\ asked' = [asked EXCEPT ![b] = n]
      /\ word' = Settled(Fill(Scratch(word, tlsf, tlsf'), b, asked[b]))
  BY Zenon DEF ReallocInPlace
<1>3. /\ ptr' = [ptr EXCEPT ![b] = ptr'[b]] /\ ptr'[b] # NULL
      /\ \A d \in Buffers \ {b} : ptr'[d] = ptr[d] /\ asked'[d] = asked[d]
      /\ asked'[b] = n /\ asked[b] \in Nat /\ ptr'[b] = ptr[b]
  BY <1>1, <1>2
<1>4. ptr'[b] \in Cells /\ ptr'[b] \in Nat /\ n \in Nat
  BY <1>1, <1>3, CellsInPayload
<1>5. ASSUME NEW d \in Buffers \ {b}, ptr[d] # NULL PROVE Unchanged(d)
  BY <1>2, <1>3, <1>5, OthersKept
<1>6. ASSUME NEW k \in 1 .. n
      PROVE  word'[ptr'[b] + k - 1] = IF k <= asked[b] THEN word[ptr[b] + k - 1] ELSE b
  <2> DEFINE v == Scratch(word, tlsf, tlsf')
             x == ptr'[b] + k - 1
  <2>1. word' = Settled(Fill(v, b, asked[b])) /\ k \in 1 .. asked'[b]
    BY <1>2, <1>3
  <2>2. k <= asked[b] => v[x] = word[x]
    <3> SUFFICES ASSUME k <= asked[b] PROVE v[x] = word[x]
      OBVIOUS
    <3>1. x \in CellsOf(ptr, asked, b) /\ x \in CellsOf(ptr', asked', b)
      BY <1>3, <1>4 DEF CellsOf
    <3> HIDE DEF x
    <3>2. x \in Cells /\ x \notin Written(tlsf, tlsf')
      BY <1>2, <1>3, <3>1, Survives
    <3> QED
      BY <3>2, ScratchAt
  <2> HIDE DEF v
  <2>3. word'[x] = IF k <= asked[b] THEN v[x] ELSE b
    BY <1>3, <2>1, NewFilled
  <2> QED
    BY <1>3, <2>2, <2>3
<1> QED
  BY <1>2, <1>3, <1>4, <1>5, <1>6 DEF Placed

\* realloc by way of malloc, memcpy and free: u is the allocator between
\* malloc and free, q the new block.
MovesTo(b, n, u, q) ==
    LET h == ptr[b] - Overhead
        size == tlsf.hdr[h].size
        copied == Copy(Scratch(word, tlsf, u), ptr[b], q, size)
    IN  /\ q # NULL /\ q \in Pointer /\ q - Overhead \in FreeOf(tlsf)
        /\ Taken(tlsf, u, q - Overhead) /\ Freed(u, tlsf', h)
        /\ u.hdr[q - Overhead].size >= size
        /\ ptr' = [ptr EXCEPT ![b] = q] /\ asked' = [asked EXCEPT ![b] = n]
        /\ word' = Settled(Fill(Scratch(copied, u, tlsf'), b, asked[b]))

LEMMA MoveSteps ==
  ASSUME HeapInv, NEW b \in Buffers, NEW n \in Requests, ReallocMove(b, n)
  PROVE  ptr[b] # NULL /\ (UNCHANGED vars \/ \E u, q : MovesTo(b, n, u, q))
<1> DEFINE h == ptr[b] - Overhead
           got == MallocEx(tlsf, Rounded(n))
           size == MappingSearch(Rounded(Rounded(n))).size
           copied == IF tlsf.hdr[h].size > Rounded(n) THEN Rounded(n) ELSE tlsf.hdr[h].size
           u == got.tlsf
           q == got.ptr
           v == FreeEx(u, ptr[b])
           final(k) == Settled(Fill(Scratch(Copy(Scratch(word, tlsf, u), ptr[b], q, k),
                                            u, tlsf'), b, asked[b]))
<1>1. Good(tlsf) /\ Held(tlsf, ptr, asked)
  BY DEF HeapInv, Good
<1>2. /\ ptr[b] # NULL /\ Rounded(n) > tlsf.hdr[h].size
      /\ q = NULL => UNCHANGED vars
      /\ q # NULL => /\ tlsf' = v /\ ptr' = [ptr EXCEPT ![b] = q]
                     /\ asked' = [asked EXCEPT ![b] = n]
                     /\ word' = final(copied)
  BY Zenon DEF ReallocMove
<1>3. /\ Rounded(n) \in 0 .. (Pow2[29] - 1) /\ Rounded(n) \in Nat /\ n \in Nat
  BY RequestRange
<1>4. Rounded(Rounded(n)) \in Nat /\ Rounded(Rounded(n)) >= Rounded(n)
  BY <1>3, RoundedRange
<1>5. Got(tlsf, got, size) /\ size \in Nat /\ size >= Rounded(Rounded(n))
  BY <1>1, <1>3, MallocStep
<1>6. h \in UsedOf(tlsf) /\ tlsf.hdr[h].size \in Nat
  BY <1>1, <1>2, HeldBlock
<1> HIDE DEF got, size, v
<1>7. CASE q = NULL
  BY <1>2, <1>7
<1>8. CASE q # NULL
  <2>1. /\ q - Overhead \in FreeOf(tlsf) /\ q \in Pointer
        /\ u.hdr[q - Overhead].size >= size
        /\ Taken(tlsf, u, q - Overhead)
    BY <1>5, <1>8 DEF Got
  <2>2. copied = tlsf.hdr[h].size
    <3> HIDE DEF h
    <3> QED
      BY <1>2, <1>3, <1>6
  <2> HIDE DEF q, u, copied, h
  <2>3. Good(u) /\ UsedOf(u) = UsedOf(tlsf) \cup {q - Overhead}
    BY <2>1 DEF Taken
  <2>4. u.hdr[q - Overhead].size \in Nat
    <3>1. u \in Pool
      BY <2>3 DEF Good, Sound, SoundBut
    <3>2. q - Overhead \in Spots
      BY <2>1 DEF FreeOf
    <3> QED
      BY <3>1, <3>2, HeaderFields
  <2>5. u.hdr[q - Overhead].size >= tlsf.hdr[h].size
    BY <1>2, <1>3, <1>4, <1>5, <1>6, <2>1, <2>4
  <2>6. h \in UsedOf(u)
    BY <1>6, <2>3
  <2>7. SoundBut(u, {h}) /\ Lists(u, FreeOf(u))
    BY <2>3 DEF Good, Sound, SoundBut
  <2>8. Freed(u, v, h)
    BY <2>6, <2>7, FreeStep DEF v, h
  <2>9. word' = final(tlsf.hdr[h].size)
    BY <1>2, <1>8, <2>2
  <2>10. MovesTo(b, n, u, q)
    BY <1>2, <1>8, <2>1, <2>5, <2>8, <2>9, Zenon DEF MovesTo, h
  <2> QED
    BY <1>2, <2>10
<1> QED
  BY <1>7, <1>8

\* A block that malloc did not take, and one that free did not release, is
\* where it was.
LEMMA TakenStays ==
  ASSUME NEW t, NEW u, NEW k, k \notin UsedOf(t), Taken(t, u, k), NEW g \in UsedOf(t)
  PROVE  /\ Good(u) /\ k \in UsedOf(u) /\ g # k
         /\ g \in UsedOf(u) /\ Payload(u, g) = Payload(t, g)
BY DEF Taken, Payload

LEMMA FreedStays ==
  ASSUME NEW u, NEW v, NEW h, Freed(u, v, h), NEW g \in UsedOf(u), g # h
  PROVE  /\ Good(v) /\ g \in UsedOf(v) /\ Payload(v, g) = Payload(u, g)
BY DEF Freed, Payload

\* realloc to another block.
LEMMA ReallocMovePlaces ==
  ASSUME HeapInv, HeapInv', NEW b \in Buffers, NEW n \in Requests, ptr[b] # NULL,
         NEW u, NEW q, MovesTo(b, n, u, q)
  PROVE  Placed(b, n)
<1> DEFINE h == ptr[b] - Overhead
           k == q - Overhead
           size == tlsf.hdr[h].size
           before == Scratch(word, tlsf, u)
           copied == Copy(before, ptr[b], q, size)
           after == Scratch(copied, u, tlsf')
<1>1. /\ ptr \in [Buffers -> Pointer] /\ asked \in [Buffers -> Nat]
      /\ Good(tlsf) /\ Held(tlsf, ptr, asked) /\ Good(tlsf') /\ Held(tlsf', ptr', asked')
  BY HeldPointers DEF HeapInv, Good
<1>2. /\ q # NULL /\ q \in Pointer /\ k \in FreeOf(tlsf)
      /\ Taken(tlsf, u, k) /\ Freed(u, tlsf', h) /\ u.hdr[k].size >= size
      /\ ptr' = [ptr EXCEPT ![b] = q] /\ asked' = [asked EXCEPT ![b] = n]
      /\ word' = Settled(Fill(after, b, asked[b]))
  BY Zenon DEF MovesTo
<1>3. /\ ptr' = [ptr EXCEPT ![b] = ptr'[b]] /\ ptr'[b] = q /\ asked'[b] = n
      /\ \A d \in Buffers \ {b} : ptr'[d] = ptr[d] /\ asked'[d] = asked[d]
  BY <1>1, <1>2
<1>4. /\ h \in UsedOf(tlsf) /\ ptr[b] \in Nat /\ asked[b] \in Nat /\ ptr[b] = h + 2
      /\ CellsOf(ptr, asked, b) \subseteq Payload(tlsf, h)
      /\ Payload(tlsf, h) \subseteq Cells /\ asked[b] <= size /\ size \in Nat
  BY <1>1, CellsInPayload
<1>5. /\ q \in Nat /\ n \in Nat /\ q = k + 2 /\ q \in Cells
      /\ CellsOf(ptr', asked', b) \subseteq Payload(tlsf', k)
      /\ Payload(tlsf', k) \subseteq Cells
  <2>1. LET g == ptr'[b] - Overhead IN
        /\ ptr'[b] \in Nat /\ ptr'[b] = g + 2
        /\ CellsOf(ptr', asked', b) \subseteq Payload(tlsf', g)
        /\ ptr'[b] \in Payload(tlsf', g) /\ Payload(tlsf', g) \subseteq Cells
    <3>1. ptr'[b] # NULL
      BY <1>2, <1>3
    <3> QED
      BY <1>1, <3>1, CellsInPayload, Zenon
  <2>2. n \in Nat
    BY RequestRange
  <2>3. k = ptr'[b] - Overhead
    BY <1>3
  <2> QED
    BY <1>3, <2>1, <2>2, <2>3
<1>6. k \notin UsedOf(tlsf)
  BY <1>2 DEF FreeOf, UsedOf
<1> HIDE DEF h, k, size
<1>7. /\ Good(u) /\ k \in UsedOf(u) /\ k \in UsedOf(tlsf') /\ k # h
      /\ Payload(tlsf', k) = Payload(u, k)
      /\ h \in UsedOf(u) /\ Payload(u, h) = Payload(tlsf, h)
  <2>1. /\ Good(u) /\ k \in UsedOf(u) /\ h # k
        /\ h \in UsedOf(u) /\ Payload(u, h) = Payload(tlsf, h)
    BY <1>2, <1>4, <1>6, TakenStays
  <2>2. k \in UsedOf(tlsf') /\ Payload(tlsf', k) = Payload(u, k)
    BY <1>2, <2>1, FreedStays
  <2> QED
    BY <2>1, <2>2
<1>8. q .. (q + size - 1) \subseteq Payload(u, k) /\ Payload(u, k) \subseteq Cells
  <2>1. u.hdr[k].size \in Nat /\ Payload(u, k) \subseteq Cells /\ k \in Nat
    BY <1>7, PayloadPlaces
  <2> QED
    BY <1>2, <1>4, <1>5, <2>1 DEF Payload
<1>9. ASSUME NEW d \in Buffers \ {b}, ptr[d] # NULL, NEW x \in CellsOf(ptr, asked, d)
      PROVE  word'[x] = word[x]
  <2> DEFINE g == ptr[d] - Overhead
  <2>1. /\ g \in UsedOf(tlsf) /\ x \in Payload(tlsf, g) /\ x \in Cells
    BY <1>1, <1>9, CellsInPayload
  <2>2. g # h
    BY <1>1, <1>9, BuffersApart DEF h
  <2> HIDE DEF g
  <2>3. /\ g \in UsedOf(u) /\ Payload(u, g) = Payload(tlsf, g)
        /\ g \in UsedOf(tlsf') /\ Payload(tlsf', g) = Payload(tlsf, g)
    <3>1. g \in UsedOf(u) /\ Payload(u, g) = Payload(tlsf, g)
      BY <1>2, <1>6, <2>1, TakenStays
    <3>2. g \in UsedOf(tlsf') /\ Payload(tlsf', g) = Payload(u, g)
      BY <1>2, <2>2, <3>1, FreedStays
    <3> QED
      BY <3>1, <3>2
  <2>4. x \notin Written(tlsf, u)
    BY <1>1, <1>7, <2>1, <2>3, Undisturbed
  <2>5. x \notin Written(u, tlsf')
    BY <1>1, <1>7, <2>1, <2>3, Undisturbed
  <2>6. x \notin q .. (q + size - 1)
    <3>1. g # k
      BY <1>6, <2>1
    <3>2. Payload(u, g) \cap Payload(u, k) = {}
      BY <1>7, <2>3, <3>1, PayloadsApart
    <3> QED
      BY <1>8, <2>1, <2>3, <3>2
  <2>7. before[x] = word[x]
    BY <2>1, <2>4, ScratchAt
  <2> HIDE DEF before
  <2>8. copied[x] = before[x]
    BY <2>1, <2>6, CopyAt
  <2> HIDE DEF copied
  <2>9. after[x] = copied[x]
    BY <2>1, <2>5, ScratchAt
  <2> DEFINE w == Fill(after, b, asked[b])
  <2>10. x \in CellsOf(ptr', asked', d) /\ ptr'[d] # NULL
    BY <1>3, <1>9 DEF CellsOf
  <2>11. x \notin (ptr'[b] + asked[b]) .. (ptr'[b] + asked'[b] - 1)
    BY <1>2, <1>3, <1>4, <2>10, NotFilled
  <2> HIDE DEF after
  <2>12. w[x] = after[x]
    BY <2>1, <2>11, FillAt
  <2>13. word' = Settled(w)
    BY <1>2
  <2> HIDE DEF w
  <2>14. Settled(w)[x] = w[x]
    BY <2>1, <2>10, SettledAt
  <2> QED
    BY <2>7, <2>8, <2>9, <2>12, <2>13, <2>14
<1>10. ASSUME NEW i \in 1 .. n
       PROVE  word'[ptr'[b] + i - 1] = IF i <= asked[b] THEN word[ptr[b] + i - 1] ELSE b
  <2> DEFINE x == ptr'[b] + i - 1
             y == ptr[b] + i - 1
  <2>1. i \in 1 .. asked'[b] /\ ptr'[b] # NULL
    BY <1>2, <1>3
  <2>2. x \in Cells /\ word'[x] = IF i <= asked[b] THEN after[x] ELSE b
    <3> HIDE DEF after
    <3> QED
      BY <1>2, <1>4, <2>1, NewFilled
  <2>3. i <= asked[b] => after[x] = word[y]
    <3> SUFFICES ASSUME i <= asked[b] PROVE after[x] = word[y]
      OBVIOUS
    <3>1. x \in CellsOf(ptr', asked', b) /\ x \in q .. (q + size - 1) /\ x - q + ptr[b] = y
      BY <1>3, <1>4, <1>5 DEF CellsOf
    <3>2. y \in CellsOf(ptr, asked, b)
      BY <1>4 DEF CellsOf
    <3> HIDE DEF x, y
    <3>3. x \in Payload(u, k) /\ x \in Payload(tlsf', k)
      BY <1>5, <1>7, <3>1
    <3>4. x \notin Written(u, tlsf')
      BY <1>1, <1>7, <3>3, Undisturbed
    <3>5. y \in Payload(tlsf, h) /\ y \in Payload(u, h) /\ y \in Cells
      BY <1>4, <1>7, <3>2
    <3>6. y \notin Written(tlsf, u)
      BY <1>1, <1>4, <1>7, <3>5, Undisturbed
    <3>7. before[y] = word[y]
      BY <3>5, <3>6, ScratchAt
    <3> HIDE DEF before
    <3>8. copied[x] = before[y]
      BY <2>2, <3>1, CopyAt
    <3> HIDE DEF copied
    <3>9. after[x] = copied[x]
      BY <2>2, <3>4, ScratchAt
    <3> QED
      BY <3>7, <3>8, <3>9
  <2> HIDE DEF after
  <2> QED
    BY <2>2, <2>3
<1>11. \A d \in Buffers \ {b} : ptr[d] # NULL => Unchanged(d)
  BY <1>9 DEF Unchanged
<1> QED
  BY <1>2, <1>3, <1>5, <1>10, <1>11 DEF Placed

-----------------------------------------------------------------------------
(* The steps of Heap.                                                      *)

\* The sequences that Heap's variable stands for, and Heap's Extent.
ContentsOf(p, a, w) == [b \in Buffers |-> [k \in 1 .. a[b] |-> w[p[b] + k - 1]]]
Contents == ContentsOf(ptr, asked, word)

ExtentOf(p, c, d) == IF p[d] = NULL THEN {}
                     ELSE IF c[d] = <<>> THEN {p[d]}
                     ELSE p[d] .. (p[d] + Len(c[d]) - 1)

LEMMA LenOf ==
  ASSUME NEW n \in Nat, NEW T, NEW s \in [1 .. n -> T]
  PROVE  Len(s) = n
  OBVIOUS

\* The contents of buffer d are as many as were asked for.
LEMMA ContentsLen ==
  ASSUME NEW p, NEW a, NEW w, NEW d \in Buffers, a[d] \in Nat
  PROVE  Len(ContentsOf(p, a, w)[d]) = a[d]
<1> DEFINE T == {w[p[d] + k - 1] : k \in 1 .. a[d]}
           s == ContentsOf(p, a, w)[d]
<1>1. s = [k \in 1 .. a[d] |-> w[p[d] + k - 1]]
  BY DEF ContentsOf
<1> HIDE DEF s
<1>2. s \in [1 .. a[d] -> T]
  BY <1>1
<1> HIDE DEF T
<1>3. Len(s) = a[d]
  BY <1>2, LenOf
<1> QED
  BY <1>3 DEF s

LEMMA ExtentIn ==
  ASSUME NEW p, NEW a, NEW w, NEW d \in Buffers, a[d] \in Nat
  PROVE  /\ p[d] = NULL => ExtentOf(p, ContentsOf(p, a, w), d) = {}
         /\ ExtentOf(p, ContentsOf(p, a, w), d) \subseteq {p[d]} \cup CellsOf(p, a, d)
<1>1. Len(ContentsOf(p, a, w)[d]) = a[d]
  BY ContentsLen
<1> QED
  BY <1>1 DEF ExtentOf, CellsOf

LEMMA HInit ==
  Init => H!Init
<1> SUFFICES ASSUME Init PROVE H!Init
  OBVIOUS
<1>1. ptr = [b \in Buffers |-> NULL] /\ asked = [b \in Buffers |-> 0]
  BY DEF Init
<1>2. Contents = [b \in Buffers |-> <<>>]
  BY <1>1 DEF Contents, ContentsOf
<1> QED
  BY <1>1, <1>2 DEF H!Init, Contents, ContentsOf, NULL, H!NULL

\* Heap's buffers after b has been placed.
LEMMA PlacedContents ==
  ASSUME HeapInv, Idle, NEW b \in Buffers, NEW n \in Nat, Placed(b, n)
  PROVE  Contents' = [Contents EXCEPT ![b] = H!Filled(b, Contents[b], n)]
<1>1. ptr \in [Buffers -> Pointer] /\ asked \in [Buffers -> Nat]
  BY HeldPointers
<1>2. /\ ptr' = [ptr EXCEPT ![b] = ptr'[b]] /\ asked' = [asked EXCEPT ![b] = n]
      /\ \A d \in Buffers \ {b} : ptr[d] # NULL => Unchanged(d)
      /\ \A k \in 1 .. n : word'[ptr'[b] + k - 1]
                              = IF k <= asked[b] THEN word[ptr[b] + k - 1] ELSE b
  BY DEF Placed
<1>3. /\ asked'[b] = n
      /\ \A d \in Buffers \ {b} : ptr'[d] = ptr[d] /\ asked'[d] = asked[d]
  BY <1>1, <1>2
<1>4. ASSUME NEW d \in Buffers \ {b} PROVE Contents'[d] = Contents[d]
  <2>1. Contents'[d] = [k \in 1 .. asked[d] |-> word'[ptr[d] + k - 1]]
    BY <1>3 DEF Contents, ContentsOf
  <2>2. Contents[d] = [k \in 1 .. asked[d] |-> word[ptr[d] + k - 1]]
    BY DEF Contents, ContentsOf
  <2>3. asked[d] \in Nat
    BY <1>1
  <2>4. ASSUME NEW k \in 1 .. asked[d] PROVE word'[ptr[d] + k - 1] = word[ptr[d] + k - 1]
    <3>1. ptr[d] # NULL
      BY <2>3, <2>4 DEF Idle
    <3>2. ptr[d] \in Nat
      <4>1. ptr[d] \in Pointer
        BY <1>1
      <4>2. Pointer \subseteq Nat
        BY SpotsArePlaces DEF Pointer
      <4> QED
        BY <4>1, <4>2
    <3>3. ptr[d] + k - 1 \in CellsOf(ptr, asked, d)
      BY <2>3, <3>2 DEF CellsOf
    <3> QED
      BY <1>2, <3>1, <3>3 DEF Unchanged
  <2> QED
    BY <2>1, <2>2, <2>4
<1>5. Contents'[b] = H!Filled(b, Contents[b], n)
  <2>1. Contents'[b] = [k \in 1 .. n |-> word'[ptr'[b] + k - 1]]
    BY <1>3 DEF Contents, ContentsOf
  <2>2. /\ Contents[b] = [k \in 1 .. asked[b] |-> word[ptr[b] + k - 1]]
        /\ Len(Contents[b]) = asked[b] /\ asked[b] \in Nat
    <3>1. asked[b] \in Nat
      BY <1>1
    <3>2. ContentsOf(ptr, asked, word)[b] = [k \in 1 .. asked[b] |-> word[ptr[b] + k - 1]]
      BY DEF ContentsOf
    <3>3. Len(ContentsOf(ptr, asked, word)[b]) = asked[b]
      BY <3>1, ContentsLen
    <3> QED
      BY <3>1, <3>2, <3>3, Zenon DEF Contents
  <2>3. ASSUME NEW k \in 1 .. n
        PROVE  word'[ptr'[b] + k - 1]
                  = IF k <= Len(Contents[b]) THEN Contents[b][k] ELSE b
    <3>1. k <= asked[b] => Contents[b][k] = word[ptr[b] + k - 1]
      BY <2>2
    <3> QED
      BY <1>2, <2>2, <3>1
  <2> HIDE DEF Contents
  <2> QED
    BY <2>1, <2>3 DEF H!Filled
<1>6. /\ Contents = [d \in Buffers |-> Contents[d]]
      /\ Contents' = [d \in Buffers |-> Contents'[d]]
  BY DEF Contents, ContentsOf
<1> DEFINE new == H!Filled(b, Contents[b], n)
<1>7. Contents'[b] = new
  BY <1>5
<1> HIDE DEF new
<1>8. Contents' = [Contents EXCEPT ![b] = new]
  BY <1>4, <1>6, <1>7
<1> QED
  BY <1>8 DEF new

\* A step that places b is a step of Heap that places b.
LEMMA PlaceStep ==
  ASSUME HeapInv, HeapInv', Idle, NEW b \in Buffers, NEW n \in Nat, Placed(b, n)
  PROVE  H!Place(b, Contents[b], n)
<1>1. /\ ptr \in [Buffers -> Pointer] /\ asked \in [Buffers -> Nat]
      /\ Good(tlsf') /\ Held(tlsf', ptr', asked')
  BY HeldPointers DEF HeapInv, Good
<1>2. ptr'[b] \in Cells /\ ptr' = [ptr EXCEPT ![b] = ptr'[b]] /\ asked' = [asked EXCEPT ![b] = n]
  BY DEF Placed
<1>3. /\ asked'[b] = n /\ ptr'[b] # NULL
      /\ \A d \in Buffers \ {b} : ptr'[d] = ptr[d] /\ asked'[d] = asked[d]
  <2>1. NULL \notin Cells
    <3>1. First \in Nat
      BY SpotsArePlaces
    <3> QED
      BY <3>1 DEF Cells, NULL, Overhead
  <2> QED
    BY <1>1, <1>2, <2>1
<1> DEFINE g == ptr'[b] - Overhead
           extent == ExtentOf(ptr', Contents', b)
<1>4. extent \subseteq Payload(tlsf', g) /\ Payload(tlsf', g) \subseteq Cells
  <2>1. /\ CellsOf(ptr', asked', b) \subseteq Payload(tlsf', g)
        /\ ptr'[b] \in Payload(tlsf', g) /\ Payload(tlsf', g) \subseteq Cells
        /\ asked'[b] \in Nat
    BY <1>1, <1>3, CellsInPayload, Zenon
  <2>2. extent \subseteq {ptr'[b]} \cup CellsOf(ptr', asked', b)
    BY <2>1, ExtentIn, Zenon DEF Contents
  <2> HIDE DEF g, extent
  <2> QED
    BY <2>1, <2>2
<1>5. ASSUME NEW d \in Buffers \ {b}
      PROVE  extent \cap ExtentOf(ptr, Contents, d) = {}
  <2>1. asked[d] \in Nat
    BY <1>1
  <2>2. /\ ptr[d] = NULL => ExtentOf(ptr, Contents, d) = {}
        /\ ExtentOf(ptr, Contents, d) \subseteq {ptr[d]} \cup CellsOf(ptr, asked, d)
    BY <2>1, ExtentIn, Zenon DEF Contents
  <2>3. CASE ptr[d] = NULL
    BY <2>2, <2>3
  <2>4. CASE ptr[d] # NULL
    <3> DEFINE k == ptr'[d] - Overhead
    <3>1. ptr'[d] # NULL /\ CellsOf(ptr', asked', d) = CellsOf(ptr, asked, d) /\ ptr'[d] = ptr[d]
      BY <1>3, <2>4 DEF CellsOf
    <3>2. /\ CellsOf(ptr', asked', d) \subseteq Payload(tlsf', k)
          /\ ptr'[d] \in Payload(tlsf', k)
      BY <1>1, <3>1, CellsInPayload, Zenon
    <3>3. Payload(tlsf', g) \cap Payload(tlsf', k) = {}
      <4>1. d # b /\ d \in Buffers
        OBVIOUS
      <4> QED
        BY <1>1, <1>3, <3>1, <4>1, BuffersApart, Zenon
    <3> HIDE DEF g, k, extent
    <3>4. ExtentOf(ptr, Contents, d) \subseteq Payload(tlsf', k)
      BY <2>2, <3>1, <3>2
    <3> QED
      BY <1>4, <3>3, <3>4
  <2> QED
    BY <2>3, <2>4
<1>6. Contents' = [Contents EXCEPT ![b] = H!Filled(b, Contents[b], n)]
  BY PlacedContents
<1>7. /\ H!Extent(b)' = extent
      /\ \A d \in Buffers : H!Extent(d) = ExtentOf(ptr, Contents, d)
  BY Zenon DEF H!Extent, ExtentOf, Contents, ContentsOf, NULL, H!NULL
<1> HIDE DEF extent
<1>8. H!Extent(b)' \subseteq Cells
  BY <1>4, <1>7
<1>9. \A d \in Buffers \ {b} : H!Extent(b)' \cap H!Extent(d) = {}
  BY <1>5, <1>7
<1>10. \E p \in Cells : ptr' = [ptr EXCEPT ![b] = p]
  BY <1>2
<1> QED
  BY <1>6, <1>8, <1>9, <1>10, Zenon DEF H!Place, Contents, ContentsOf

\* What a buffer that nothing happens to is in Heap.
LEMMA ContentsKept ==
  ASSUME HeapInv, Idle, ptr' = ptr, asked' = asked,
         \A d \in Buffers : ptr[d] # NULL => Unchanged(d)
  PROVE  Contents' = Contents
<1>1. ptr \in [Buffers -> Pointer] /\ asked \in [Buffers -> Nat]
  BY HeldPointers
<1>2. ASSUME NEW d \in Buffers, NEW k \in 1 .. asked[d]
      PROVE  word'[ptr[d] + k - 1] = word[ptr[d] + k - 1]
  <2>1. asked[d] \in Nat /\ ptr[d] \in Pointer
    BY <1>1
  <2>2. ptr[d] # NULL
    BY <1>2, <2>1 DEF Idle
  <2>3. Pointer \subseteq Nat
    BY SpotsArePlaces DEF Pointer
  <2>4. ptr[d] + k - 1 \in CellsOf(ptr, asked, d)
    BY <2>1, <2>3 DEF CellsOf
  <2> QED
    BY <2>2, <2>4 DEF Unchanged
<1>3. Contents' = [d \in Buffers |-> [k \in 1 .. asked[d] |-> word'[ptr[d] + k - 1]]]
  BY DEF Contents, ContentsOf
<1> QED
  BY <1>2, <1>3 DEF Contents, ContentsOf

\* A buffer that is released.
LEMMA FreedContents ==
  ASSUME HeapInv, Idle, NEW b \in Buffers, ptr[b] # NULL,
         ptr' = [ptr EXCEPT ![b] = NULL], asked' = [asked EXCEPT ![b] = 0],
         \A d \in Buffers \ {b} : ptr[d] # NULL => Unchanged(d)
  PROVE  Contents' = [Contents EXCEPT ![b] = <<>>]
<1>1. ptr \in [Buffers -> Pointer] /\ asked \in [Buffers -> Nat]
  BY HeldPointers
<1>2. asked'[b] = 0 /\ \A d \in Buffers \ {b} : ptr'[d] = ptr[d] /\ asked'[d] = asked[d]
  BY <1>1
<1>3. ASSUME NEW d \in Buffers \ {b} PROVE Contents'[d] = Contents[d]
  <2>1. Contents'[d] = [k \in 1 .. asked[d] |-> word'[ptr[d] + k - 1]]
    BY <1>2 DEF Contents, ContentsOf
  <2>2. Contents[d] = [k \in 1 .. asked[d] |-> word[ptr[d] + k - 1]]
    BY DEF Contents, ContentsOf
  <2>3. asked[d] \in Nat /\ ptr[d] \in Pointer
    BY <1>1
  <2>4. ASSUME NEW k \in 1 .. asked[d] PROVE word'[ptr[d] + k - 1] = word[ptr[d] + k - 1]
    <3>1. ptr[d] # NULL
      BY <2>3, <2>4 DEF Idle
    <3>2. Pointer \subseteq Nat
      BY SpotsArePlaces DEF Pointer
    <3>3. ptr[d] + k - 1 \in CellsOf(ptr, asked, d)
      <4>1. ptr[d] \in Nat
        BY <2>3, <3>2
      <4> QED
        BY <2>3, <4>1 DEF CellsOf
    <3>4. Unchanged(d)
      BY <3>1
    <3> QED
      BY <3>3, <3>4 DEF Unchanged
  <2> QED
    BY <2>1, <2>2, <2>4
<1>4. Contents'[b] = <<>>
  BY <1>2 DEF Contents, ContentsOf
<1>5. /\ Contents = [d \in Buffers |-> Contents[d]]
      /\ Contents' = [d \in Buffers |-> Contents'[d]]
  BY DEF Contents, ContentsOf
<1> QED
  BY <1>3, <1>4, <1>5

\* No action leaves a size behind for a buffer that is not allocated.
LEMMA IdleNext ==
  ASSUME HeapInv, Idle, NEW b \in Buffers, NEW n,
         \/ Placed(b, n)
         \/ ptr' = [ptr EXCEPT ![b] = NULL] /\ asked' = [asked EXCEPT ![b] = 0]
         \/ ptr' = ptr /\ asked' = asked
  PROVE  Idle'
<1>1. ptr \in [Buffers -> Pointer] /\ asked \in [Buffers -> Nat]
  BY HeldPointers
<1>2. CASE Placed(b, n)
  <2>1. NULL \notin Cells
    <3>1. First \in Nat
      BY SpotsArePlaces
    <3> QED
      BY <3>1 DEF Cells, NULL, Overhead
  <2>2. /\ ptr'[b] \in Cells /\ ptr' = [ptr EXCEPT ![b] = ptr'[b]]
        /\ asked' = [asked EXCEPT ![b] = n]
    BY <1>2 DEF Placed
  <2>3. ptr'[b] # NULL
    BY <2>1, <2>2
  <2>4. \A d \in Buffers \ {b} : ptr'[d] = ptr[d] /\ asked'[d] = asked[d]
    BY <1>1, <2>2
  <2> QED
    BY <2>3, <2>4 DEF Idle
<1>3. CASE ptr' = [ptr EXCEPT ![b] = NULL] /\ asked' = [asked EXCEPT ![b] = 0]
  BY <1>1, <1>3 DEF Idle
<1>4. CASE ptr' = ptr /\ asked' = asked
  BY <1>4 DEF Idle
<1> QED
  BY <1>2, <1>3, <1>4

\* A step of the allocator and its client is one of Heap, or of neither of
\* Heap's variables.
LEMMA HStep ==
  ASSUME Inv, Inv', Idle, Next
  PROVE  Idle' /\ (H!Next \/ UNCHANGED H!vars)
<1>1. HeapInv /\ HeapInv'
  BY DEF Inv
<1>2. Contents' = Contents /\ ptr' = ptr => UNCHANGED H!vars
  BY Zenon DEF H!vars, Contents, ContentsOf
<1>3. ASSUME NEW b \in Buffers, Free(b) PROVE Idle' /\ H!Next
  <2>1. /\ ptr[b] # NULL /\ ptr' = [ptr EXCEPT ![b] = NULL]
        /\ asked' = [asked EXCEPT ![b] = 0]
        /\ \A d \in Buffers \ {b} : ptr[d] # NULL => Unchanged(d)
    BY <1>1, <1>3, FreeReleases
  <2>2. Contents' = [Contents EXCEPT ![b] = <<>>]
    BY <1>1, <2>1, FreedContents
  <2>3. H!Free(b)
    BY <2>1, <2>2, Zenon DEF H!Free, Contents, ContentsOf, NULL, H!NULL
  <2>4. Idle'
    BY <1>1, <2>1, IdleNext
  <2> QED
    BY <2>3, <2>4, Zenon DEF H!Next
<1>4. ASSUME NEW b \in Buffers, NEW n \in Requests, Malloc(b, n)
      PROVE  Idle' /\ (H!Next \/ UNCHANGED H!vars)
  <2>1. n \in Nat /\ ptr[b] = NULL
    BY <1>4, RequestRange, Zenon DEF Malloc
  <2>2. CASE ptr'[b] = NULL
    <3>1. /\ ptr' = ptr /\ asked' = asked
          /\ \A d \in Buffers : ptr[d] # NULL => Unchanged(d)
      BY <1>1, <1>4, <2>2, MallocRefused
    <3>2. Contents' = Contents
      BY <1>1, <3>1, ContentsKept
    <3>3. Idle'
      BY <1>1, <3>1, IdleNext
    <3> QED
      BY <1>2, <3>1, <3>2, <3>3
  <2>3. CASE ptr'[b] # NULL
    <3>1. Placed(b, n)
      BY <1>1, <1>4, <2>3, MallocPlaces
    <3>2. H!Place(b, Contents[b], n)
      BY <1>1, <2>1, <3>1, PlaceStep
    <3>3. Contents[b] = <<>>
      <4>1. asked[b] = 0
        BY <2>1 DEF Idle
      <4> QED
        BY <4>1 DEF Contents, ContentsOf
    <3>4. H!Malloc(b, n)
      <4>1. H!Filled(b, Contents[b], n) = H!Filled(b, <<>>, n)
        BY <3>3, Zenon
      <4>2. H!Place(b, <<>>, n)
        BY <3>2, <4>1, Zenon DEF H!Place
      <4> QED
        BY <2>1, <4>2, Zenon DEF H!Malloc, NULL, H!NULL
    <3>5. Idle'
      BY <1>1, <3>1, IdleNext
    <3> QED
      BY <3>4, <3>5, Zenon DEF H!Next
  <2> QED
    BY <2>2, <2>3
<1>5. ASSUME NEW b \in Buffers, NEW n \in Requests, ptr[b] # NULL, Placed(b, n)
      PROVE  Idle' /\ H!Next
  <2>1. n \in Nat
    BY RequestRange
  <2>2. H!Place(b, Contents[b], n)
    BY <1>1, <1>5, <2>1, PlaceStep
  <2>3. H!Realloc(b, n)
    BY <1>5, <2>2, Zenon DEF H!Realloc, Contents, ContentsOf, NULL, H!NULL
  <2>4. Idle'
    BY <1>1, <1>5, IdleNext
  <2> QED
    BY <2>3, <2>4, Zenon DEF H!Next
<1>6. ASSUME NEW b \in Buffers, NEW n \in Requests, ReallocInPlace(b, n)
      PROVE  Idle' /\ H!Next
  BY <1>1, <1>5, <1>6, ReallocInPlacePlaces
<1>7. ASSUME NEW b \in Buffers, NEW n \in Requests, ReallocMove(b, n)
      PROVE  Idle' /\ (H!Next \/ UNCHANGED H!vars)
  <2>1. ptr[b] # NULL /\ (UNCHANGED vars \/ \E u, q : MovesTo(b, n, u, q))
    BY <1>1, <1>7, MoveSteps
  <2>2. CASE UNCHANGED vars
    <3>1. ptr' = ptr /\ asked' = asked /\ word' = word
      BY <2>2 DEF vars
    <3>2. Contents' = Contents
      BY <3>1 DEF Contents, ContentsOf
    <3> QED
      BY <1>2, <3>1, <3>2 DEF Idle
  <2>3. CASE \E u, q : MovesTo(b, n, u, q)
    <3>1. Placed(b, n)
      BY <1>1, <2>1, <2>3, ReallocMovePlaces
    <3> QED
      BY <1>5, <2>1, <3>1
  <2> QED
    BY <2>1, <2>2, <2>3
<1> QED
  BY <1>3, <1>4, <1>6, <1>7, Zenon DEF Next

\* Every behaviour of the allocator and its client is one of Heap: a buffer
\* keeps its place and its contents until its owner releases or resizes it,
\* resizing keeps what still fits, wherever the block moves to, and no two
\* buffers share a cell.  A request that cannot be served has no effect.
THEOREM HeapRefined == Spec => HeapSpec
<1>1. Init => Idle
  BY DEF Init, Idle
<1>2. Inv /\ Inv' /\ Idle /\ [Next]_vars => Idle' /\ [H!Next]_(H!vars)
  <2> SUFFICES ASSUME Inv, Inv', Idle, [Next]_vars
               PROVE  Idle' /\ (H!Next \/ UNCHANGED H!vars)
    OBVIOUS
  <2>1. CASE Next
    BY <2>1, HStep
  <2>2. CASE UNCHANGED vars
    <3>1. ptr' = ptr /\ asked' = asked /\ word' = word
      BY <2>2 DEF vars
    <3> QED
      BY <3>1, Zenon DEF Idle, H!vars
  <2> QED
    BY <2>1, <2>2
<1> QED
  BY HInit, HeapKept, <1>1, <1>2, PTL DEF Spec, HeapSpec, H!Spec
=============================================================================
