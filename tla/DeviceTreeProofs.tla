-------------------------- MODULE DeviceTreeProofs --------------------------
(***************************************************************************)
(* What DT__FlattenDeviceTree measures by the counters is what             *)
(* FlattenNodes writes by walking the links, for every tree a client or    *)
(* the loader can build, however it is nested and whatever the heap        *)
(* refused on the way.  What the kernel then reads there, by the counts    *)
(* and lengths that it finds, is the tree; and in the loader's it finds    *)
(* the ramdisk that was copied.                                            *)
(***************************************************************************)
EXTENDS Stage2, Induction, SequenceTheorems

-----------------------------------------------------------------------------
(* Sums.                                                                   *)

\* g has the sums of the first terms of f.
Sums(f, g) ==
    g = [k \in 0 .. Len(f) |-> IF k = 0 THEN 0 ELSE g[k - 1] + f[k]]

LEMMA SumsExist ==
  ASSUME NEW f \in Seq(Nat)
  PROVE  \E g : Sums(f, g)
<1> DEFINE F == [k \in 1 .. Len(f) |-> [x \in Nat |-> x + f[k]]]
<1>1. Len(f) \in Nat /\ \A k \in 1 .. Len(f) : f[k] \in Nat
  OBVIOUS
<1>2. F \in [1 .. Len(f) -> [Nat -> Nat]]
  BY <1>1
<1> HIDE DEF F
<1>3. PICK g \in [0 .. Len(f) -> Nat] : Follows(g, 0, F, Len(f))
  BY <1>1, <1>2, Recursion
<1>4. ASSUME NEW k \in 0 .. Len(f)
      PROVE  g[k] = IF k = 0 THEN 0 ELSE g[k - 1] + f[k]
  <2>1. CASE k = 0
    BY <1>3, <2>1 DEF Follows
  <2>2. CASE k # 0
    <3>1. k \in 1 .. Len(f) /\ k - 1 \in 0 .. Len(f)
      BY <1>1, <2>2
    <3>2. g[k] = F[k][g[k - 1]] /\ g[k - 1] \in Nat
      BY <1>3, <3>1 DEF Follows
    <3> QED
      BY <2>2, <3>1, <3>2 DEF F
  <2> QED
    BY <2>1, <2>2
<1>5. g = [k \in 0 .. Len(f) |-> IF k = 0 THEN 0 ELSE g[k - 1] + f[k]]
  BY <1>4
<1> QED
  BY <1>5 DEF Sums

\* The sum and those of the first terms.
Partial(f, g) ==
    /\ g \in [0 .. Len(f) -> Nat]
    /\ g[0] = 0
    /\ \A k \in 1 .. Len(f) : g[k] = g[k - 1] + f[k]

LEMMA SumIs ==
  ASSUME NEW f \in Seq(Nat)
  PROVE  \E g : Partial(f, g) /\ SumOver(f) = g[Len(f)]
<1> DEFINE b == CHOOSE g : Sums(f, g)
<1>1. Sums(f, b)
  BY SumsExist
<1>2. SumOver(f) = b[Len(f)]
  BY DEF SumOver, Sums
<1> HIDE DEF b
<1>3. Len(f) \in Nat /\ \A k \in 1 .. Len(f) : f[k] \in Nat
  OBVIOUS
<1>4. /\ \A k \in 0 .. Len(f) :
            b[k] = IF k = 0 THEN 0 ELSE b[k - 1] + f[k]
      /\ b = [k \in 0 .. Len(f) |-> b[k]]
  BY <1>1 DEF Sums
<1> DEFINE S == {k \in 0 .. Len(f) : b[k] \in Nat}
<1>5. 0 \in S
  BY <1>3, <1>4
<1>6. ASSUME NEW k \in 0 .. (Len(f) - 1), k \in S PROVE k + 1 \in S
  <2>1. k + 1 \in 0 .. Len(f) /\ k + 1 # 0 /\ (k + 1) - 1 = k
        /\ k + 1 \in 1 .. Len(f)
    BY <1>3
  <2>2. b[k + 1] = b[k] + f[k + 1]
    BY <1>4, <2>1
  <2> QED
    BY <1>3, <1>6, <2>1, <2>2
<1>7. \A k \in 0 .. Len(f) : k \in S
  <2> HIDE DEF S
  <2> QED
    BY <1>3, <1>5, <1>6, BoundedInduction
<1>8. Partial(f, b)
  <2>1. b \in [0 .. Len(f) -> Nat]
    BY <1>4, <1>7
  <2>2. b[0] = 0 /\ \A k \in 1 .. Len(f) : b[k] = b[k - 1] + f[k]
    BY <1>3, <1>4
  <2> QED
    BY <2>1, <2>2 DEF Partial
<1> QED
  BY <1>2, <1>8

LEMMA PartialStep ==
  ASSUME NEW f \in Seq(Nat), NEW g, Partial(f, g), NEW k \in 0 .. (Len(f) - 1)
  PROVE  /\ g[k + 1] = g[k] + f[k + 1]
         /\ g[k] \in Nat /\ f[k + 1] \in Nat
<1>1. Len(f) \in Nat
  BY LenProperties
<1>2. k + 1 \in 1 .. Len(f) /\ k \in 0 .. Len(f) /\ (k + 1) - 1 = k
  BY <1>1
<1>3. f[k + 1] \in Nat
  BY <1>2, ElementOfSeq
<1>4. g[k + 1] = g[(k + 1) - 1] + f[k + 1]
  BY <1>2 DEF Partial
<1>5. g[k] \in Nat
  BY <1>2 DEF Partial
<1> QED
  BY <1>2, <1>3, <1>4, <1>5

LEMMA SumType ==
  ASSUME NEW f \in Seq(Nat)
  PROVE  SumOver(f) \in Nat
<1>1. PICK g : Partial(f, g) /\ SumOver(f) = g[Len(f)]
  BY SumIs
<1>2. Len(f) \in 0 .. Len(f)
  OBVIOUS
<1> QED
  BY <1>1, <1>2 DEF Partial

LEMMA SumOfNone == SumOver(<<>>) = 0
<1>1. <<>> \in Seq(Nat) /\ Len(<<>>) = 0
  BY EmptySeq
<1> QED
  BY <1>1, SumIs DEF Partial

\* One more term.
LEMMA SumOfAppend ==
  ASSUME NEW f \in Seq(Nat), NEW h \in Seq(Nat), Len(h) = Len(f) + 1,
         \A k \in 1 .. Len(f) : h[k] = f[k]
  PROVE  SumOver(h) = SumOver(f) + h[Len(h)]
<1>1. PICK g : Partial(f, g) /\ SumOver(f) = g[Len(f)]
  BY SumIs
<1>2. PICK e : Partial(h, e) /\ SumOver(h) = e[Len(h)]
  BY SumIs
<1> DEFINE S == {k \in 0 .. Len(f) : e[k] = g[k]}
<1>3. Len(f) \in Nat
  OBVIOUS
<1>4. 0 \in S
  BY <1>1, <1>2 DEF Partial
<1>5. ASSUME NEW k \in 0 .. (Len(f) - 1), k \in S PROVE k + 1 \in S
  <2>1. /\ k + 1 \in 1 .. Len(f) /\ k + 1 \in 1 .. Len(h) /\ (k + 1) - 1 = k
        /\ k + 1 \in 0 .. Len(f)
    BY <1>3
  <2> QED
    BY <1>1, <1>2, <1>5, <2>1 DEF Partial
<1>6. \A k \in 0 .. Len(f) : k \in S
  <2> HIDE DEF S
  <2> QED
    BY <1>3, <1>4, <1>5, BoundedInduction
<1>7. e[Len(f)] = g[Len(f)]
  BY <1>3, <1>6
<1>8. Len(h) \in 1 .. Len(h) /\ Len(h) - 1 = Len(f)
  BY <1>3
<1> QED
  BY <1>1, <1>2, <1>7, <1>8 DEF Partial

\* One term changed.
LEMMA SumOfExcept ==
  ASSUME NEW f \in Seq(Nat), NEW h \in Seq(Nat), Len(h) = Len(f),
         NEW i \in 1 .. Len(f),
         \A k \in 1 .. Len(f) : k # i => h[k] = f[k]
  PROVE  SumOver(h) + f[i] = SumOver(f) + h[i]
<1>1. PICK g : Partial(f, g) /\ SumOver(f) = g[Len(f)]
  BY SumIs
<1>2. PICK e : Partial(h, e) /\ SumOver(h) = e[Len(h)]
  BY SumIs
<1> DEFINE S == {k \in 0 .. Len(f) :
                    IF k < i THEN e[k] = g[k] ELSE e[k] + f[i] = g[k] + h[i]}
<1>3. Len(f) \in Nat /\ f[i] \in Nat /\ h[i] \in Nat
  OBVIOUS
<1>4. 0 \in S
  BY <1>1, <1>2, <1>3 DEF Partial
<1>5. ASSUME NEW k \in 0 .. (Len(f) - 1), k \in S PROVE k + 1 \in S
  <2>1. /\ k + 1 \in 1 .. Len(f) /\ k + 1 \in 1 .. Len(h) /\ (k + 1) - 1 = k
        /\ k + 1 \in 0 .. Len(f) /\ k \in 0 .. Len(f) /\ k \in 0 .. Len(h)
    BY <1>3
  <2>2. /\ e[k + 1] = e[k] + h[k + 1] /\ g[k + 1] = g[k] + f[k + 1]
        /\ e[k] \in Nat /\ g[k] \in Nat /\ h[k + 1] \in Nat /\ f[k + 1] \in Nat
    BY <1>1, <1>2, <2>1, PartialStep
  <2>3. IF k < i THEN e[k] = g[k] ELSE e[k] + f[i] = g[k] + h[i]
    BY <1>5
  <2>4. CASE k + 1 < i
    <3>1. h[k + 1] = f[k + 1] /\ k < i
      BY <2>1, <2>4
    <3> QED
      BY <2>1, <2>2, <2>3, <2>4, <3>1
  <2>5. CASE k + 1 = i
    <3>1. k < i /\ ~(k + 1 < i)
      BY <1>3, <2>1, <2>5
    <3>2. e[k] = g[k]
      BY <2>3, <3>1
    <3>3. e[k + 1] = g[k] + h[i] /\ g[k + 1] = g[k] + f[i]
      BY <2>2, <2>5, <3>2
    <3>4. (g[k] + h[i]) + f[i] = (g[k] + f[i]) + h[i]
      <4> DEFINE b == g[k]
                 c == f[i]
                 d == h[i]
      <4>1. b \in Nat /\ c \in Nat /\ d \in Nat
        BY <1>3, <2>2
      <4> HIDE DEF b, c, d
      <4>2. (b + d) + c = (b + c) + d
        BY <4>1
      <4> QED
        BY <4>2 DEF b, c, d
    <3>5. e[k + 1] + f[i] = g[k + 1] + h[i]
      BY <3>3, <3>4, Zenon
    <3> QED
      BY <2>1, <3>1, <3>5
  <2>6. CASE k + 1 > i
    <3>1. h[k + 1] = f[k + 1] /\ ~(k < i) /\ ~(k + 1 < i)
      BY <2>1, <2>6
    <3>2. e[k] + f[i] = g[k] + h[i]
      BY <2>3, <3>1
    <3>3. (e[k] + f[k + 1]) + f[i] = (g[k] + f[k + 1]) + h[i]
      <4> DEFINE a == e[k]
                 b == g[k]
                 x == f[k + 1]
                 c == f[i]
                 d == h[i]
      <4>1. a \in Nat /\ b \in Nat /\ x \in Nat /\ c \in Nat /\ d \in Nat
        BY <1>3, <2>2
      <4>2. a + c = b + d
        BY <3>2
      <4> HIDE DEF a, b, c, d, x
      <4>3. (a + x) + c = (b + x) + d
        BY <4>1, <4>2
      <4> QED
        BY <4>3 DEF a, b, c, d, x
    <3>4. e[k + 1] + f[i] = g[k + 1] + h[i]
      BY <2>2, <3>1, <3>3, Zenon
    <3> QED
      BY <2>1, <3>1, <3>4
  <2> QED
    BY <2>1, <2>4, <2>5, <2>6
<1>6. \A k \in 0 .. Len(f) : k \in S
  <2> HIDE DEF S
  <2> QED
    BY <1>3, <1>4, <1>5, BoundedInduction
<1>7. Len(f) \in S /\ ~(Len(f) < i)
  BY <1>3, <1>6
<1> QED
  BY <1>1, <1>2, <1>7

\* Terms that are no greater.
LEMMA SumMonotonic ==
  ASSUME NEW f \in Seq(Nat), NEW h \in Seq(Nat), Len(h) = Len(f),
         \A k \in 1 .. Len(f) : h[k] <= f[k]
  PROVE  SumOver(h) <= SumOver(f)
<1>1. PICK g : Partial(f, g) /\ SumOver(f) = g[Len(f)]
  BY SumIs
<1>2. PICK e : Partial(h, e) /\ SumOver(h) = e[Len(h)]
  BY SumIs
<1> DEFINE S == {k \in 0 .. Len(f) : e[k] <= g[k]}
<1>3. Len(f) \in Nat
  OBVIOUS
<1>4. 0 \in S
  BY <1>1, <1>2 DEF Partial
<1>5. ASSUME NEW k \in 0 .. (Len(f) - 1), k \in S PROVE k + 1 \in S
  <2>1. /\ k + 1 \in 1 .. Len(f) /\ k + 1 \in 1 .. Len(h) /\ (k + 1) - 1 = k
        /\ k + 1 \in 0 .. Len(f) /\ k \in 0 .. Len(f) /\ k \in 0 .. Len(h)
    BY <1>3
  <2>2. /\ e[k + 1] = e[k] + h[k + 1] /\ g[k + 1] = g[k] + f[k + 1]
        /\ e[k] \in Nat /\ g[k] \in Nat /\ h[k + 1] \in Nat /\ f[k + 1] \in Nat
    BY <1>1, <1>2, <2>1, PartialStep
  <2>3. e[k] <= g[k] /\ h[k + 1] <= f[k + 1]
    BY <1>5, <2>1
  <2> QED
    BY <2>1, <2>2, <2>3
<1>6. \A k \in 0 .. Len(f) : k \in S
  <2> HIDE DEF S
  <2> QED
    BY <1>3, <1>4, <1>5, BoundedInduction
<1>7. Len(f) \in S
  BY <1>3, <1>6
<1> QED
  BY <1>1, <1>2, <1>7

\* k terms of a, b times the sum u, and the sum v; and one more of each.
Total(a, b, k, u, v) == a * k + b * u + v
Term(a, b, x, y) == a + b * x + y

Linear(h, a, b, f, g) == \A k \in 1 .. Len(f) : h[k] = Term(a, b, f[k], g[k])

\* Terms each with a constant and a multiple of another sum's.
LEMMA SumOfLinear ==
  ASSUME NEW f \in Seq(Nat), NEW g \in Seq(Nat), NEW h \in Seq(Nat),
         Len(g) = Len(f), Len(h) = Len(f), NEW a \in Nat, NEW b \in Nat,
         Linear(h, a, b, f, g)
  PROVE  SumOver(h) = Total(a, b, Len(f), SumOver(f), SumOver(g))
<1>1. PICK u : Partial(f, u) /\ SumOver(f) = u[Len(f)]
  BY SumIs
<1>2. PICK v : Partial(g, v) /\ SumOver(g) = v[Len(g)]
  BY SumIs
<1>3. PICK w : Partial(h, w) /\ SumOver(h) = w[Len(h)]
  BY SumIs
<1> DEFINE S == {k \in 0 .. Len(f) : w[k] = Total(a, b, k, u[k], v[k])}
<1>4. Len(f) \in Nat
  OBVIOUS
<1>5. 0 \in S
  <2>1. u[0] = 0 /\ v[0] = 0 /\ w[0] = 0
    BY <1>1, <1>2, <1>3 DEF Partial
  <2>2. a * 0 = 0 /\ b * 0 = 0
    OBVIOUS
  <2>3. Total(a, b, 0, 0, 0) = 0
    BY <2>2 DEF Total
  <2> QED
    BY <1>4, <2>1, <2>3
<1>6. ASSUME NEW k \in 0 .. (Len(f) - 1), k \in S PROVE k + 1 \in S
  <2> HIDE DEF S
  <2>1. k + 1 \in 1 .. Len(f) /\ k + 1 \in 0 .. Len(f) /\ k \in Nat
    BY <1>4
  <2>2. u[k + 1] = u[k] + f[k + 1] /\ u[k] \in Nat /\ f[k + 1] \in Nat
    BY <1>1, PartialStep
  <2>3. v[k + 1] = v[k] + g[k + 1] /\ v[k] \in Nat /\ g[k + 1] \in Nat
    BY <1>2, PartialStep
  <2>4. w[k + 1] = w[k] + h[k + 1]
    BY <1>3, PartialStep
  <2>5. w[k] = Total(a, b, k, u[k], v[k])
    BY <1>6 DEF S
  <2>6. h[k + 1] = Term(a, b, f[k + 1], g[k + 1])
    BY <2>1 DEF Linear
  <2>7. w[k + 1] = Total(a, b, k + 1, u[k] + f[k + 1], v[k] + g[k + 1])
    <3>1. Total(a, b, k, u[k], v[k]) + Term(a, b, f[k + 1], g[k + 1])
            = Total(a, b, k + 1, u[k] + f[k + 1], v[k] + g[k + 1])
      <4> DEFINE U == u[k]
                 X == f[k + 1]
                 V == v[k]
                 Y == g[k + 1]
      <4>1. U \in Nat /\ X \in Nat /\ V \in Nat /\ Y \in Nat /\ k \in Nat
        BY <2>1, <2>2, <2>3
      <4> HIDE DEF U, X, V, Y
      <4>2. Total(a, b, k, U, V) + Term(a, b, X, Y)
              = Total(a, b, k + 1, U + X, V + Y)
        BY <4>1 DEF Total, Term
      <4> QED
        BY <4>2 DEF U, X, V, Y
    <3> QED
      BY <2>4, <2>5, <2>6, <3>1, Zenon
  <2> QED
    BY <2>1, <2>2, <2>3, <2>7 DEF S
<1>7. \A k \in 0 .. Len(f) : k \in S
  <2> HIDE DEF S
  <2> QED
    BY <1>4, <1>5, <1>6, BoundedInduction
<1>8. w[Len(f)] = Total(a, b, Len(f), u[Len(f)], v[Len(f)])
  <2>1. Len(f) \in 0 .. Len(f)
    BY <1>4
  <2>2. Len(f) \in S
    BY <1>7, <2>1
  <2> QED
    BY <2>2
<1> QED
  BY <1>1, <1>2, <1>3, <1>8, Zenon

LEMMA SumOfZeros ==
  ASSUME NEW f \in Seq(Nat), \A k \in 1 .. Len(f) : f[k] = 0
  PROVE  SumOver(f) = 0
<1>1. PICK g : Partial(f, g) /\ SumOver(f) = g[Len(f)]
  BY SumIs
<1> DEFINE S == {k \in 0 .. Len(f) : g[k] = 0}
<1>2. Len(f) \in Nat
  OBVIOUS
<1>3. 0 \in S
  BY <1>1, <1>2 DEF Partial
<1>4. ASSUME NEW k \in 0 .. (Len(f) - 1), k \in S PROVE k + 1 \in S
  <2>1. k + 1 \in 1 .. Len(f) /\ k + 1 \in 0 .. Len(f)
    BY <1>2
  <2>2. g[k + 1] = g[k] + f[k + 1]
    BY <1>1, PartialStep
  <2>3. g[k] = 0 /\ f[k + 1] = 0
    BY <1>4, <2>1
  <2> QED
    BY <2>1, <2>2, <2>3
<1>5. \A k \in 0 .. Len(f) : k \in S
  <2> HIDE DEF S
  <2> QED
    BY <1>2, <1>3, <1>4, BoundedInduction
<1>6. Len(f) \in S
  BY <1>2, <1>5
<1> QED
  BY <1>1, <1>6

\* The sum of the terms whose places are in S.
Masked(f, S) == [i \in 1 .. Len(f) |-> IF i \in S THEN f[i] ELSE 0]
Part(f, S)   == SumOver(Masked(f, S))

LEMMA MaskedType ==
  ASSUME NEW f \in Seq(Nat), NEW S
  PROVE  /\ Masked(f, S) \in Seq(Nat) /\ Len(Masked(f, S)) = Len(f)
         /\ \A i \in 1 .. Len(f) :
               Masked(f, S)[i] = IF i \in S THEN f[i] ELSE 0
<1>1. Len(f) \in Nat /\ \A i \in 1 .. Len(f) : f[i] \in Nat
  BY LenProperties, ElementOfSeq
<1>2. Masked(f, S) \in [1 .. Len(f) -> Nat]
  BY <1>1 DEF Masked
<1> QED
  BY <1>1, <1>2 DEF Masked

LEMMA PartType ==
  ASSUME NEW f \in Seq(Nat), NEW S
  PROVE  Part(f, S) \in Nat /\ Part(f, S) <= SumOver(f)
<1>1. \A i \in 1 .. Len(f) : Masked(f, S)[i] <= f[i]
  <2>1. \A i \in 1 .. Len(f) : f[i] \in Nat
    BY ElementOfSeq
  <2> QED
    BY <2>1, MaskedType
<1> QED
  BY <1>1, MaskedType, SumMonotonic, SumType DEF Part

LEMMA PartOfNone ==
  ASSUME NEW f \in Seq(Nat)
  PROVE  Part(f, {}) = 0
  BY MaskedType, SumOfZeros DEF Part

LEMMA PartOfAll ==
  ASSUME NEW f \in Seq(Nat), NEW S, 1 .. Len(f) \subseteq S
  PROVE  Part(f, S) = SumOver(f)
<1>1. \A i \in 1 .. Len(f) : Masked(f, S)[i] = f[i]
  BY MaskedType
<1>2. Masked(f, S) = f
  BY <1>1, MaskedType, SeqEqual
<1> QED
  BY <1>2 DEF Part

LEMMA PartOfMore ==
  ASSUME NEW f \in Seq(Nat), NEW S, NEW i \in 1 .. Len(f), i \notin S
  PROVE  Part(f, S \cup {i}) = Part(f, S) + f[i]
<1> DEFINE g == Masked(f, S)
           h == Masked(f, S \cup {i})
<1>a. /\ g \in Seq(Nat) /\ Len(g) = Len(f)
      /\ \A k \in 1 .. Len(f) : g[k] = IF k \in S THEN f[k] ELSE 0
  BY MaskedType
<1>b. /\ h \in Seq(Nat) /\ Len(h) = Len(f)
      /\ \A k \in 1 .. Len(f) : h[k] = IF k \in S \cup {i} THEN f[k] ELSE 0
  BY MaskedType
<1>1. /\ g \in Seq(Nat) /\ h \in Seq(Nat) /\ Len(g) = Len(f) /\ Len(h) = Len(g)
      /\ g[i] = 0 /\ h[i] = f[i] /\ f[i] \in Nat
      /\ \A k \in 1 .. Len(g) : k # i => h[k] = g[k]
  <2> HIDE DEF g, h
  <2>1. f[i] \in Nat
    BY ElementOfSeq
  <2>2. g[i] = 0 /\ h[i] = f[i]
    BY <1>a, <1>b
  <2>3. \A k \in 1 .. Len(g) : k # i => h[k] = g[k]
    BY <1>a, <1>b
  <2> QED
    BY <1>a, <1>b, <2>1, <2>2, <2>3
<1>2. SumOver(g) \in Nat /\ SumOver(h) \in Nat
  BY <1>1, SumType
<1> HIDE DEF g, h
<1>3. SumOver(h) + g[i] = SumOver(g) + h[i]
  BY <1>1, SumOfExcept
<1>4. SumOver(h) = SumOver(g) + f[i]
  BY <1>1, <1>2, <1>3
<1> QED
  BY <1>4 DEF Part, g, h

-----------------------------------------------------------------------------
(* A tree as it is built.  How its nodes are linked and that its counters  *)
(* are right is kept by all that device_tree.c does to it.                 *)

Kids(d, p) == d.nodes[p].children

\* Every node but the root stands in one place, below a node made before it.
Linked(d) ==
    /\ d.rootNode = 1 /\ 1 \in DOMAIN d.nodes
    /\ \A p \in DOMAIN d.nodes : \A k \in DOMAIN Kids(d, p) :
          Kids(d, p)[k] \in (p + 1) .. Len(d.nodes)
    /\ \A p, q \in DOMAIN d.nodes :
          \A k \in DOMAIN Kids(d, p), j \in DOMAIN Kids(d, q) :
             Kids(d, p)[k] = Kids(d, q)[j] => p = q /\ k = j
    /\ \A i \in DOMAIN d.nodes : i # 1 =>
          \E p \in DOMAIN d.nodes : \E k \in DOMAIN Kids(d, p) :
             Kids(d, p)[k] = i

\* The words of a node's values, and the summands of the counters.
Values(n) ==
    [k \in DOMAIN n.properties |-> RoundToLong(n.properties[k].length)]

Lens(d)      == [i \in DOMAIN d.nodes |-> Len(d.nodes[i].properties)]
AllValues(d) == [i \in DOMAIN d.nodes |-> SumOver(Values(d.nodes[i]))]

SumsHold(d) ==
    /\ d.numNodes = Len(d.nodes)
    /\ d.numProperties = SumOver(Lens(d))
    /\ d.totalPropertySize = SumOver(AllValues(d))

Kept(d) == d \in Trees /\ Linked(d) /\ SumsHold(d)

LEMMA NodeType ==
  ASSUME NEW d \in Trees, NEW i \in DOMAIN d.nodes
  PROVE  /\ Len(d.nodes) \in Nat /\ DOMAIN d.nodes = 1 .. Len(d.nodes)
         /\ d.nodes[i] \in Node
         /\ d.nodes[i].properties \in Seq(Property)
         /\ d.nodes[i].children \in Seq(Nat)
<1>1. d.nodes \in Seq(Node)
  BY DEF Trees
<1>2. Len(d.nodes) \in Nat /\ DOMAIN d.nodes = 1 .. Len(d.nodes)
  BY <1>1, LenProperties
<1>3. d.nodes[i] \in Node
  BY <1>1, <1>2, ElementOfSeq
<1> QED
  BY <1>2, <1>3 DEF Node

LEMMA RoundType == \A n \in Nat : RoundToLong(n) \in Nat
  BY DEF RoundToLong

LEMMA ValuesType ==
  ASSUME NEW n \in Node
  PROVE  /\ Values(n) \in Seq(Nat) /\ Len(Values(n)) = Len(n.properties)
         /\ \A k \in 1 .. Len(n.properties) :
               Values(n)[k] = RoundToLong(n.properties[k].length)
         /\ SumOver(Values(n)) \in Nat /\ Len(n.properties) \in Nat
<1>1. n.properties \in Seq(Property)
  BY DEF Node
<1>2. /\ Len(n.properties) \in Nat
      /\ DOMAIN n.properties = 1 .. Len(n.properties)
      /\ \A k \in 1 .. Len(n.properties) : n.properties[k] \in Property
  BY <1>1, LenProperties, ElementOfSeq
<1>3. \A k \in 1 .. Len(n.properties) :
         RoundToLong(n.properties[k].length) \in Nat
  BY <1>2, RoundType DEF Property
<1>4. Values(n) \in [1 .. Len(n.properties) -> Nat]
  BY <1>2, <1>3 DEF Values
<1>5. Values(n) \in Seq(Nat) /\ Len(Values(n)) = Len(n.properties)
  BY <1>2, <1>4
<1> QED
  BY <1>2, <1>5, SumType DEF Values

LEMMA SummandsType ==
  ASSUME NEW d \in Trees
  PROVE  /\ Lens(d) \in Seq(Nat) /\ Len(Lens(d)) = Len(d.nodes)
         /\ AllValues(d) \in Seq(Nat) /\ Len(AllValues(d)) = Len(d.nodes)
         /\ \A i \in 1 .. Len(d.nodes) :
               /\ Lens(d)[i] = Len(d.nodes[i].properties)
               /\ AllValues(d)[i] = SumOver(Values(d.nodes[i]))
<1>1. Len(d.nodes) \in Nat /\ DOMAIN d.nodes = 1 .. Len(d.nodes)
  BY LenProperties DEF Trees
<1>2. \A i \in 1 .. Len(d.nodes) :
         /\ Len(d.nodes[i].properties) \in Nat
         /\ SumOver(Values(d.nodes[i])) \in Nat
  BY <1>1, NodeType, ValuesType
<1>3. /\ Lens(d) \in [1 .. Len(d.nodes) -> Nat]
      /\ AllValues(d) \in [1 .. Len(d.nodes) -> Nat]
  BY <1>1, <1>2 DEF Lens, AllValues
<1> QED
  BY <1>1, <1>3 DEF Lens, AllValues

\* What TotalSize and Frame count of the heap's room changes nothing.
LEMMA RoomKept ==
  ASSUME NEW d, Kept(d), NEW r \in Nat
  PROVE  Kept([d EXCEPT !.room = r])
<1> DEFINE e == [d EXCEPT !.room = r]
<1>1. /\ e \in Trees /\ e.nodes = d.nodes /\ e.rootNode = d.rootNode
      /\ e.numNodes = d.numNodes /\ e.numProperties = d.numProperties
      /\ e.totalPropertySize = d.totalPropertySize
  BY DEF Kept, Trees
<1> HIDE DEF e
<1>2. Linked(e)
  BY <1>1 DEF Kept, Linked, Kids
<1>3. SumsHold(e)
  BY <1>1 DEF Kept, SumsHold, Lens, AllValues
<1> QED
  BY <1>1, <1>2, <1>3 DEF Kept, e

LEMMA PropertyKept ==
  ASSUME NEW d, Kept(d), NEW node \in DOMAIN d.nodes, NEW name \in Names,
         NEW n \in Nat, NEW value \in Nat
  PROVE  /\ Kept(WithProperty(d, node, name, n, value))
         /\ Len(WithProperty(d, node, name, n, value).nodes) = Len(d.nodes)
<1> DEFINE e == WithProperty(d, node, name, n, value)
           p == [name |-> name, length |-> n, value |-> value]
<1>1. CASE PropertyRefused(d)
  BY <1>1 DEF WithProperty
<1>2. CASE ~PropertyRefused(d)
  <2>1. /\ d \in Trees /\ d.nodes \in Seq(Node)
        /\ Len(d.nodes) \in Nat /\ DOMAIN d.nodes = 1 .. Len(d.nodes)
        /\ d.nodes[node] \in Node
        /\ d.nodes[node].properties \in Seq(Property)
        /\ d.nodes[node].children \in Seq(Nat)
    BY NodeType DEF Kept, Trees
  <2>2. p \in Property
    BY DEF Property
  <2> DEFINE m == [d.nodes[node] EXCEPT !.properties = Append(@, p)]
  <2>3. m \in Node /\ m.children = d.nodes[node].children
        /\ m.properties = Append(d.nodes[node].properties, p)
    <3>1. Append(d.nodes[node].properties, p) \in Seq(Property)
      BY <2>1, <2>2, AppendProperties
    <3> QED
      BY <2>1, <3>1 DEF Node
  <2>4. e = [d EXCEPT
               !.room = IF d.freeProperties = 0 THEN @ - 1 ELSE @,
               !.freeProperties = Refilled(@) - 1,
               !.nodes[node].properties = Append(@, p),
               !.numProperties = @ + 1,
               !.totalPropertySize = @ + RoundToLong(n)]
    BY <1>2 DEF WithProperty
  <2>5. /\ e.nodes = [d.nodes EXCEPT ![node] = m]
        /\ e.rootNode = d.rootNode /\ e.numNodes = d.numNodes
        /\ e.numProperties = d.numProperties + 1
        /\ e.totalPropertySize = d.totalPropertySize + RoundToLong(n)
    BY <2>1, <2>4 DEF Trees
  <2>6. e.nodes \in Seq(Node) /\ Len(e.nodes) = Len(d.nodes)
        /\ \A i \in 1 .. Len(d.nodes) :
              e.nodes[i] = IF i = node THEN m ELSE d.nodes[i]
    <3> HIDE DEF m, e
    <3> QED
      BY <2>1, <2>3, <2>5, ExceptSeq
  <2>7. e \in Trees
    <3>1. /\ (IF d.freeProperties = 0 THEN d.room - 1 ELSE d.room) \in Nat
          /\ Refilled(d.freeProperties) - 1 \in Nat
      BY <1>2, <2>1, PerBufferAssumption DEF PropertyRefused, Refilled, Trees
    <3>2. d.numProperties + 1 \in Nat
          /\ d.totalPropertySize + RoundToLong(n) \in Nat
      <4>1. d.numProperties \in Nat /\ d.totalPropertySize \in Nat
        BY <2>1 DEF Trees
      <4>2. RoundToLong(n) \in Nat
        BY RoundType
      <4> QED
        BY <4>1, <4>2
    <3>3. e = [nodes |-> e.nodes, rootNode |-> d.rootNode,
               freeNodes |-> d.freeNodes,
               freeProperties |-> Refilled(d.freeProperties) - 1,
               room |-> IF d.freeProperties = 0 THEN d.room - 1 ELSE d.room,
               numNodes |-> d.numNodes,
               numProperties |-> d.numProperties + 1,
               totalPropertySize |-> d.totalPropertySize + RoundToLong(n)]
      BY <2>1, <2>4 DEF Trees
    <3>4. /\ d.rootNode \in Nat /\ d.freeNodes \in Nat /\ d.numNodes \in Nat
      BY <2>1 DEF Trees
    <3> HIDE DEF e, p, m
    <3> QED
      BY <2>6, <3>1, <3>2, <3>3, <3>4 DEF Trees
  <2> HIDE DEF e
  <2>8. Linked(e)
    <3>1. Linked(d)
      BY DEF Kept
    <3>2. DOMAIN e.nodes = DOMAIN d.nodes
      BY <2>1, <2>6, LenProperties
    <3>3. \A i \in DOMAIN d.nodes : Kids(e, i) = Kids(d, i)
      BY <2>1, <2>3, <2>6 DEF Kids
    <3> QED
      BY <2>5, <2>6, <3>1, <3>2, <3>3 DEF Linked
  <2>9. SumsHold(e)
    <3>1. SumOver(Lens(e)) = SumOver(Lens(d)) + 1
      <4>1. \A i \in 1 .. Len(d.nodes) :
               Lens(e)[i] = IF i = node THEN Lens(d)[node] + 1 ELSE Lens(d)[i]
        <5>1. Len(m.properties) = Len(d.nodes[node].properties) + 1
          BY <2>1, <2>2, <2>3, AppendProperties
        <5> HIDE DEF m
        <5> QED
          BY <2>1, <2>6, <2>7, <5>1, SummandsType
      <4>2. SumOver(Lens(e)) + Lens(d)[node] = SumOver(Lens(d)) + Lens(e)[node]
        <5> DEFINE f == Lens(d)
                   h == Lens(e)
        <5>1. /\ f \in Seq(Nat) /\ h \in Seq(Nat) /\ Len(h) = Len(f)
              /\ node \in 1 .. Len(f)
              /\ \A k \in 1 .. Len(f) : k # node => h[k] = f[k]
          BY <2>1, <2>6, <2>7, <4>1, SummandsType
        <5> HIDE DEF f, h
        <5>2. SumOver(h) + f[node] = SumOver(f) + h[node]
          BY <5>1, SumOfExcept
        <5> QED
          BY <5>2 DEF f, h
      <4>3. /\ SumOver(Lens(e)) \in Nat /\ SumOver(Lens(d)) \in Nat
            /\ Lens(d)[node] \in Nat /\ Lens(e)[node] = Lens(d)[node] + 1
        <5>1. Lens(d)[node] \in Nat
          BY <2>1, SummandsType, ElementOfSeq
        <5> QED
          BY <2>1, <2>7, <4>1, <5>1, SummandsType, SumType
      <4> QED
        BY <4>2, <4>3
    <3>2. SumOver(AllValues(e)) = SumOver(AllValues(d)) + RoundToLong(n)
      <4>1. SumOver(Values(m)) = SumOver(Values(d.nodes[node])) + RoundToLong(n)
        <5> DEFINE f == Values(d.nodes[node])
                   h == Values(m)
                   L == Len(d.nodes[node].properties)
        <5>1. /\ f \in Seq(Nat) /\ h \in Seq(Nat) /\ Len(f) = L /\ L \in Nat
              /\ Len(h) = L + 1 /\ m.properties[L + 1] = p
              /\ \A k \in 1 .. L : m.properties[k]
                                     = d.nodes[node].properties[k]
          <6> HIDE DEF p, m
          <6>1. /\ Len(m.properties) = L + 1 /\ m.properties[L + 1] = p
                /\ \A k \in 1 .. L : m.properties[k]
                                       = d.nodes[node].properties[k]
            BY <2>1, <2>2, <2>3, AppendProperties
          <6>2. Len(d.nodes[node].properties) \in Nat
            BY <2>1, LenProperties
          <6> QED
            BY <2>1, <2>3, <6>1, <6>2, ValuesType
        <5>0. /\ \A k \in 1 .. (L + 1) : h[k] = RoundToLong(m.properties[k].length)
              /\ \A k \in 1 .. L :
                    f[k] = RoundToLong(d.nodes[node].properties[k].length)
          <6> HIDE DEF p, m
          <6> QED
            BY <2>1, <2>3, <5>1, ValuesType
        <5>2. h[L + 1] = RoundToLong(n)
          <6>1. p.length = n /\ L + 1 \in 1 .. (L + 1)
            BY <5>1
          <6> HIDE DEF p, m, h, f, L
          <6> QED
            BY <5>0, <5>1, <6>1
        <5>3. \A k \in 1 .. Len(f) : h[k] = f[k]
          <6>1. \A k \in 1 .. L : k \in 1 .. (L + 1)
            BY <5>1
          <6> HIDE DEF p, m, h, f, L
          <6> QED
            BY <5>0, <5>1, <6>1
        <5> HIDE DEF f, h, m
        <5>4. SumOver(h) = SumOver(f) + h[Len(h)]
          BY <5>1, <5>3, SumOfAppend
        <5> QED
          BY <5>1, <5>2, <5>4 DEF f, h
      <4> HIDE DEF m
      <4>2. \A i \in 1 .. Len(d.nodes) :
               AllValues(e)[i] = IF i = node THEN SumOver(Values(m))
                                 ELSE AllValues(d)[i]
        <5>1. \A i \in 1 .. Len(d.nodes) :
                 /\ AllValues(e)[i] = SumOver(Values(e.nodes[i]))
                 /\ AllValues(d)[i] = SumOver(Values(d.nodes[i]))
          BY <2>1, <2>6, <2>7, SummandsType
        <5> QED
          BY <2>6, <5>1
      <4>3. SumOver(AllValues(e)) + AllValues(d)[node]
              = SumOver(AllValues(d)) + AllValues(e)[node]
        <5> DEFINE f == AllValues(d)
                   h == AllValues(e)
        <5>1. /\ f \in Seq(Nat) /\ h \in Seq(Nat) /\ Len(h) = Len(f)
              /\ node \in 1 .. Len(f)
              /\ \A k \in 1 .. Len(f) : k # node => h[k] = f[k]
          BY <2>1, <2>6, <2>7, <4>2, SummandsType
        <5> HIDE DEF f, h
        <5>2. SumOver(h) + f[node] = SumOver(f) + h[node]
          BY <5>1, SumOfExcept
        <5> QED
          BY <5>2 DEF f, h
      <4>4. /\ SumOver(AllValues(e)) \in Nat /\ SumOver(AllValues(d)) \in Nat
            /\ AllValues(d)[node] \in Nat /\ RoundToLong(n) \in Nat
            /\ AllValues(e)[node] = AllValues(d)[node] + RoundToLong(n)
        <5>1. AllValues(d)[node] \in Nat
          BY <2>1, SummandsType, ElementOfSeq
        <5>2. AllValues(d)[node] = SumOver(Values(d.nodes[node]))
          BY <2>1, SummandsType
        <5>3. AllValues(e)[node] = SumOver(Values(m))
          BY <2>1, <4>2
        <5> QED
          BY <2>1, <2>7, <4>1, <5>1, <5>2, <5>3, SummandsType, SumType, RoundType
      <4> QED
        BY <4>3, <4>4
    <3> QED
      BY <2>5, <2>6, <3>1, <3>2 DEF Kept, SumsHold
  <2> QED
    BY <2>6, <2>7, <2>8, <2>9 DEF Kept, e
<1> QED
  BY <1>1, <1>2

NewNode == [properties |-> <<>>, children |-> <<>>]

LEMMA NewNodeType ==
  /\ NewNode \in Node /\ SumOver(Values(NewNode)) = 0
  /\ Len(NewNode.properties) = 0 /\ DOMAIN NewNode.children = {}
<1>1. NewNode.properties = <<>> /\ NewNode.children = <<>>
  BY DEF NewNode
<1>2. <<>> \in Seq(Property) /\ <<>> \in Seq(Nat) /\ Len(<<>>) = 0
  BY EmptySeq
<1>3. NewNode \in Node
  BY <1>2 DEF NewNode, Node
<1>4. SumOver(Values(NewNode)) = 0
  BY <1>1, <1>2, <1>3, ValuesType, SumOfZeros
<1>5. DOMAIN NewNode.children = {}
  BY <1>1
<1> QED
  BY <1>1, <1>2, <1>3, <1>4, <1>5

\* The pools, once a node has been taken.
LEMMA NodeTaken ==
  ASSUME NEW d \in Trees, ~NodeRefused(d)
  PROVE  /\ (IF d.freeNodes = 0 THEN d.room - 1 ELSE d.room) \in Nat
         /\ Refilled(d.freeNodes) - 1 \in Nat
         /\ d.numNodes + 1 \in Nat
<1>1. d.freeNodes \in Nat /\ d.room \in Nat /\ d.numNodes \in Nat
  BY DEF Trees
<1> QED
  BY <1>1, PerBufferAssumption DEF NodeRefused, Refilled

\* The parts of the tree with one node more.
LEMMA NodeAdded ==
  ASSUME NEW d \in Trees, NEW parent \in DOMAIN d.nodes, ~NodeRefused(d),
         NEW e, e = WithNode(d, parent)
  PROVE  LET node == Len(d.nodes) + 1 IN
         /\ e \in Trees /\ Len(e.nodes) = node /\ DOMAIN e.nodes = 1 .. node
         /\ e.nodes[node] = NewNode
         /\ \A i \in 1 .. Len(d.nodes) :
               /\ e.nodes[i].properties = d.nodes[i].properties
               /\ i # parent => e.nodes[i] = d.nodes[i]
         /\ e.nodes[parent].children = <<node>> \o d.nodes[parent].children
         /\ e.rootNode = d.rootNode /\ e.numNodes = d.numNodes + 1
         /\ e.numProperties = d.numProperties
         /\ e.totalPropertySize = d.totalPropertySize
<1> DEFINE node == Len(d.nodes) + 1
           a == Append(d.nodes, NewNode)
           m == [d.nodes[parent] EXCEPT !.children = <<node>> \o @]
<1>1. /\ d.nodes \in Seq(Node)
      /\ Len(d.nodes) \in Nat /\ DOMAIN d.nodes = 1 .. Len(d.nodes)
      /\ d.nodes[parent] \in Node
      /\ d.nodes[parent].children \in Seq(Nat)
  BY NodeType DEF Trees
<1>2. parent # NULL /\ parent \in 1 .. Len(d.nodes)
  BY <1>1 DEF NULL
<1>3. /\ a \in Seq(Node) /\ Len(a) = node /\ a[node] = NewNode
      /\ \A i \in 1 .. Len(d.nodes) : a[i] = d.nodes[i]
  <2> HIDE DEF NewNode
  <2> QED
    BY <1>1, NewNodeType, AppendProperties
<1>4. e = [[d EXCEPT
              !.room = IF d.freeNodes = 0 THEN @ - 1 ELSE @,
              !.freeNodes = Refilled(@) - 1,
              !.nodes = a,
              !.numNodes = @ + 1]
             EXCEPT !.nodes[parent].children = <<node>> \o @]
  BY <1>2 DEF WithNode, NewNode
<1>5. m \in Node /\ m.properties = d.nodes[parent].properties
      /\ m.children = <<node>> \o d.nodes[parent].children
  <2>1. <<node>> \in Seq(Nat)
    BY <1>1
  <2>2. <<node>> \o d.nodes[parent].children \in Seq(Nat)
    BY <1>1, <2>1, ConcatProperties
  <2> QED
    BY <1>1, <2>2 DEF Node
<1>6. e.nodes = [a EXCEPT ![parent] = m]
  <2>1. a[parent] = d.nodes[parent]
    BY <1>2, <1>3
  <2> DEFINE t == [d EXCEPT
                     !.room = IF d.freeNodes = 0 THEN @ - 1 ELSE @,
                     !.freeNodes = Refilled(@) - 1,
                     !.nodes = a,
                     !.numNodes = @ + 1]
  <2>2. t.nodes = a /\ "nodes" \in DOMAIN t
    <3> HIDE DEF a
    <3> QED
      BY DEF Trees
  <2>3. e = [t EXCEPT !.nodes[parent].children = <<node>> \o @]
    BY <1>4
  <2> HIDE DEF a, t
  <2>4. e.nodes = [a EXCEPT ![parent].children = <<node>> \o @]
    BY <2>2, <2>3
  <2> QED
    BY <2>1, <2>4
<1>7. /\ e.nodes \in Seq(Node) /\ Len(e.nodes) = node
      /\ DOMAIN e.nodes = 1 .. node
      /\ \A i \in 1 .. node : e.nodes[i] = IF i = parent THEN m ELSE a[i]
  <2>1. parent \in 1 .. Len(a)
    BY <1>1, <1>2, <1>3
  <2> HIDE DEF a, m
  <2>2. /\ e.nodes \in Seq(Node) /\ Len(e.nodes) = Len(a)
        /\ \A i \in 1 .. Len(a) : e.nodes[i] = IF i = parent THEN m ELSE a[i]
    BY <1>3, <1>5, <1>6, <2>1, ExceptSeq
  <2> HIDE DEF node
  <2> QED
    BY <1>3, <2>2, LenProperties
<1>8. /\ e.rootNode = d.rootNode /\ e.numNodes = d.numNodes + 1
      /\ e.numProperties = d.numProperties
      /\ e.totalPropertySize = d.totalPropertySize
  BY <1>4 DEF Trees
<1>9. e \in Trees
  <2>1. e = [nodes |-> e.nodes, rootNode |-> d.rootNode,
             freeNodes |-> Refilled(d.freeNodes) - 1,
             freeProperties |-> d.freeProperties,
             room |-> IF d.freeNodes = 0 THEN d.room - 1 ELSE d.room,
             numNodes |-> d.numNodes + 1,
             numProperties |-> d.numProperties,
             totalPropertySize |-> d.totalPropertySize]
    <3> HIDE DEF a
    <3> QED
      BY <1>4 DEF Trees
  <2>2. /\ d.rootNode \in Nat /\ d.freeProperties \in Nat
        /\ d.numProperties \in Nat /\ d.totalPropertySize \in Nat
    BY DEF Trees
  <2> QED
    BY <1>7, <2>1, <2>2, NodeTaken DEF Trees
<1>10. /\ node \in 1 .. node /\ node # parent /\ node \notin 1 .. Len(d.nodes)
       /\ \A i \in 1 .. Len(d.nodes) : i \in 1 .. node
  BY <1>1, <1>2
<1> HIDE DEF a, m, node
<1>11. /\ e.nodes[node] = NewNode /\ e.nodes[parent] = m
       /\ \A i \in 1 .. Len(d.nodes) : i # parent => e.nodes[i] = d.nodes[i]
  BY <1>2, <1>3, <1>7, <1>10
<1>12. \A i \in 1 .. Len(d.nodes) :
          e.nodes[i].properties = d.nodes[i].properties
  BY <1>5, <1>11
<1> QED
  BY <1>5, <1>7, <1>8, <1>9, <1>11, <1>12 DEF node

\* Where a child stood before one was put in front of the children of parent.
LEMMA PlacesShift ==
  ASSUME NEW d \in Trees, NEW parent \in DOMAIN d.nodes, ~NodeRefused(d),
         NEW e, e = WithNode(d, parent), NEW p \in DOMAIN e.nodes
  PROVE  LET node == Len(d.nodes) + 1 IN
         /\ p = parent =>
               /\ Len(Kids(e, p)) = Len(Kids(d, p)) + 1
               /\ DOMAIN Kids(e, p) = 1 .. (Len(Kids(d, p)) + 1)
               /\ DOMAIN Kids(d, p) = 1 .. Len(Kids(d, p))
               /\ Len(Kids(d, p)) \in Nat
               /\ Kids(e, p)[1] = node
               /\ \A k \in DOMAIN Kids(d, p) : Kids(e, p)[k + 1] = Kids(d, p)[k]
               /\ \A k \in DOMAIN Kids(e, p) : k # 1 =>
                     /\ k - 1 \in DOMAIN Kids(d, p)
                     /\ Kids(e, p)[k] = Kids(d, p)[k - 1]
         /\ p # parent /\ p # node =>
               p \in DOMAIN d.nodes /\ Kids(e, p) = Kids(d, p)
         /\ p = node => DOMAIN Kids(e, p) = {}
<1> DEFINE node == Len(d.nodes) + 1
<1>1. Len(d.nodes) \in Nat /\ DOMAIN d.nodes = 1 .. Len(d.nodes)
  BY NodeType
<1>2. CASE p = parent
  <2> DEFINE f == d.nodes[parent].children
             g == <<node>> \o f
  <2>1. Kids(d, p) = f /\ Kids(e, p) = g /\ f \in Seq(Nat)
    BY <1>2, NodeAdded, NodeType DEF Kids
  <2>2. <<node>> \in Seq(Nat) /\ Len(<<node>>) = 1 /\ <<node>>[1] = node
    BY <1>1
  <2>3. /\ Len(f) \in Nat /\ DOMAIN f = 1 .. Len(f)
        /\ g \in Seq(Nat) /\ Len(g) = Len(f) + 1 /\ DOMAIN g = 1 .. (Len(f) + 1)
        /\ \A k \in 1 .. (Len(f) + 1) :
              g[k] = IF k <= 1 THEN node ELSE f[k - 1]
    <3> HIDE DEF node, f
    <3>1. Len(f) \in Nat /\ DOMAIN f = 1 .. Len(f)
      BY <2>1, LenProperties
    <3>2. /\ g \in Seq(Nat) /\ Len(g) = 1 + Len(f)
          /\ \A k \in 1 .. (1 + Len(f)) :
                g[k] = IF k <= 1 THEN <<node>>[k] ELSE f[k - 1]
      BY <2>1, <2>2, ConcatProperties
    <3>3. DOMAIN g = 1 .. (Len(f) + 1)
      BY <3>1, <3>2, LenProperties
    <3>4. \A k \in 1 .. (Len(f) + 1) : k <= 1 => k = 1
      BY <3>1
    <3> QED
      BY <2>2, <3>1, <3>2, <3>3, <3>4
  <2> HIDE DEF f, g
  <2>4. /\ g[1] = node
        /\ \A k \in 1 .. Len(f) : g[k + 1] = f[k]
        /\ \A k \in 1 .. (Len(f) + 1) : k # 1 =>
              k - 1 \in 1 .. Len(f) /\ g[k] = f[k - 1]
    BY <2>3
  <2>5. p # node
    BY <1>1, <1>2
  <2> QED
    BY <1>2, <2>1, <2>3, <2>4, <2>5
<1>3. CASE p # parent /\ p # node
  <2>1. DOMAIN e.nodes = 1 .. node
    BY NodeAdded
  <2>2. p \in 1 .. Len(d.nodes)
    BY <1>1, <1>3, <2>1
  <2>3. e.nodes[p] = d.nodes[p]
    BY <1>3, <2>2, NodeAdded
  <2> QED
    BY <1>1, <1>3, <2>2, <2>3 DEF Kids
<1>4. CASE p = node
  <2>1. p # parent
    BY <1>1, <1>4
  <2> QED
    BY <1>4, <2>1, NodeAdded, NewNodeType DEF Kids
<1> QED
  BY <1>2, <1>3, <1>4

LEMMA NodeLinked ==
  ASSUME NEW d, Kept(d), NEW parent \in DOMAIN d.nodes, ~NodeRefused(d),
         NEW e, e = WithNode(d, parent)
  PROVE  Linked(e)
<1> DEFINE node == Len(d.nodes) + 1
<1>1. /\ d \in Trees /\ Linked(d) /\ Len(d.nodes) \in Nat
      /\ DOMAIN d.nodes = 1 .. Len(d.nodes)
  BY NodeType DEF Kept
<1>2. /\ Len(e.nodes) = node /\ DOMAIN e.nodes = 1 .. node
      /\ e.rootNode = d.rootNode
  BY <1>1, NodeAdded
<1>3. e.rootNode = 1 /\ 1 \in DOMAIN e.nodes
  BY <1>1, <1>2 DEF Linked
<1> DEFINE Old(p, k) == IF p = parent THEN k - 1 ELSE k
<1>4. ASSUME NEW p \in DOMAIN e.nodes, NEW k \in DOMAIN Kids(e, p)
      PROVE  \/ p = parent /\ k = 1 /\ Kids(e, p)[k] = node
             \/ /\ p \in DOMAIN d.nodes /\ Old(p, k) \in DOMAIN Kids(d, p)
                /\ Kids(e, p)[k] = Kids(d, p)[Old(p, k)]
                /\ Kids(e, p)[k] \in (p + 1) .. Len(d.nodes)
                /\ Kids(e, p)[k] # node
  <2>1. CASE p = parent
    <3>1. CASE k = 1
      BY <1>1, <2>1, <3>1, PlacesShift
    <3>2. CASE k # 1
      <4>1. k - 1 \in DOMAIN Kids(d, p) /\ Kids(e, p)[k] = Kids(d, p)[k - 1]
        BY <1>1, <2>1, <3>2, PlacesShift
      <4>2. Kids(d, p)[k - 1] \in (p + 1) .. Len(d.nodes)
        BY <1>1, <2>1, <4>1 DEF Linked
      <4> QED
        BY <1>1, <2>1, <4>1, <4>2
    <3> QED
      BY <3>1, <3>2
  <2>2. CASE p # parent
    <3>1. p # node
      BY <1>1, <2>2, PlacesShift
    <3>2. p \in DOMAIN d.nodes /\ Kids(e, p) = Kids(d, p)
      BY <1>1, <2>2, <3>1, PlacesShift
    <3>3. Kids(d, p)[k] \in (p + 1) .. Len(d.nodes)
      BY <1>1, <3>2 DEF Linked
    <3> QED
      BY <1>1, <2>2, <3>2, <3>3
  <2> QED
    BY <2>1, <2>2
<1>5. ASSUME NEW p \in DOMAIN e.nodes, NEW k \in DOMAIN Kids(e, p)
      PROVE  Kids(e, p)[k] \in (p + 1) .. Len(e.nodes)
  BY <1>1, <1>2, <1>4
<1>6. ASSUME NEW p \in DOMAIN e.nodes, NEW q \in DOMAIN e.nodes,
             NEW k \in DOMAIN Kids(e, p), NEW j \in DOMAIN Kids(e, q),
             Kids(e, p)[k] = Kids(e, q)[j]
      PROVE  p = q /\ k = j
  <2>1. CASE Kids(e, p)[k] = node
    BY <1>4, <1>6, <2>1
  <2>2. CASE Kids(e, p)[k] # node
    <3>1. /\ p \in DOMAIN d.nodes /\ Old(p, k) \in DOMAIN Kids(d, p)
          /\ Kids(e, p)[k] = Kids(d, p)[Old(p, k)]
      BY <1>4, <2>2
    <3>2. /\ q \in DOMAIN d.nodes /\ Old(q, j) \in DOMAIN Kids(d, q)
          /\ Kids(e, q)[j] = Kids(d, q)[Old(q, j)]
      BY <1>4, <1>6, <2>2
    <3>3. p = q /\ Old(p, k) = Old(q, j)
      <4> DEFINE K == Old(p, k)
                 J == Old(q, j)
      <4>1. /\ p \in DOMAIN d.nodes /\ K \in DOMAIN Kids(d, p)
            /\ q \in DOMAIN d.nodes /\ J \in DOMAIN Kids(d, q)
            /\ Kids(d, p)[K] = Kids(d, q)[J]
        BY <1>6, <3>1, <3>2
      <4> HIDE DEF K, J
      <4>2. p = q /\ K = J
        BY <1>1, <4>1 DEF Linked
      <4> QED
        BY <4>2 DEF K, J
    <3>4. k \in Nat /\ j \in Nat
      <4>1. \A i \in DOMAIN e.nodes : DOMAIN Kids(e, i) \subseteq Nat
        <5> TAKE i \in DOMAIN e.nodes
        <5>1. e \in Trees
          BY <1>1, NodeAdded
        <5>2. e.nodes[i].children \in Seq(Nat)
          BY <5>1, NodeType
        <5> QED
          BY <5>2, LenProperties DEF Kids
      <4> QED
        BY <4>1
    <3> QED
      BY <3>3, <3>4
  <2> QED
    BY <2>1, <2>2
<1>7. ASSUME NEW i \in DOMAIN e.nodes, i # 1
      PROVE  \E p \in DOMAIN e.nodes : \E k \in DOMAIN Kids(e, p) :
                Kids(e, p)[k] = i
  <2>1. parent \in DOMAIN e.nodes
    BY <1>1, <1>2
  <2>2. CASE i = node
    <3>1. /\ Kids(e, parent)[1] = node /\ Len(Kids(d, parent)) \in Nat
          /\ DOMAIN Kids(e, parent) = 1 .. (Len(Kids(d, parent)) + 1)
      BY <1>1, <2>1, PlacesShift
    <3>2. 1 \in DOMAIN Kids(e, parent)
      BY <3>1
    <3> QED
      BY <2>1, <2>2, <3>1, <3>2
  <2>3. CASE i # node
    <3>1. i \in DOMAIN d.nodes
      BY <1>1, <1>2, <2>3
    <3>6. PICK p \in DOMAIN d.nodes : \E k \in DOMAIN Kids(d, p) :
             Kids(d, p)[k] = i
      BY <1>1, <1>7, <3>1 DEF Linked
    <3>2. PICK k \in DOMAIN Kids(d, p) : Kids(d, p)[k] = i
      BY <3>6
    <3>3. p \in DOMAIN e.nodes /\ p # node
      BY <1>1, <1>2
    <3>4. CASE p = parent
      <4>1. /\ DOMAIN Kids(e, p) = 1 .. (Len(Kids(d, p)) + 1)
            /\ DOMAIN Kids(d, p) = 1 .. Len(Kids(d, p))
            /\ Len(Kids(d, p)) \in Nat
            /\ \A l \in DOMAIN Kids(d, p) : Kids(e, p)[l + 1] = Kids(d, p)[l]
        BY <1>1, <3>3, <3>4, PlacesShift
      <4>2. k + 1 \in DOMAIN Kids(e, p) /\ Kids(e, p)[k + 1] = i
        BY <3>2, <4>1
      <4> QED
        BY <3>3, <4>2
    <3>5. CASE p # parent
      <4>1. Kids(e, p) = Kids(d, p)
        BY <1>1, <3>3, <3>5, PlacesShift
      <4> QED
        BY <3>2, <3>3, <4>1
    <3> QED
      BY <3>4, <3>5
  <2> QED
    BY <2>2, <2>3
<1> QED
  BY <1>3, <1>5, <1>6, <1>7 DEF Linked

LEMMA NodeKept ==
  ASSUME NEW d, Kept(d), NEW parent \in DOMAIN d.nodes, ~NodeRefused(d)
  PROVE  /\ Kept(WithNode(d, parent))
         /\ Len(WithNode(d, parent).nodes) = Len(d.nodes) + 1
<1> DEFINE node == Len(d.nodes) + 1
<1>1. PICK e : e = WithNode(d, parent)
  OBVIOUS
<1>2. /\ d \in Trees /\ SumsHold(d) /\ Len(d.nodes) \in Nat
      /\ DOMAIN d.nodes = 1 .. Len(d.nodes)
  BY NodeType DEF Kept
<1>3. /\ e \in Trees /\ Len(e.nodes) = node
      /\ e.nodes[node] = NewNode
      /\ \A i \in 1 .. Len(d.nodes) :
            /\ e.nodes[i].properties = d.nodes[i].properties
      /\ e.numNodes = d.numNodes + 1
      /\ e.numProperties = d.numProperties
      /\ e.totalPropertySize = d.totalPropertySize
  BY <1>1, <1>2, NodeAdded
<1>4. SumOver(Lens(e)) = SumOver(Lens(d))
  <2> DEFINE f == Lens(d)
             h == Lens(e)
  <2>1. /\ f \in Seq(Nat) /\ h \in Seq(Nat) /\ Len(f) = Len(d.nodes)
        /\ Len(h) = node
        /\ \A i \in 1 .. node : h[i] = Len(e.nodes[i].properties)
        /\ \A i \in 1 .. Len(d.nodes) : f[i] = Len(d.nodes[i].properties)
    BY <1>2, <1>3, SummandsType
  <2> HIDE DEF f, h
  <2>2. /\ Len(h) = Len(f) + 1 /\ h[Len(h)] = 0
        /\ \A k \in 1 .. Len(f) : h[k] = f[k]
    <3>1. /\ node \in 1 .. node /\ \A k \in 1 .. Len(d.nodes) : k \in 1 .. node
      BY <1>2
    <3> QED
      BY <1>3, <2>1, <3>1, NewNodeType
  <2>3. SumOver(h) = SumOver(f) + h[Len(h)] /\ SumOver(f) \in Nat
    BY <2>1, <2>2, SumOfAppend, SumType
  <2>4. SumOver(h) = SumOver(f)
    BY <2>2, <2>3
  <2> QED
    BY <2>4 DEF f, h
<1>5. SumOver(AllValues(e)) = SumOver(AllValues(d))
  <2> DEFINE f == AllValues(d)
             h == AllValues(e)
  <2>1. /\ f \in Seq(Nat) /\ h \in Seq(Nat) /\ Len(f) = Len(d.nodes)
        /\ Len(h) = node
        /\ \A i \in 1 .. node : h[i] = SumOver(Values(e.nodes[i]))
        /\ \A i \in 1 .. Len(d.nodes) : f[i] = SumOver(Values(d.nodes[i]))
    BY <1>2, <1>3, SummandsType
  <2> HIDE DEF f, h
  <2>2. \A i \in 1 .. Len(d.nodes) : Values(e.nodes[i]) = Values(d.nodes[i])
    BY <1>3 DEF Values
  <2>3. /\ Len(h) = Len(f) + 1 /\ h[Len(h)] = 0
        /\ \A k \in 1 .. Len(f) : h[k] = f[k]
    <3>1. /\ node \in 1 .. node /\ \A k \in 1 .. Len(d.nodes) : k \in 1 .. node
      BY <1>2
    <3> QED
      BY <1>3, <2>1, <2>2, <3>1, NewNodeType
  <2>4. SumOver(h) = SumOver(f) + h[Len(h)] /\ SumOver(f) \in Nat
    BY <2>1, <2>3, SumOfAppend, SumType
  <2>5. SumOver(h) = SumOver(f)
    BY <2>3, <2>4
  <2> QED
    BY <2>5 DEF f, h
<1>6. SumsHold(e)
  BY <1>2, <1>3, <1>4, <1>5 DEF SumsHold
<1> QED
  BY <1>1, <1>3, <1>6, NodeLinked DEF Kept

\* DT__AddChild with a name, and without.
LEMMA NamedKept ==
  ASSUME NEW d, Kept(d), NEW parent \in DOMAIN d.nodes, NEW name \in Names,
         NEW n \in Nat, NEW value \in Nat
  PROVE  LET e == WithNamed(d, parent, name, n, value) IN
         /\ Kept(e)
         /\ Len(e.nodes) = IF NodeRefused(d) THEN Len(d.nodes)
                           ELSE Len(d.nodes) + 1
<1>1. CASE NodeRefused(d)
  BY <1>1 DEF WithNamed
<1>2. CASE ~NodeRefused(d)
  <2>1. PICK e : e = WithNode(d, parent)
    OBVIOUS
  <2>2. Kept(e) /\ Len(e.nodes) = Len(d.nodes) + 1
    BY <1>2, <2>1, NodeKept
  <2>3. Len(e.nodes) \in DOMAIN e.nodes
    <3>1. Len(d.nodes) \in Nat
      BY NodeType DEF Kept
    <3>2. e.nodes \in Seq(Node)
      BY <2>2 DEF Kept, Trees
    <3>3. DOMAIN e.nodes = 1 .. Len(e.nodes)
      BY <3>2, LenProperties
    <3> QED
      BY <2>2, <3>1, <3>3
  <2>4. WithNamed(d, parent, name, n, value)
          = WithProperty(e, Len(e.nodes), name, n, value)
    BY <1>2, <2>1 DEF WithNamed
  <2> QED
    BY <1>2, <2>2, <2>3, <2>4, PropertyKept
<1> QED
  BY <1>1, <1>2

LEMMA ChildKept ==
  ASSUME NEW d, Kept(d), NEW parent \in DOMAIN d.nodes
  PROVE  Kept(WithChild(d, parent))
  BY NodeKept DEF WithChild

\* A tree that has its root alone.
LEMMA RootKept ==
  ASSUME NEW d \in Trees, d.nodes = <<NewNode>>, d.rootNode = 1,
         d.numNodes = 1, d.numProperties = 0, d.totalPropertySize = 0
  PROVE  Kept(d)
<1>1. Len(d.nodes) = 1 /\ DOMAIN d.nodes = {1} /\ d.nodes[1] = NewNode
  OBVIOUS
<1>2. Linked(d)
  <2>1. DOMAIN Kids(d, 1) = {}
    BY <1>1, NewNodeType DEF Kids
  <2> QED
    BY <1>1, <2>1 DEF Linked
<1>3. \A i \in 1 .. Len(d.nodes) :
         /\ Len(d.nodes[i].properties) = 0
         /\ SumOver(Values(d.nodes[i])) = 0
  BY <1>1, NewNodeType
<1>4. SumOver(Lens(d)) = 0 /\ SumOver(AllValues(d)) = 0
  BY <1>3, SummandsType, SumOfZeros
<1> QED
  BY <1>1, <1>2, <1>4 DEF Kept, SumsHold

LEMMA EmptyTreeKept ==
  ASSUME NEW room \in Nat
  PROVE  EmptyTree(room) \in Trees /\ Counted(EmptyTree(room))
<1> DEFINE d == EmptyTree(room)
<1>1. d \in Trees
  BY DEF EmptyTree, Trees, NULL
<1>2. d.nodes = <<>> /\ Len(d.nodes) = 0 /\ DOMAIN d.nodes = {}
  BY DEF EmptyTree
<1>3. d.numNodes = 0 /\ d.numProperties = 0 /\ d.totalPropertySize = 0
  BY DEF EmptyTree
<1>4. SumOver(Lens(d)) = 0 /\ SumOver(AllValues(d)) = 0
  BY <1>1, <1>2, SummandsType, SumOfZeros
<1> HIDE DEF d
<1> QED
  BY <1>1, <1>2, <1>3, <1>4 DEF Counted, Lens, AllValues, Values, d

\* DT__Initialize: the tree has a root, or nothing has changed.
LEMMA InitializeKept ==
  ASSUME NEW room \in Nat, NEW name \in Names, NEW n \in Nat, NEW value \in Nat
  PROVE  LET d == EmptyTree(room)
             e == WithNamed(d, NULL, name, n, value)
         IN  \/ e.rootNode # NULL /\ Kept(e)
             \/ e.rootNode = NULL /\ e = d
<1> DEFINE d == EmptyTree(room)
<1>1. /\ d \in Trees /\ d.nodes = <<>> /\ Len(d.nodes) = 0
      /\ d.rootNode = NULL /\ d.numNodes = 0
      /\ d.numProperties = 0 /\ d.totalPropertySize = 0
  BY EmptyTreeKept DEF EmptyTree
<1> HIDE DEF d
<1>2. CASE NodeRefused(d)
  BY <1>1, <1>2 DEF WithNamed, d
<1>3. CASE ~NodeRefused(d)
  <2> DEFINE w == WithNode(d, NULL)
  <2>1. w = [[d EXCEPT
                !.room = IF d.freeNodes = 0 THEN @ - 1 ELSE @,
                !.freeNodes = Refilled(@) - 1,
                !.nodes = <<NewNode>>,
                !.numNodes = 1]
               EXCEPT !.rootNode = 1]
    BY <1>1 DEF WithNode, NewNode
  <2>2. /\ w.nodes = <<NewNode>> /\ w.rootNode = 1 /\ w.numNodes = 1
        /\ w.numProperties = 0 /\ w.totalPropertySize = 0
    BY <1>1, <2>1 DEF Trees
  <2>3. w = [nodes |-> <<NewNode>>, rootNode |-> 1,
             freeNodes |-> Refilled(d.freeNodes) - 1,
             freeProperties |-> d.freeProperties,
             room |-> IF d.freeNodes = 0 THEN d.room - 1 ELSE d.room,
             numNodes |-> 1, numProperties |-> 0, totalPropertySize |-> 0]
    BY <1>1, <2>1 DEF Trees
  <2>4. w \in Trees
    <3>1. <<NewNode>> \in Seq(Node) /\ d.freeProperties \in Nat
      <4> HIDE DEF NewNode
      <4> QED
        BY <1>1, NewNodeType DEF Trees
    <3> HIDE DEF w
    <3> QED
      BY <1>1, <1>3, <2>3, <3>1, NodeTaken DEF Trees
  <2> HIDE DEF w
  <2>5. Kept(w) /\ Len(w.nodes) = 1 /\ 1 \in DOMAIN w.nodes
    BY <2>2, <2>4, RootKept
  <2>6. WithNamed(d, NULL, name, n, value) = WithProperty(w, 1, name, n, value)
    BY <1>3, <2>5 DEF WithNamed, w
  <2>7. Kept(WithNamed(d, NULL, name, n, value))
    BY <2>5, <2>6, PropertyKept
  <2> QED
    BY <2>7 DEF Kept, Linked, NULL, d
<1> QED
  BY <1>2, <1>3

-----------------------------------------------------------------------------
(* The counts of CountsHold, from how the nodes are linked and back.       *)

PlacesOf(d, i) == {e \in Places(d) : d.nodes[e[1]].children[e[2]] = i}

LEMMA PlacesAre ==
  ASSUME NEW d, NEW i
  PROVE  \A e : e \in PlacesOf(d, i) <=>
            \E p \in DOMAIN d.nodes : \E k \in DOMAIN Kids(d, p) :
               e = <<p, k>> /\ Kids(d, p)[k] = i
  BY DEF PlacesOf, Places, Kids

\* There are finitely many places.
LEMMA PlacesFinite ==
  ASSUME NEW d \in Trees
  PROVE  IsFiniteSet(Places(d))
<1> DEFINE Of(p) == {<<p, k>> : k \in DOMAIN d.nodes[p].children}
           All   == {Of(p) : p \in DOMAIN d.nodes}
<1>1. \A p \in DOMAIN d.nodes : IsFiniteSet(Of(p))
  <2> TAKE p \in DOMAIN d.nodes
  <2> DEFINE D == DOMAIN d.nodes[p].children
             f == [k \in D |-> <<p, k>>]
  <2>1. IsFiniteSet(D)
    <3>1. D = 1 .. Len(d.nodes[p].children) /\ Len(d.nodes[p].children) \in Nat
      BY NodeType, LenProperties
    <3>2. PICK n \in Int : D = 1 .. n
      BY <3>1
    <3> HIDE DEF D
    <3> QED
      BY <3>2, FS_Interval
  <2>2. f \in Surjection(D, Of(p))
    BY DEF Surjection
  <2> QED
    BY <2>1, <2>2, FS_Surjection
<1>2. IsFiniteSet(All)
  <2> DEFINE D == DOMAIN d.nodes
             f == [p \in D |-> Of(p)]
  <2>1. IsFiniteSet(D)
    <3>1. D = 1 .. Len(d.nodes) /\ Len(d.nodes) \in Nat
      BY LenProperties DEF Trees
    <3>2. PICK n \in Int : D = 1 .. n
      BY <3>1
    <3> HIDE DEF D
    <3> QED
      BY <3>2, FS_Interval
  <2>2. f \in Surjection(D, All)
    <3> HIDE DEF Of
    <3> QED
      BY DEF Surjection
  <2> QED
    BY <2>1, <2>2, FS_Surjection
<1>3. \A T \in All : IsFiniteSet(T)
  BY <1>1
<1>4. Places(d) = UNION All
  BY DEF Places
<1> HIDE DEF All
<1> QED
  BY <1>2, <1>3, <1>4, FS_UNION

LEMMA CountsFollow ==
  ASSUME NEW d, Kept(d)
  PROVE  Counted(d)
<1>1. /\ d \in Trees /\ Linked(d) /\ SumsHold(d) /\ Len(d.nodes) \in Nat
      /\ DOMAIN d.nodes = 1 .. Len(d.nodes)
  BY NodeType DEF Kept, Trees, Linked
<1>2. ASSUME NEW i \in DOMAIN d.nodes
      PROVE  Cardinality(PlacesOf(d, i)) = IF i = d.rootNode THEN 0 ELSE 1
  <2>1. CASE i = 1
    <3>1. \A p \in DOMAIN d.nodes : \A k \in DOMAIN Kids(d, p) :
             Kids(d, p)[k] # i
      BY <1>1, <2>1 DEF Linked
    <3>2. PlacesOf(d, i) = {}
      BY <3>1, PlacesAre
    <3> QED
      BY <1>1, <2>1, <3>2, FS_EmptySet DEF Linked
  <2>2. CASE i # 1
    <3>1. PICK p \in DOMAIN d.nodes : \E k \in DOMAIN Kids(d, p) :
             Kids(d, p)[k] = i
      BY <1>1, <2>2 DEF Linked
    <3>2. PICK k \in DOMAIN Kids(d, p) : Kids(d, p)[k] = i
      BY <3>1
    <3>3. \A q \in DOMAIN d.nodes : \A j \in DOMAIN Kids(d, q) :
             Kids(d, q)[j] = i => q = p /\ j = k
      BY <1>1, <3>2 DEF Linked
    <3>4. \A e : e \in PlacesOf(d, i) <=> e = <<p, k>>
      BY <3>2, <3>3, PlacesAre
    <3>5. PlacesOf(d, i) = {<<p, k>>}
      BY <3>4
    <3> QED
      BY <1>1, <2>2, <3>5, FS_Singleton DEF Linked
  <2> QED
    BY <2>1, <2>2
<1> QED
  BY <1>1, <1>2 DEF Counted, SumsHold, Lens, AllValues, Values, PlacesOf

LEMMA KeptFollows ==
  ASSUME NEW d \in Trees, Grown(d), Counted(d)
  PROVE  Kept(d)
<1>1. /\ Len(d.nodes) \in Nat /\ DOMAIN d.nodes = 1 .. Len(d.nodes)
      /\ d.rootNode = 1 /\ 1 \in DOMAIN d.nodes
  BY NodeType DEF Grown
<1>2. SumsHold(d)
  BY DEF Counted, SumsHold, Lens, AllValues, Values
<1>3. ASSUME NEW i \in DOMAIN d.nodes, i # 1
      PROVE  \E x : PlacesOf(d, i) = {x}
  <2>1. Cardinality(PlacesOf(d, i)) = 1
    BY <1>1, <1>3 DEF Counted, PlacesOf
  <2>2. IsFiniteSet(PlacesOf(d, i))
    <3>1. PlacesOf(d, i) \in SUBSET Places(d)
      BY DEF PlacesOf
    <3> QED
      BY <3>1, PlacesFinite, FS_Subset
  <2> QED
    BY <2>1, <2>2, FS_Singleton
<1>4. ASSUME NEW p \in DOMAIN d.nodes, NEW k \in DOMAIN Kids(d, p)
      PROVE  Kids(d, p)[k] \in (p + 1) .. Len(d.nodes)
  <2>1. <<p, k>> \in Places(d)
    BY DEF Places, Kids
  <2>2. d.nodes[<<p, k>>[1]].children[<<p, k>>[2]]
          \in (<<p, k>>[1] + 1) .. Len(d.nodes)
    BY <2>1 DEF Grown
  <2> QED
    BY <2>2 DEF Kids
<1>5. ASSUME NEW p \in DOMAIN d.nodes, NEW q \in DOMAIN d.nodes,
             NEW k \in DOMAIN Kids(d, p), NEW j \in DOMAIN Kids(d, q),
             Kids(d, p)[k] = Kids(d, q)[j]
      PROVE  p = q /\ k = j
  <2> DEFINE i == Kids(d, p)[k]
  <2>1. i \in DOMAIN d.nodes /\ i # 1
    BY <1>1, <1>4
  <2>2. PICK x : PlacesOf(d, i) = {x}
    BY <1>3, <2>1
  <2>3. <<p, k>> \in PlacesOf(d, i) /\ <<q, j>> \in PlacesOf(d, i)
    BY <1>5, PlacesAre
  <2>4. <<p, k>> = <<q, j>>
    BY <2>2, <2>3
  <2> QED
    BY <2>4
<1>6. ASSUME NEW i \in DOMAIN d.nodes, i # 1
      PROVE  \E p \in DOMAIN d.nodes : \E k \in DOMAIN Kids(d, p) :
                Kids(d, p)[k] = i
  <2>1. PICK x : PlacesOf(d, i) = {x}
    BY <1>3, <1>6
  <2>2. x \in PlacesOf(d, i)
    BY <2>1
  <2> QED
    BY <2>2, PlacesAre
<1>7. Linked(d)
  BY <1>1, <1>4, <1>5, <1>6 DEF Linked
<1> QED
  BY <1>2, <1>7 DEF Kept

-----------------------------------------------------------------------------
(* What is measured.                                                       *)

\* The words a node takes: its counts, and its properties.
Sizes(n) == [k \in DOMAIN n.properties |->
                PropertySize + RoundToLong(n.properties[k].length)]
Own(n)   == NodeSize + SumOver(Sizes(n))
Owns(d)  == [i \in DOMAIN d.nodes |-> Own(d.nodes[i])]

LEMMA PropertySizeType == PropertySize \in Nat /\ NodeSize \in Nat /\ NodeSize = 2
  BY TreeAssumption DEF PropertySize, NodeSize

LEMMA SizesType ==
  ASSUME NEW n \in Node
  PROVE  /\ Sizes(n) \in Seq(Nat) /\ Len(Sizes(n)) = Len(n.properties)
         /\ DOMAIN n.properties = 1 .. Len(n.properties)
         /\ \A k \in 1 .. Len(n.properties) :
               /\ Sizes(n)[k]
                    = PropertySize + RoundToLong(n.properties[k].length)
               /\ n.properties[k] \in Property
               /\ RoundToLong(n.properties[k].length) \in Nat
         /\ SumOver(Sizes(n)) \in Nat /\ Len(n.properties) \in Nat
<1>1. n.properties \in Seq(Property)
  BY DEF Node
<1>2. /\ Len(n.properties) \in Nat
      /\ DOMAIN n.properties = 1 .. Len(n.properties)
      /\ \A k \in 1 .. Len(n.properties) : n.properties[k] \in Property
  BY <1>1, LenProperties, ElementOfSeq
<1>3. \A k \in 1 .. Len(n.properties) :
         RoundToLong(n.properties[k].length) \in Nat
  BY <1>2, RoundType DEF Property
<1>4. Sizes(n) \in [1 .. Len(n.properties) -> Nat]
  BY <1>2, <1>3, PropertySizeType DEF Sizes
<1>5. Sizes(n) \in Seq(Nat) /\ Len(Sizes(n)) = Len(n.properties)
  BY <1>2, <1>4
<1> QED
  BY <1>2, <1>3, <1>5, SumType DEF Sizes

LEMMA SizesSum ==
  ASSUME NEW n \in Node
  PROVE  SumOver(Sizes(n))
           = PropertySize * Len(n.properties) + SumOver(Values(n))
<1> DEFINE f == Values(n)
           h == Sizes(n)
           N == Len(n.properties)
<1>1. /\ f \in Seq(Nat) /\ h \in Seq(Nat) /\ Len(f) = N /\ Len(h) = N
      /\ N \in Nat /\ SumOver(f) \in Nat
      /\ \A k \in 1 .. N : h[k] = PropertySize + f[k] /\ f[k] \in Nat
  BY ValuesType, SizesType
<1> HIDE DEF f, h, N
<1>2. Linear(h, PropertySize, 0, f, f)
  BY <1>1, PropertySizeType DEF Linear, Term
<1>3. SumOver(h) = Total(PropertySize, 0, N, SumOver(f), SumOver(f))
  <2> DEFINE z == 0
  <2>1. z \in Nat /\ PropertySize \in Nat /\ Len(f) = N
        /\ Linear(h, PropertySize, z, f, f)
    BY <1>1, <1>2, PropertySizeType
  <2> HIDE DEF z
  <2>2. SumOver(h) = Total(PropertySize, z, Len(f), SumOver(f), SumOver(f))
    BY <1>1, <2>1, SumOfLinear
  <2> QED
    BY <2>1, <2>2 DEF z
<1>4. SumOver(h) = PropertySize * N + SumOver(f)
  <2> DEFINE s == SumOver(f)
  <2>1. s \in Nat
    BY <1>1
  <2> HIDE DEF s
  <2>2. Total(PropertySize, 0, N, s, s) = PropertySize * N + s
    BY <1>1, <2>1, PropertySizeType DEF Total
  <2> QED
    BY <1>3, <2>2 DEF s
<1> QED
  BY <1>4 DEF f, h, N

LEMMA OwnsType ==
  ASSUME NEW d \in Trees
  PROVE  /\ Owns(d) \in Seq(Nat) /\ Len(Owns(d)) = Len(d.nodes)
         /\ \A i \in 1 .. Len(d.nodes) :
               /\ Owns(d)[i] = NodeSize + SumOver(Sizes(d.nodes[i]))
               /\ SumOver(Sizes(d.nodes[i])) \in Nat
<1>1. Len(d.nodes) \in Nat /\ DOMAIN d.nodes = 1 .. Len(d.nodes)
  BY LenProperties DEF Trees
<1>2. \A i \in 1 .. Len(d.nodes) : SumOver(Sizes(d.nodes[i])) \in Nat
  BY <1>1, NodeType, SizesType
<1>3. Owns(d) \in [1 .. Len(d.nodes) -> Nat]
  BY <1>1, <1>2, PropertySizeType DEF Owns, Own
<1> QED
  BY <1>1, <1>2, <1>3 DEF Owns, Own

\* The size that the counters give is the sum of what the nodes take.
LEMMA MeasuredIs ==
  ASSUME NEW d, Kept(d)
  PROVE  TotalSize(d) = SumOver(Owns(d))
<1> DEFINE f == Lens(d)
           g == AllValues(d)
           h == Owns(d)
           N == Len(d.nodes)
<1>1. d \in Trees /\ SumsHold(d)
  BY DEF Kept
<1>2. N \in Nat /\ DOMAIN d.nodes = 1 .. N
  BY <1>1, LenProperties DEF Trees
<1>3. /\ f \in Seq(Nat) /\ g \in Seq(Nat) /\ h \in Seq(Nat)
      /\ Len(f) = N /\ Len(g) = N /\ Len(h) = N
      /\ SumOver(f) \in Nat /\ SumOver(g) \in Nat
  BY <1>1, SummandsType, OwnsType, SumType
<1>4. \A i \in 1 .. N : /\ f[i] = Len(d.nodes[i].properties)
                        /\ g[i] = SumOver(Values(d.nodes[i]))
                        /\ h[i] = NodeSize + SumOver(Sizes(d.nodes[i]))
  BY <1>1, SummandsType, OwnsType
<1>5. \A i \in 1 .. N :
         SumOver(Sizes(d.nodes[i]))
           = PropertySize * Len(d.nodes[i].properties)
               + SumOver(Values(d.nodes[i]))
  BY <1>1, <1>2, NodeType, SizesSum
<1>6. \A i \in 1 .. N : f[i] \in Nat /\ g[i] \in Nat
  BY <1>3, ElementOfSeq
<1> HIDE DEF f, g, h, N
<1>7. Linear(h, NodeSize, PropertySize, f, g)
  <2> SUFFICES ASSUME NEW i \in 1 .. N
               PROVE  h[i] = NodeSize + PropertySize * f[i] + g[i]
    BY <1>3 DEF Linear, Term
  <2>1. h[i] = NodeSize + (PropertySize * f[i] + g[i])
    BY <1>4, <1>5
  <2> DEFINE x == PropertySize * f[i]
             y == g[i]
  <2>2. x \in Nat /\ y \in Nat
    BY <1>6, PropertySizeType
  <2> HIDE DEF x, y
  <2>3. NodeSize + (x + y) = NodeSize + x + y
    BY <2>2, PropertySizeType
  <2> QED
    BY <2>1, <2>3 DEF x, y
<1>8. SumOver(h) = Total(NodeSize, PropertySize, N, SumOver(f), SumOver(g))
  BY <1>3, <1>7, PropertySizeType, SumOfLinear
<1>9. TotalSize(d) = N * NodeSize + SumOver(f) * PropertySize + SumOver(g)
  BY <1>1 DEF TotalSize, SumsHold, f, g, N
<1>10. \A a, b, k, u, v \in Nat : Total(a, b, k, u, v) = k * a + u * b + v
  BY DEF Total
<1> QED
  BY <1>2, <1>3, <1>8, <1>9, <1>10, PropertySizeType DEF h

-----------------------------------------------------------------------------
(* The walk.  V is the nodes it has come to; those on the stack are not    *)
(* done with.                                                              *)

FrameOK(f, V) ==
    /\ f.node \in V
    /\ f.prop \in 1 .. (Len(dt.nodes[f.node].properties) + 1)
    /\ f.child \in 0 .. (Len(Kids(dt, f.node)) + 1)
    /\ f.child # 0 => f.prop = Len(dt.nodes[f.node].properties) + 1
    /\ \A k \in DOMAIN Kids(dt, f.node) :
          Kids(dt, f.node)[k] \in V <=> k < f.child

\* Every node the walk has come to was led to by its parent, and unless it is
\* on the stack, once, all its children have been come to.
Visited(V) ==
    /\ V \subseteq DOMAIN dt.nodes /\ 1 \in V
    /\ \A i \in DOMAIN stack :
          FrameOK(stack[i], V) /\ (i # Len(stack) => stack[i].child # 0)
    /\ \A i, j \in DOMAIN stack : stack[i].node = stack[j].node => i = j
    /\ \A p \in V : \/ \E i \in DOMAIN stack : stack[i].node = p
                    \/ \A k \in DOMAIN Kids(dt, p) : Kids(dt, p)[k] \in V
    /\ \A p \in DOMAIN dt.nodes : \A k \in DOMAIN Kids(dt, p) :
          Kids(dt, p)[k] \in V => p \in V

\* How far it has come: the words of the nodes in V, but for the properties
\* of the node on top whose turn is still to come.
Reached(V) ==
    IF stack = <<>> THEN pos = Part(Owns(dt), V)
    ELSE pos + SumOver(Sizes(TopNode))
           = Part(Owns(dt), V) + Part(Sizes(TopNode), 1 .. (Top.prop - 1))

\* All that is written lies behind.
Behind ==
    /\ \A i \in DOMAIN stack : stack[i].at + NodeSize <= pos
    /\ NamesFit => \A x \in DOMAIN buffer : x < pos

Walked == \E V \in SUBSET DOMAIN dt.nodes : Visited(V) /\ Reached(V)

TreeInv ==
    /\ TypeOK
    /\ pc = "start" => \E room \in Nat : dt = EmptyTree(room)
    /\ pc = "halted" => Counted(dt)
    /\ pc \notin {"start", "halted"} => Kept(dt)
    /\ ~Flattening => stack = <<>> /\ buffer = <<>> /\ pos = 0 /\ length = 0
    /\ Flattening => /\ length = TotalSize(dt)
                     /\ pc = "done" <=> stack = <<>>
                     /\ Walked /\ Behind

-----------------------------------------------------------------------------
(* What is written where.                                                  *)

LEMMA PutType ==
  ASSUME NEW b, DOMAIN b \subseteq Nat, b \in [DOMAIN b -> Word],
         NEW x \in Nat, NEW cell \in Word
  PROVE  LET c == Put(b, x, cell) IN
         /\ DOMAIN c = DOMAIN b \cup {x}
         /\ DOMAIN c \subseteq Nat /\ c \in [DOMAIN c -> Word]
  BY DEF Put

\* A property takes its own words, and with a name that fits no others.
LEMMA PropertyAtType ==
  ASSUME NEW b, DOMAIN b \subseteq Nat, b \in [DOMAIN b -> Word],
         NEW x \in Nat, NEW p \in Property
  PROVE  LET c == PropertyAt(b, x, p)
             n == PropertySize + RoundToLong(p.length)
         IN  /\ DOMAIN c \subseteq Nat /\ c \in [DOMAIN c -> Word]
             /\ NamesFit => \A y \in DOMAIN c : y \in DOMAIN b \/ y < x + n
<1> DEFINE c == PropertyAt(b, x, p)
           name == x .. (x + NameLen[p.name] - 1)
           data == (x + PropertySize)
                      .. (x + PropertySize + RoundToLong(p.length) - 1)
<1>1. /\ p.name \in Names /\ p.length \in Nat /\ p.value \in Nat
      /\ p.name \in Nat /\ RoundToLong(p.length) \in Nat
      /\ NameLen[p.name] \in Nat /\ NameWords \in Nat
      /\ PropertySize = NameWords + 1
  BY TreeAssumption, RoundType DEF Property, PropertySize
<1>2. DOMAIN c = DOMAIN b \cup name \cup {x + NameWords} \cup data
  BY DEF PropertyAt
<1>3. /\ \A y \in name : y \in Nat /\ y - x \in Nat
      /\ \A y \in data : y \in Nat /\ y - (x + PropertySize) \in Nat
      /\ x + NameWords \in Nat
  BY <1>1
<1>4. DOMAIN c \subseteq Nat
  BY <1>2, <1>3
<1>5. ASSUME NEW y \in DOMAIN c PROVE c[y] \in Word
  <2>1. c[y] = IF y \in data
                 THEN Cell("data", p.value, y - (x + PropertySize))
               ELSE IF y = x + NameWords THEN Cell("length", p.length, 0)
               ELSE IF y \in name THEN Cell("name", p.name, y - x)
               ELSE b[y]
    BY DEF PropertyAt
  <2>2. CASE y \in data
    <3>1. y - (x + PropertySize) \in Nat
      BY <1>3, <2>2
    <3> QED
      BY <1>1, <2>1, <2>2, <3>1 DEF Word, Kind, Cell
  <2>3. CASE y \notin data /\ y = x + NameWords
    BY <1>1, <2>1, <2>3 DEF Word, Kind, Cell
  <2>4. CASE y \notin data /\ y # x + NameWords /\ y \in name
    <3>1. y - x \in Nat
      BY <1>3, <2>4
    <3> QED
      BY <1>1, <2>1, <2>4, <3>1 DEF Word, Kind, Cell
  <2>5. CASE y \notin data /\ y # x + NameWords /\ y \notin name
    <3>1. y \in DOMAIN b /\ b[y] \in Word
      BY <1>2, <2>5
    <3> QED
      BY <2>1, <2>5, <3>1
  <2> HIDE DEF c, name, data
  <2> QED
    BY <2>2, <2>3, <2>4, <2>5
<1>6. c \in [DOMAIN c -> Word]
  <2>1. c = [y \in DOMAIN c |-> c[y]]
    BY DEF PropertyAt
  <2> HIDE DEF c
  <2> QED
    BY <1>5, <2>1
<1>7. ASSUME NamesFit, NEW y \in DOMAIN c, y \notin DOMAIN b
      PROVE  y < x + (PropertySize + RoundToLong(p.length))
  <2>1. NameLen[p.name] <= NameWords
    BY <1>1, <1>7 DEF NamesFit
  <2>2. y \in name \/ y = x + NameWords \/ y \in data
    BY <1>2, <1>7
  <2> QED
    BY <1>1, <2>1, <2>2
<1> HIDE DEF c
<1>8. /\ DOMAIN c \subseteq Nat /\ c \in [DOMAIN c -> Word]
      /\ NamesFit => \A y \in DOMAIN c : y \in DOMAIN b
                        \/ y < x + (PropertySize + RoundToLong(p.length))
  BY <1>4, <1>6, <1>7
<1> QED
  BY <1>8 DEF c

-----------------------------------------------------------------------------
(* The steps of the walk.                                                  *)

Frames == [node : Nat, at : Nat, prop : Nat, child : Nat]

\* What is known of the frame on top.
LEMMA OnTop ==
  ASSUME TreeInv, pc = "flatten"
  PROVE  /\ stack \in Seq(Frames) /\ Len(stack) \in Nat /\ Len(stack) >= 1
         /\ DOMAIN stack = 1 .. Len(stack) /\ Len(stack) \in DOMAIN stack
         /\ Top \in Frames /\ stack # <<>>
         /\ \A i \in DOMAIN stack : stack[i] \in Frames
         /\ dt \in Trees /\ Linked(dt) /\ pos \in Nat
         /\ DOMAIN dt.nodes = 1 .. Len(dt.nodes)
         /\ Top.node \in DOMAIN dt.nodes /\ TopNode \in Node
         /\ Kids(dt, Top.node) = TopNode.children
         /\ DOMAIN TopNode.children = 1 .. Len(TopNode.children)
         /\ Len(TopNode.children) \in Nat
<1>1. /\ stack \in Seq(Frames) /\ stack # <<>> /\ dt \in Trees /\ Linked(dt)
      /\ pos \in Nat
  BY DEF TreeInv, TypeOK, Frames, Kept, Flattening
<1>2. Len(stack) \in Nat /\ Len(stack) >= 1
      /\ DOMAIN stack = 1 .. Len(stack) /\ Len(stack) \in DOMAIN stack
  <2>1. Len(stack) \in Nat /\ DOMAIN stack = 1 .. Len(stack)
    BY <1>1, LenProperties
  <2>2. Len(stack) # 0
    BY <1>1, EmptySeq
  <2> QED
    BY <2>1, <2>2
<1>3. \A i \in DOMAIN stack : stack[i] \in Frames
  BY <1>1, <1>2, ElementOfSeq
<1>4. PICK V \in SUBSET DOMAIN dt.nodes : Visited(V)
  BY DEF TreeInv, Flattening, Walked
<1>5. Top.node \in DOMAIN dt.nodes
  <2>1. FrameOK(stack[Len(stack)], V)
    BY <1>2, <1>4 DEF Visited
  <2> QED
    BY <2>1 DEF FrameOK, Top
<1>6. /\ TopNode \in Node /\ TopNode.children \in Seq(Nat)
      /\ DOMAIN dt.nodes = 1 .. Len(dt.nodes)
  BY <1>1, <1>5, NodeType DEF TopNode
<1>7. /\ DOMAIN TopNode.children = 1 .. Len(TopNode.children)
      /\ Len(TopNode.children) \in Nat
  BY <1>6, LenProperties
<1> QED
  BY <1>1, <1>2, <1>3, <1>5, <1>6, <1>7 DEF Top, TopNode, Kids

\* The frame on top goes on with the same node.
LEMMA VisitedStays ==
  ASSUME stack \in Seq(Frames), stack # <<>>, NEW V, Visited(V), dt' = dt,
         NEW f, FrameOK(f, V), f.node = Top.node,
         stack' \in Seq(Frames), Len(stack') = Len(stack),
         \A i \in 1 .. Len(stack) :
            stack'[i] = IF i = Len(stack) THEN f ELSE stack[i]
  PROVE  Visited(V)'
<1>1. /\ Len(stack) \in Nat /\ DOMAIN stack = 1 .. Len(stack)
      /\ DOMAIN stack' = 1 .. Len(stack)
  BY LenProperties
<1>2. \A i \in DOMAIN stack : stack'[i].node = stack[i].node
  BY <1>1 DEF Top
<1>3. ASSUME NEW i \in DOMAIN stack'
      PROVE  FrameOK(stack[i], V)' /\ (i # Len(stack) => stack[i].child # 0)'
  <2>1. FrameOK(stack[i], V) /\ (i # Len(stack) => stack[i].child # 0)
    BY <1>1 DEF Visited
  <2>2. stack'[i] = IF i = Len(stack) THEN f ELSE stack[i]
    BY <1>1
  <2>3. FrameOK(stack'[i], V)
    BY <2>1, <2>2, Zenon
  <2>4. FrameOK(stack[i], V)'
    BY <2>3 DEF FrameOK, Kids
  <2>5. i # Len(stack) => stack'[i].child # 0
    BY <2>1, <2>2, Zenon
  <2> QED
    BY <2>4, <2>5
<1>4. \A i, j \in DOMAIN stack' : stack'[i].node = stack'[j].node => i = j
  BY <1>1, <1>2 DEF Visited
<1>5. \A p \in V : \/ \E i \in DOMAIN stack' : stack'[i].node = p
                   \/ \A k \in DOMAIN Kids(dt, p) : Kids(dt, p)[k] \in V
  BY <1>1, <1>2 DEF Visited
<1>6. /\ V \subseteq DOMAIN dt.nodes /\ 1 \in V
      /\ \A p \in DOMAIN dt.nodes : \A k \in DOMAIN Kids(dt, p) :
            Kids(dt, p)[k] \in V => p \in V
  BY DEF Visited
<1>7. \A p : Kids(dt, p)' = Kids(dt, p)
  BY DEF Kids
<1> QED
  BY <1>3, <1>4, <1>5, <1>6, <1>7 DEF Visited

\* Only the frame on top is replaced.
LEMMA TopReplaced ==
  ASSUME stack \in Seq(Frames), stack # <<>>, NEW f \in Frames,
         stack' = [stack EXCEPT ![Len(stack)] = f]
  PROVE  /\ stack' \in Seq(Frames) /\ Len(stack') = Len(stack) /\ stack' # <<>>
         /\ DOMAIN stack' = 1 .. Len(stack) /\ stack'[Len(stack)] = f
         /\ \A i \in 1 .. Len(stack) :
               stack'[i] = IF i = Len(stack) THEN f ELSE stack[i]
<1>1. Len(stack) \in Nat /\ Len(stack) # 0
  BY LenProperties, EmptySeq
<1>2. Len(stack) \in 1 .. Len(stack)
  BY <1>1
<1>3. /\ stack' \in Seq(Frames) /\ Len(stack') = Len(stack)
      /\ \A i \in 1 .. Len(stack) :
            stack'[i] = IF i = Len(stack) THEN f ELSE stack[i]
  BY <1>2, ExceptSeq
<1>4. DOMAIN stack' = 1 .. Len(stack) /\ stack' # <<>>
  BY <1>1, <1>3, LenProperties, EmptySeq
<1> QED
  BY <1>2, <1>3, <1>4

LEMMA FrameTurns ==
  ASSUME NEW t \in Frames
  PROVE  /\ LET f == [t EXCEPT !.prop = @ + 1] IN
            /\ f \in Frames /\ f.node = t.node /\ f.child = t.child
            /\ f.prop = t.prop + 1 /\ f.at = t.at
         /\ LET f == [t EXCEPT !.child = 1] IN
            /\ f \in Frames /\ f.node = t.node /\ f.child = 1
            /\ f.prop = t.prop /\ f.at = t.at
         /\ LET f == [t EXCEPT !.child = @ + 1] IN
            /\ f \in Frames /\ f.node = t.node /\ f.child = t.child + 1
            /\ f.prop = t.prop /\ f.at = t.at
  BY DEF Frames

LEMMA FlattenPropertyKeeps ==
  ASSUME TreeInv, FlattenProperty
  PROVE  TreeInv'
<1>1. pc = "flatten" /\ pc' = pc /\ dt' = dt /\ length' = length
  BY DEF FlattenProperty
<1> DEFINE n == Len(stack)
           j == Top.prop
           p == TopNode.properties[j]
           f == [Top EXCEPT !.prop = @ + 1]
           s == Sizes(TopNode)
           w == PropertySize + RoundToLong(p.length)
<1>2. /\ stack \in Seq(Frames) /\ stack # <<>> /\ n \in Nat
      /\ DOMAIN stack = 1 .. n /\ n \in DOMAIN stack
      /\ Top \in Frames /\ pos \in Nat
      /\ Top.node \in DOMAIN dt.nodes /\ TopNode \in Node
      /\ Top = stack[n] /\ TopNode = dt.nodes[Top.node]
      /\ \A i \in DOMAIN stack : stack[i] \in Frames
  BY <1>1, OnTop DEF Top, TopNode
<1>3. PICK V \in SUBSET DOMAIN dt.nodes : Visited(V) /\ Reached(V)
  BY <1>1 DEF TreeInv, Flattening, Walked
<1>4. FrameOK(Top, V)
  BY <1>2, <1>3 DEF Visited
<1>5. /\ j \in 1 .. Len(TopNode.properties) /\ j \in Nat
      /\ Len(TopNode.properties) \in Nat /\ Len(s) = Len(TopNode.properties)
      /\ s \in Seq(Nat) /\ p \in Property /\ s[j] = w
      /\ RoundToLong(p.length) \in Nat /\ w \in Nat
      /\ SumOver(s) \in Nat
  <2>1. j \in 1 .. (Len(TopNode.properties) + 1)
    BY <1>2, <1>4 DEF FrameOK
  <2>2. j <= Len(TopNode.properties)
    BY DEF FlattenProperty
  <2>3. Len(TopNode.properties) \in Nat
    BY <1>2, SizesType
  <2>4. j \in 1 .. Len(TopNode.properties) /\ j \in Nat
    BY <2>1, <2>2, <2>3
  <2>5. /\ Len(s) = Len(TopNode.properties) /\ s \in Seq(Nat)
        /\ p \in Property /\ s[j] = w /\ RoundToLong(p.length) \in Nat
        /\ SumOver(s) \in Nat
    <3> HIDE DEF j
    <3> QED
      BY <1>2, <2>4, SizesType
  <2>6. \A r \in Nat : PropertySize + r \in Nat
    BY PropertySizeType
  <2> HIDE DEF j, p, s
  <2> QED
    BY <2>3, <2>4, <2>5, <2>6
<1>6. /\ f \in Frames /\ f.node = Top.node /\ f.child = Top.child
      /\ f.prop = j + 1 /\ f.at = Top.at
  BY <1>2, FrameTurns
<1>7. stack' = [stack EXCEPT ![n] = f]
  BY <1>2 DEF FlattenProperty
<1>8. buffer' = PropertyAt(buffer, pos, p) /\ pos' = pos + w
  <2>1. pos' = pos + PropertySize + RoundToLong(p.length)
    BY DEF FlattenProperty
  <2>2. pos + PropertySize + RoundToLong(p.length) = pos + w
    <3> DEFINE r == RoundToLong(p.length)
    <3>1. r \in Nat
      BY <1>5
    <3> HIDE DEF r
    <3>2. pos + PropertySize + r = pos + (PropertySize + r)
      BY <1>2, <3>1, PropertySizeType
    <3> QED
      BY <3>2 DEF r
  <2> QED
    BY <2>1, <2>2 DEF FlattenProperty
<1> HIDE DEF f, s, w, p, n, j
<1>9. /\ stack' \in Seq(Frames) /\ Len(stack') = n /\ stack' # <<>>
      /\ DOMAIN stack' = 1 .. n /\ stack'[n] = f
      /\ \A i \in 1 .. n : stack'[i] = IF i = n THEN f ELSE stack[i]
  BY <1>2, <1>6, <1>7, TopReplaced DEF n
<1>10. pos' \in Nat /\ pos <= pos'
  BY <1>2, <1>5, <1>8
<1>11. Visited(V)'
  <2>1. FrameOK(f, V)
    <3>1. Top.child = 0
      BY <1>4, <1>5, <1>2 DEF FrameOK, j
    <3>2. j + 1 \in 1 .. (Len(TopNode.properties) + 1)
      BY <1>5
    <3> QED
      BY <1>2, <1>4, <1>6, <3>1, <3>2 DEF FrameOK
  <2> QED
    BY <1>1, <1>2, <1>3, <1>6, <1>9, <2>1, VisitedStays DEF n
<1>12. Reached(V)'
  <2>1. pos + SumOver(s) = Part(Owns(dt), V) + Part(s, 1 .. (j - 1))
    BY <1>2, <1>3 DEF Reached, s, j
  <2>2. Part(s, 1 .. j) = Part(s, 1 .. (j - 1)) + w
    <3>1. j \notin 1 .. (j - 1) /\ (1 .. (j - 1)) \cup {j} = 1 .. j
      BY <1>5
    <3> QED
      BY <1>5, <3>1, PartOfMore
  <2>3. Part(s, 1 .. (j - 1)) \in Nat /\ Part(Owns(dt), V) \in Nat
    BY <1>1, <1>5, OnTop, OwnsType, PartType
  <2>4. (pos + w) + SumOver(s) = Part(Owns(dt), V) + Part(s, 1 .. j)
    <3> DEFINE a == SumOver(s)
               b == Part(s, 1 .. (j - 1))
               c == Part(Owns(dt), V)
    <3>1. /\ pos \in Nat /\ w \in Nat /\ a \in Nat /\ b \in Nat /\ c \in Nat
          /\ pos + a = c + b /\ Part(s, 1 .. j) = b + w
      BY <1>2, <1>5, <2>1, <2>2, <2>3
    <3> HIDE DEF a, b, c
    <3>2. (pos + w) + a = c + (b + w)
      BY <3>1
    <3> QED
      BY <3>1, <3>2 DEF a, c
  <2>5. Top' = f /\ Sizes(TopNode)' = s
    BY <1>1, <1>6, <1>9 DEF Top, TopNode, s, Sizes
  <2>6. Part(Owns(dt), V)' = Part(Owns(dt), V)
    BY <1>1
  <2>7. (Top.prop - 1)' = j
    BY <1>5, <1>6, <2>5
  <2> QED
    BY <1>8, <1>9, <2>4, <2>5, <2>6, <2>7 DEF Reached
<1>13. Behind'
  <2>1. Behind
    BY <1>1 DEF TreeInv, Flattening
  <2>2. ASSUME NEW i \in DOMAIN stack' PROVE stack'[i].at + NodeSize <= pos'
    <3>1. stack'[i].at = stack[i].at /\ i \in DOMAIN stack /\ stack[i].at \in Nat
      BY <1>2, <1>6, <1>9 DEF Frames
    <3>2. stack[i].at + NodeSize <= pos
      BY <2>1, <3>1 DEF Behind
    <3> QED
      BY <1>2, <1>10, <3>1, <3>2, PropertySizeType
  <2>3. ASSUME NamesFit, NEW x \in DOMAIN buffer' PROVE x < pos'
    <3>1. /\ DOMAIN buffer \subseteq Nat /\ buffer \in [DOMAIN buffer -> Word]
      BY DEF TreeInv, TypeOK
    <3>2. x \in Nat /\ (x \in DOMAIN buffer \/ x < pos + w)
      BY <1>2, <1>5, <1>8, <2>3, <3>1, PropertyAtType DEF w
    <3>3. x \in DOMAIN buffer => x < pos
      BY <2>1, <2>3 DEF Behind
    <3> QED
      BY <1>2, <1>8, <1>10, <3>2, <3>3
  <2> QED
    BY <2>2, <2>3 DEF Behind, NamesFit
<1>14. TypeOK'
  <2>1. /\ DOMAIN buffer \subseteq Nat /\ buffer \in [DOMAIN buffer -> Word]
    BY DEF TreeInv, TypeOK
  <2>2. DOMAIN buffer' \subseteq Nat /\ buffer' \in [DOMAIN buffer' -> Word]
    BY <1>2, <1>5, <1>8, <2>1, PropertyAtType
  <2> QED
    BY <1>1, <1>9, <1>10, <2>2 DEF TreeInv, TypeOK, Frames
<1> QED
  BY <1>1, <1>3, <1>9, <1>11, <1>12, <1>13, <1>14
     DEF TreeInv, Flattening, Walked, TotalSize

LEMMA EndPropertiesKeeps ==
  ASSUME TreeInv, EndProperties
  PROVE  TreeInv'
<1>1. /\ pc = "flatten" /\ pc' = pc /\ dt' = dt /\ length' = length
      /\ pos' = pos
  BY DEF EndProperties
<1> DEFINE n == Len(stack)
           L == Len(TopNode.properties)
           f == [Top EXCEPT !.child = 1]
           s == Sizes(TopNode)
           cell == Cell("nProperties", Top.prop - 1, 0)
<1>2. /\ stack \in Seq(Frames) /\ stack # <<>> /\ n \in Nat
      /\ DOMAIN stack = 1 .. n /\ n \in DOMAIN stack
      /\ Top \in Frames /\ pos \in Nat
      /\ Top.node \in DOMAIN dt.nodes /\ TopNode \in Node
      /\ Top = stack[n] /\ TopNode = dt.nodes[Top.node]
      /\ \A i \in DOMAIN stack : stack[i] \in Frames
      /\ Kids(dt, Top.node) = TopNode.children
      /\ DOMAIN TopNode.children = 1 .. Len(TopNode.children)
      /\ Len(TopNode.children) \in Nat
  BY <1>1, OnTop DEF Top, TopNode
<1>3. PICK V \in SUBSET DOMAIN dt.nodes : Visited(V) /\ Reached(V)
  BY <1>1 DEF TreeInv, Flattening, Walked
<1>4. FrameOK(Top, V)
  BY <1>2, <1>3 DEF Visited
<1>5. Top.prop = L + 1 /\ L \in Nat /\ Top.child = 0
  <2>1. Top.prop \in 1 .. (L + 1)
    BY <1>2, <1>4 DEF FrameOK
  <2>2. Top.prop > L /\ Top.child = 0
    BY DEF EndProperties
  <2>3. L \in Nat
    BY <1>2, SizesType
  <2> HIDE DEF L
  <2> QED
    BY <2>1, <2>2, <2>3
<1>6. /\ f \in Frames /\ f.node = Top.node /\ f.child = 1
      /\ f.prop = Top.prop /\ f.at = Top.at
  BY <1>2, FrameTurns
<1>7. stack' = [stack EXCEPT ![n] = f]
  BY <1>2 DEF EndProperties
<1>8. buffer' = Put(buffer, Top.at, cell) /\ cell \in Word /\ Top.at \in Nat
  <2>1. Top.prop - 1 \in Nat
    BY <1>5
  <2> QED
    BY <1>2, <2>1 DEF EndProperties, Cell, Word, Kind, Frames
<1> HIDE DEF f, s, n, L, cell
<1>9. /\ stack' \in Seq(Frames) /\ Len(stack') = n /\ stack' # <<>>
      /\ DOMAIN stack' = 1 .. n /\ stack'[n] = f
      /\ \A i \in 1 .. n : stack'[i] = IF i = n THEN f ELSE stack[i]
  BY <1>2, <1>6, <1>7, TopReplaced DEF n
<1>10. Visited(V)'
  <2>1. FrameOK(f, V)
    <3>1. \A k \in DOMAIN Kids(dt, Top.node) :
             Kids(dt, Top.node)[k] \in V <=> k < 1
      <4>1. \A k \in 1 .. Len(TopNode.children) : ~(k < 0) /\ ~(k < 1)
        BY <1>2
      <4>2. \A k \in DOMAIN Kids(dt, Top.node) : Kids(dt, Top.node)[k] \notin V
        BY <1>2, <1>4, <1>5, <4>1 DEF FrameOK
      <4> QED
        BY <1>2, <4>1, <4>2
    <3>2. 1 \in 0 .. (Len(Kids(dt, Top.node)) + 1)
      BY <1>2
    <3> QED
      BY <1>2, <1>4, <1>5, <1>6, <3>1, <3>2 DEF FrameOK, L
  <2> QED
    BY <1>1, <1>2, <1>3, <1>6, <1>9, <2>1, VisitedStays DEF n
<1>11. Reached(V)'
  <2>1. pos + SumOver(s) = Part(Owns(dt), V) + Part(s, 1 .. (Top.prop - 1))
    BY <1>2, <1>3 DEF Reached, s
  <2>2. Top' = f /\ Sizes(TopNode)' = s
    BY <1>1, <1>6, <1>9 DEF Top, TopNode, s, Sizes
  <2>3. (Top.prop - 1)' = Top.prop - 1
    BY <1>6, <2>2
  <2>4. Part(Owns(dt), V)' = Part(Owns(dt), V)
    BY <1>1
  <2> QED
    BY <1>1, <1>9, <2>1, <2>2, <2>3, <2>4 DEF Reached
<1>12. Behind'
  <2>1. Behind
    BY <1>1 DEF TreeInv, Flattening
  <2>2. ASSUME NEW i \in DOMAIN stack' PROVE stack'[i].at + NodeSize <= pos'
    <3>1. stack'[i].at = stack[i].at /\ i \in DOMAIN stack
      BY <1>2, <1>6, <1>9
    <3> QED
      BY <1>1, <2>1, <3>1 DEF Behind
  <2>3. ASSUME NamesFit, NEW x \in DOMAIN buffer' PROVE x < pos'
    <3>1. /\ DOMAIN buffer \subseteq Nat /\ buffer \in [DOMAIN buffer -> Word]
      BY DEF TreeInv, TypeOK
    <3>2. x \in DOMAIN buffer \/ x = Top.at
      <4>1. DOMAIN buffer' = DOMAIN buffer \cup {Top.at}
        BY <1>8 DEF Put
      <4> QED
        BY <4>1
    <3>3. Top.at < pos
      <4>1. Top.at + NodeSize <= pos
        BY <1>2, <2>1 DEF Behind
      <4> QED
        BY <1>2, <1>8, <4>1, PropertySizeType
    <3> QED
      BY <1>1, <2>1, <2>3, <3>2, <3>3 DEF Behind
  <2> QED
    BY <2>2, <2>3 DEF Behind, NamesFit
<1>13. TypeOK'
  <2>1. /\ DOMAIN buffer \subseteq Nat /\ buffer \in [DOMAIN buffer -> Word]
    BY DEF TreeInv, TypeOK
  <2>2. DOMAIN buffer' \subseteq Nat /\ buffer' \in [DOMAIN buffer' -> Word]
    BY <1>8, <2>1, PutType
  <2> QED
    BY <1>1, <1>9, <2>2 DEF TreeInv, TypeOK, Frames
<1> QED
  BY <1>1, <1>3, <1>9, <1>10, <1>11, <1>12, <1>13
     DEF TreeInv, Flattening, Walked, TotalSize

\* Once the properties of the node on top have been written, the walk has
\* come to the end of every node that it has visited.
LEMMA AllBehind ==
  ASSUME TreeInv, pc = "flatten", NEW V \in SUBSET DOMAIN dt.nodes,
         Visited(V), Reached(V), Top.child # 0
  PROVE  pos = Part(Owns(dt), V)
<1> DEFINE s == Sizes(TopNode)
           L == Len(TopNode.properties)
<1>1. /\ stack # <<>> /\ Len(stack) \in DOMAIN stack /\ TopNode \in Node
      /\ dt \in Trees /\ pos \in Nat /\ Top = stack[Len(stack)]
      /\ TopNode = dt.nodes[Top.node]
  BY OnTop DEF Top, TopNode
<1>2. FrameOK(Top, V)
  BY <1>1 DEF Visited
<1>3. Top.prop = L + 1
  BY <1>1, <1>2 DEF FrameOK
<1>4. s \in Seq(Nat) /\ Len(s) = L /\ L \in Nat /\ SumOver(s) \in Nat
  BY <1>1, SizesType
<1>5. Part(s, 1 .. (Top.prop - 1)) = SumOver(s)
  <2>1. 1 .. (Top.prop - 1) = 1 .. L
    BY <1>3, <1>4
  <2> HIDE DEF s, L
  <2> QED
    BY <1>4, <2>1, PartOfAll
<1>6. Part(Owns(dt), V) \in Nat
  BY <1>1, OwnsType, PartType
<1>7. pos + SumOver(s) = Part(Owns(dt), V) + SumOver(s)
  BY <1>1, <1>5 DEF Reached
<1> DEFINE a == SumOver(s)
           b == Part(Owns(dt), V)
<1>8. a \in Nat /\ b \in Nat /\ pos \in Nat /\ pos + a = b + a
  BY <1>1, <1>4, <1>6, <1>7
<1> HIDE DEF a, b
<1>9. pos = b
  BY <1>8
<1> QED
  BY <1>9 DEF b

\* The stack with the next child on top.
LEMMA ChildPushed ==
  ASSUME TreeInv, FlattenChild
  PROVE  LET n == Len(stack)
             f == [Top EXCEPT !.child = @ + 1]
             g == Frame(TopNode.children[Top.child], pos)
         IN  /\ stack' \in Seq(Frames) /\ Len(stack') = n + 1
             /\ DOMAIN stack' = 1 .. (n + 1) /\ stack' # <<>>
             /\ \A i \in 1 .. (n + 1) :
                   stack'[i] = IF i = n + 1 THEN g
                               ELSE IF i = n THEN f ELSE stack[i]
<1> DEFINE n == Len(stack)
           f == [Top EXCEPT !.child = @ + 1]
           g == Frame(TopNode.children[Top.child], pos)
           a == Append(stack, g)
<1>1. /\ stack \in Seq(Frames) /\ n \in Nat /\ n >= 1
      /\ Top \in Frames /\ pos \in Nat /\ TopNode \in Node
      /\ Top = stack[n]
  BY OnTop DEF FlattenChild, Top
<1>2. g \in Frames
  <2>1. TopNode.children \in Seq(Nat)
    BY <1>1 DEF Node
  <2>2. TopNode.children[Top.child] \in Nat
    BY <2>1, ElementOfSeq DEF FlattenChild
  <2> QED
    BY <1>1, <2>2 DEF Frame, Frames
<1>3. f \in Frames
  BY <1>1, FrameTurns
<1> HIDE DEF g
<1>4. /\ a \in Seq(Frames) /\ Len(a) = n + 1 /\ a[n + 1] = g
      /\ \A i \in 1 .. n : a[i] = stack[i]
  BY <1>1, <1>2, AppendProperties
<1>5. stack' = [a EXCEPT ![n] = f]
  <2>1. stack' = [a EXCEPT ![n].child = @ + 1]
    BY DEF FlattenChild, Push, g
  <2>2. a[n] = Top
    BY <1>1, <1>4
  <2> HIDE DEF a
  <2> QED
    BY <2>1, <2>2
<1>6. n \in 1 .. Len(a) /\ n + 1 # n /\ n + 1 \in 1 .. (n + 1)
      /\ \A i \in 1 .. (n + 1) : i # n + 1 => i \in 1 .. n
  BY <1>1, <1>4
<1> HIDE DEF a, n, f
<1>7. /\ stack' \in Seq(Frames) /\ Len(stack') = Len(a)
      /\ \A i \in 1 .. Len(a) : stack'[i] = IF i = n THEN f ELSE a[i]
  BY <1>3, <1>4, <1>5, <1>6, ExceptSeq
<1>8. DOMAIN stack' = 1 .. (n + 1) /\ stack' # <<>>
  <2>1. DOMAIN stack' = 1 .. (n + 1)
    BY <1>4, <1>7, LenProperties
  <2>2. n + 1 \in DOMAIN stack'
    BY <1>6, <2>1
  <2> QED
    BY <2>1, <2>2
<1>9. \A i \in 1 .. (n + 1) :
         stack'[i] = IF i = n + 1 THEN g ELSE IF i = n THEN f ELSE stack[i]
  BY <1>4, <1>6, <1>7
<1> QED
  BY <1>4, <1>7, <1>8, <1>9 DEF n, f, g

LEMMA ChildVisited ==
  ASSUME TreeInv, FlattenChild, NEW V \in SUBSET DOMAIN dt.nodes, Visited(V),
         NEW x, x = TopNode.children[Top.child]
  PROVE  /\ x \in DOMAIN dt.nodes /\ x \notin V
         /\ Visited(V \cup {x})'
<1> DEFINE n == Len(stack)
           c == Top.child
           f == [Top EXCEPT !.child = @ + 1]
           g == Frame(x, pos)
           W == V \cup {x}
<1>1. pc = "flatten" /\ dt' = dt /\ c \in 1 .. Len(TopNode.children)
  BY DEF FlattenChild
<1>2. /\ stack \in Seq(Frames) /\ n \in Nat /\ n >= 1
      /\ DOMAIN stack = 1 .. n /\ n \in DOMAIN stack
      /\ Top \in Frames /\ pos \in Nat /\ Top = stack[n]
      /\ Top.node \in DOMAIN dt.nodes /\ TopNode \in Node
      /\ dt \in Trees /\ Linked(dt)
      /\ Kids(dt, Top.node) = TopNode.children
      /\ DOMAIN TopNode.children = 1 .. Len(TopNode.children)
      /\ \A i \in DOMAIN stack : stack[i] \in Frames
      /\ DOMAIN dt.nodes = 1 .. Len(dt.nodes)
  BY <1>1, OnTop DEF Top
<1>3. /\ DOMAIN stack' = 1 .. (n + 1) /\ Len(stack') = n + 1
      /\ \A i \in 1 .. (n + 1) :
            stack'[i] = IF i = n + 1 THEN g ELSE IF i = n THEN f ELSE stack[i]
  BY ChildPushed
<1>4. /\ f \in Frames /\ f.node = Top.node /\ f.child = c + 1
      /\ f.prop = Top.prop /\ g.node = x /\ g.prop = 1 /\ g.child = 0
  BY <1>2, FrameTurns DEF Frame
<1>5. FrameOK(Top, V) /\ Top.node \in V
  BY <1>2 DEF Visited, FrameOK
<1>6. /\ c \in DOMAIN Kids(dt, Top.node) /\ x = Kids(dt, Top.node)[c]
      /\ c \in Nat /\ c # 0 /\ ~(c < c)
  BY <1>1, <1>2
<1> HIDE DEF c, f, g, n
<1>7. x \notin V
  BY <1>5, <1>6 DEF FrameOK, c
<1>8. x \in DOMAIN dt.nodes /\ x # Top.node /\ x # 1 /\ x \in Nat
  <2>1. x \in (Top.node + 1) .. Len(dt.nodes)
    BY <1>2, <1>6 DEF Linked
  <2>2. Len(dt.nodes) \in Nat /\ Top.node \in 1 .. Len(dt.nodes)
    BY <1>2, NodeType
  <2> QED
    BY <1>2, <2>1, <2>2
\* No other place leads to x.
<1>9. \A p \in DOMAIN dt.nodes : \A k \in DOMAIN Kids(dt, p) :
         Kids(dt, p)[k] = x => p = Top.node /\ k = c
  BY <1>2, <1>6 DEF Linked
<1>10. \A p : Kids(dt, p)' = Kids(dt, p)
  BY <1>1 DEF Kids
\* The frames.
<1>11. FrameOK(g, W)
  <2>1. /\ Len(dt.nodes[x].properties) \in Nat
        /\ DOMAIN Kids(dt, x) = 1 .. Len(Kids(dt, x))
        /\ Len(Kids(dt, x)) \in Nat
    <3>1. dt.nodes[x] \in Node /\ dt.nodes[x].children \in Seq(Nat)
      BY <1>2, <1>8, NodeType
    <3> QED
      BY <3>1, SizesType, LenProperties DEF Kids
  <2>2. \A k \in DOMAIN Kids(dt, x) : Kids(dt, x)[k] \notin W /\ ~(k < 0)
    <3> SUFFICES ASSUME NEW k \in DOMAIN Kids(dt, x)
                 PROVE  Kids(dt, x)[k] \notin W /\ ~(k < 0)
      OBVIOUS
    <3>1. Kids(dt, x)[k] # x
      BY <1>8, <1>9
    <3>2. Kids(dt, x)[k] \notin V
      BY <1>7, <1>8 DEF Visited
    <3>3. ~(k < 0)
      BY <2>1
    <3> QED
      BY <3>1, <3>2, <3>3
  <2>3. 1 \in 1 .. (Len(dt.nodes[x].properties) + 1)
        /\ 0 \in 0 .. (Len(Kids(dt, x)) + 1)
    <3>1. \A m \in Nat : 1 \in 1 .. (m + 1) /\ 0 \in 0 .. (m + 1)
      OBVIOUS
    <3> QED
      BY <2>1, <3>1
  <2> QED
    BY <1>4, <2>2, <2>3 DEF FrameOK
<1>12. FrameOK(f, W)
  <2>1. Len(Kids(dt, Top.node)) \in Nat
        /\ Kids(dt, Top.node) = TopNode.children
    BY <1>1, OnTop
  <2>2. c + 1 \in 0 .. (Len(Kids(dt, Top.node)) + 1) /\ c + 1 # 0
    BY <1>1, <1>6, <2>1
  <2>3. ASSUME NEW k \in DOMAIN Kids(dt, Top.node)
        PROVE  Kids(dt, Top.node)[k] \in W <=> k < c + 1
    <3>1. Kids(dt, Top.node)[k] \in V <=> k < c
      BY <1>5 DEF FrameOK, c
    <3>2. Kids(dt, Top.node)[k] = x <=> k = c
      BY <1>2, <1>6, <1>9
    <3>3. k \in Nat
      BY <1>2
    <3>4. k < c + 1 <=> k < c \/ k = c
      BY <1>6, <3>3
    <3> QED
      BY <3>1, <3>2, <3>4
  <2> QED
    BY <1>4, <1>5, <1>6, <2>2, <2>3 DEF FrameOK, c
<1>13. ASSUME NEW i \in DOMAIN stack, i # n
       PROVE  FrameOK(stack[i], W) /\ stack[i].child # 0
  <2>1. FrameOK(stack[i], V) /\ stack[i].child # 0
    BY <1>13 DEF Visited, n
  <2>2. stack[i].node # Top.node /\ stack[i].node \in DOMAIN dt.nodes
    BY <1>2, <1>13, <2>1 DEF Visited, FrameOK
  <2>3. \A k \in DOMAIN Kids(dt, stack[i].node) :
           Kids(dt, stack[i].node)[k] # x
    BY <1>9, <2>2
  <2> QED
    BY <2>1, <2>3 DEF FrameOK
<1>14. ASSUME NEW i \in DOMAIN stack'
       PROVE  FrameOK(stack[i], W)' /\ (i # Len(stack) => stack[i].child # 0)'
  <2>1. FrameOK(stack'[i], W) /\ (i # n + 1 => stack'[i].child # 0)
    <3>1. CASE i = n + 1
      <4>1. stack'[i] = g
        BY <1>3, <3>1
      <4> QED
        BY <1>11, <3>1, <4>1
    <3>2. CASE i = n
      <4>1. i # n + 1 /\ c + 1 # 0
        BY <1>2, <1>6, <3>2
      <4>2. stack'[i] = f
        BY <1>3, <3>2, <4>1
      <4> QED
        BY <1>4, <1>12, <4>1, <4>2
    <3>3. CASE i # n /\ i # n + 1
      <4>1. i \in DOMAIN stack /\ stack'[i] = stack[i]
        BY <1>2, <1>3, <3>3
      <4> QED
        BY <1>13, <3>3, <4>1
    <3> QED
      BY <3>1, <3>2, <3>3
  <2>2. FrameOK(stack[i], W)'
    BY <1>1, <2>1 DEF FrameOK, Kids
  <2> QED
    BY <1>3, <2>1, <2>2
<1>15. \A i \in DOMAIN stack : stack[i].node # x
  BY <1>7 DEF Visited, FrameOK
\* Whose frames they are.
<1>16. \A i \in 1 .. n : i \in DOMAIN stack' /\ i # n + 1
                         /\ stack'[i].node = stack[i].node
  BY <1>2, <1>3, <1>4
<1>17. n + 1 \in DOMAIN stack' /\ stack'[n + 1].node = x
       /\ \A i \in DOMAIN stack' : i # n + 1 => i \in 1 .. n
  BY <1>2, <1>3, <1>4
<1>18. \A i, j \in DOMAIN stack' : stack'[i].node = stack'[j].node => i = j
  <2>1. \A i, j \in DOMAIN stack : stack[i].node = stack[j].node => i = j
    BY DEF Visited
  <2> QED
    BY <1>2, <1>15, <1>16, <1>17, <2>1
<1>19. ASSUME NEW p \in W
       PROVE  \/ \E i \in DOMAIN stack' : stack'[i].node = p
              \/ \A k \in DOMAIN Kids(dt, p) : Kids(dt, p)[k] \in W
  <2>1. CASE p = x
    BY <1>17, <2>1
  <2>2. CASE p # x
    <3>1. \/ \E i \in DOMAIN stack : stack[i].node = p
          \/ \A k \in DOMAIN Kids(dt, p) : Kids(dt, p)[k] \in V
      BY <2>2 DEF Visited
    <3> QED
      BY <1>2, <1>16, <3>1
  <2> QED
    BY <2>1, <2>2
<1>20. \A p \in DOMAIN dt.nodes : \A k \in DOMAIN Kids(dt, p) :
          Kids(dt, p)[k] \in W => p \in W
  BY <1>5, <1>9 DEF Visited
<1>21. W \subseteq DOMAIN dt.nodes /\ 1 \in W
  BY <1>8 DEF Visited
<1> HIDE DEF W
<1>22. Visited(W)'
  BY <1>1, <1>10, <1>14, <1>18, <1>19, <1>20, <1>21 DEF Visited
<1> QED
  BY <1>7, <1>8, <1>22 DEF W

LEMMA FlattenChildKeeps ==
  ASSUME TreeInv, FlattenChild
  PROVE  TreeInv'
<1>0. PICK x : x = TopNode.children[Top.child]
  OBVIOUS
<1> DEFINE n == Len(stack)
           g == Frame(x, pos)
           f == [Top EXCEPT !.child = @ + 1]
           s == Sizes(dt.nodes[x])
<1>1. /\ pc = "flatten" /\ pc' = pc /\ dt' = dt /\ length' = length
      /\ buffer' = buffer /\ pos' = pos + NodeSize
      /\ Top.child \in 1 .. Len(TopNode.children)
  BY DEF FlattenChild
<1>2. /\ stack \in Seq(Frames) /\ n \in Nat /\ n >= 1 /\ DOMAIN stack = 1 .. n
      /\ pos \in Nat /\ dt \in Trees /\ Top \in Frames /\ n \in DOMAIN stack
      /\ Top = stack[n]
      /\ \A i \in DOMAIN stack : stack[i] \in Frames
      /\ DOMAIN dt.nodes = 1 .. Len(dt.nodes)
  BY <1>1, OnTop DEF Top
<1>3. PICK V \in SUBSET DOMAIN dt.nodes : Visited(V) /\ Reached(V)
  BY <1>1 DEF TreeInv, Flattening, Walked
<1>4. x \in DOMAIN dt.nodes /\ x \notin V /\ Visited(V \cup {x})'
  BY <1>0, <1>3, ChildVisited
<1>5. /\ stack' \in Seq(Frames) /\ Len(stack') = n + 1 /\ stack' # <<>>
      /\ DOMAIN stack' = 1 .. (n + 1)
      /\ \A i \in 1 .. (n + 1) :
            stack'[i] = IF i = n + 1 THEN g ELSE IF i = n THEN f ELSE stack[i]
  BY <1>0, ChildPushed
<1>6. g.node = x /\ g.prop = 1 /\ g.at = pos /\ f.at = Top.at
  BY <1>2, FrameTurns DEF Frame
<1>7. pos' \in Nat /\ pos <= pos'
  BY <1>1, <1>2, PropertySizeType
<1>8. s \in Seq(Nat) /\ SumOver(s) \in Nat
  BY <1>2, <1>4, NodeType, SizesType
<1>9. Top' = g
  <2>1. n + 1 \in 1 .. (n + 1)
    BY <1>2
  <2> HIDE DEF g, n, f
  <2> QED
    BY <1>5, <2>1 DEF Top
<1> HIDE DEF n, g, f
<1>10. Reached(V \cup {x})'
  <2>1. pos = Part(Owns(dt), V)
    <3>1. Top.child # 0
      <4>1. Len(TopNode.children) \in Nat
        BY <1>1, OnTop
      <4> QED
        BY <1>1, <4>1
    <3> QED
      BY <1>1, <1>3, <3>1, AllBehind
  <2>2. /\ Owns(dt) \in Seq(Nat) /\ Owns(dt)[x] = NodeSize + SumOver(s)
        /\ x \in 1 .. Len(Owns(dt))
    BY <1>2, <1>4, OwnsType
  <2>3. Part(Owns(dt), V \cup {x}) = Part(Owns(dt), V) + (NodeSize + SumOver(s))
    BY <1>4, <2>2, PartOfMore
  <2>4. Part(s, 1 .. (1 - 1)) = 0
    <3>1. 1 .. (1 - 1) = {}
      OBVIOUS
    <3> QED
      BY <1>8, <3>1, PartOfNone
  <2>5. (pos + NodeSize) + SumOver(s)
          = Part(Owns(dt), V \cup {x}) + Part(s, 1 .. (1 - 1))
    <3> DEFINE a == SumOver(s)
               b == Part(Owns(dt), V \cup {x})
               c == Part(s, 1 .. (1 - 1))
    <3>1. /\ a \in Nat /\ c = 0 /\ b = pos + (NodeSize + a)
      BY <1>8, <2>1, <2>3, <2>4
    <3> HIDE DEF a, b, c
    <3>2. (pos + NodeSize) + a = b + c
      BY <1>2, <3>1, PropertySizeType
    <3> QED
      BY <3>2 DEF a, b, c
  <2>6. Sizes(TopNode)' = s /\ (Top.prop)' = 1
    BY <1>1, <1>6, <1>9 DEF TopNode, Sizes
  <2>7. Part(Owns(dt), V \cup {x})' = Part(Owns(dt), V \cup {x})
    BY <1>1
  <2> QED
    BY <1>1, <1>5, <2>5, <2>6, <2>7 DEF Reached
<1>11. Behind'
  <2>1. Behind
    BY <1>1 DEF TreeInv, Flattening
  <2>2. ASSUME NEW i \in DOMAIN stack' PROVE stack'[i].at + NodeSize <= pos'
    <3>1. CASE i = n + 1
      <4>1. stack'[i].at = pos
        BY <1>5, <1>6, <3>1
      <4> QED
        BY <1>1, <1>2, <4>1, PropertySizeType
    <3>2. CASE i # n + 1
      <4>1. i \in DOMAIN stack
        BY <1>2, <1>5, <3>2
      <4>2. stack'[i].at = stack[i].at
        BY <1>2, <1>5, <1>6, <3>2
      <4>3. stack[i].at + NodeSize <= pos /\ stack[i].at \in Nat
        BY <1>2, <2>1, <4>1 DEF Behind, Frames
      <4> QED
        BY <1>2, <1>7, <4>2, <4>3, PropertySizeType
    <3> QED
      BY <3>1, <3>2
  <2>3. ASSUME NamesFit, NEW y \in DOMAIN buffer' PROVE y < pos'
    <3>1. y \in Nat /\ y < pos
      BY <1>1, <2>1, <2>3 DEF Behind, TreeInv, TypeOK
    <3> QED
      BY <1>2, <1>7, <3>1
  <2> QED
    BY <2>2, <2>3 DEF Behind, NamesFit
<1>12. TypeOK'
  BY <1>1, <1>5, <1>7 DEF TreeInv, TypeOK, Frames
<1>13. V \cup {x} \in SUBSET DOMAIN dt.nodes
  BY <1>4
<1>14. Walked'
  BY <1>1, <1>4, <1>10, <1>13 DEF Walked
<1> QED
  BY <1>1, <1>5, <1>11, <1>12, <1>14 DEF TreeInv, Flattening, TotalSize

LEMMA EndChildrenKeeps ==
  ASSUME TreeInv, EndChildren
  PROVE  TreeInv'
<1> DEFINE n == Len(stack)
           cell == Cell("nChildren", Top.child - 1, 0)
<1>1. /\ pc = "flatten" /\ dt' = dt /\ length' = length /\ pos' = pos
      /\ Top.child > Len(TopNode.children)
      /\ stack' = SubSeq(stack, 1, n - 1)
      /\ pc' = IF n = 1 THEN "done" ELSE "flatten"
      /\ buffer' = Put(buffer, Top.at + 1, cell)
  BY DEF EndChildren
<1>2. /\ stack \in Seq(Frames) /\ n \in Nat /\ n >= 1 /\ DOMAIN stack = 1 .. n
      /\ pos \in Nat /\ dt \in Trees /\ Top \in Frames /\ n \in DOMAIN stack
      /\ Top = stack[n] /\ stack # <<>>
      /\ \A i \in DOMAIN stack : stack[i] \in Frames
      /\ DOMAIN dt.nodes = 1 .. Len(dt.nodes)
      /\ Kids(dt, Top.node) = TopNode.children
      /\ DOMAIN TopNode.children = 1 .. Len(TopNode.children)
      /\ Len(TopNode.children) \in Nat
  BY <1>1, OnTop DEF Top
<1>3. PICK V \in SUBSET DOMAIN dt.nodes : Visited(V) /\ Reached(V)
  BY <1>1 DEF TreeInv, Flattening, Walked
<1>4. FrameOK(Top, V) /\ Top.child \in Nat /\ Top.at \in Nat
  BY <1>2, <1>3 DEF Visited, Frames
<1>5. Top.child # 0 /\ Top.child - 1 \in Nat /\ Top.at + 1 \in Nat
  BY <1>1, <1>2, <1>4
<1>6. \A k \in DOMAIN Kids(dt, Top.node) : Kids(dt, Top.node)[k] \in V
  <2>1. \A k \in DOMAIN Kids(dt, Top.node) : k < Top.child
    BY <1>1, <1>2, <1>4
  <2> QED
    BY <1>4, <2>1 DEF FrameOK
<1>7. pos = Part(Owns(dt), V)
  BY <1>1, <1>3, <1>5, AllBehind
<1>8. cell \in Word
  BY <1>5 DEF Cell, Word, Kind
<1> HIDE DEF cell
<1>9. /\ stack' \in Seq(Frames) /\ Len(stack') = n - 1 /\ n - 1 \in Nat
      /\ DOMAIN stack' = 1 .. (n - 1)
      /\ \A i \in 1 .. (n - 1) : stack'[i] = stack[i]
      /\ \A i \in 1 .. (n - 1) : i \in DOMAIN stack /\ i # n
      /\ n - 1 # n
  <2> HIDE DEF n
  <2>1. /\ n - 1 \in Nat /\ n \notin 1 .. (n - 1) /\ n - 1 # n
        /\ (n - 1) - 1 + 1 = n - 1
        /\ (IF 1 <= n - 1 THEN (n - 1) - 1 + 1 ELSE 0) = n - 1
        /\ \A i \in 1 .. (n - 1) : i \in 1 .. n /\ i # n /\ 1 + i - 1 = i
    BY <1>2
  <2>2. /\ stack' \in Seq(Frames) /\ Len(stack') = n - 1
        /\ \A i \in 1 .. (n - 1) : stack'[i] = stack[i]
    <3>1. stack' = SubSeq(stack, 1, n - 1)
      BY <1>1
    <3>2. \A i \in 1 .. (n - 1) : stack[i] \in Frames
      BY <1>2, <2>1
    <3>3. /\ stack' \in Seq(Frames)
          /\ Len(stack') = IF 1 <= n - 1 THEN (n - 1) - 1 + 1 ELSE 0
          /\ \A i \in 1 .. ((n - 1) - 1 + 1) : stack'[i] = stack[1 + i - 1]
      BY <2>1, <3>1, <3>2, SubSeqProperties
    <3> QED
      BY <2>1, <3>3
  <2>3. DOMAIN stack' = 1 .. (n - 1)
    BY <2>2, LenProperties
  <2> QED
    BY <1>2, <2>1, <2>2, <2>3
<1> HIDE DEF n
<1>10. \A p : Kids(dt, p)' = Kids(dt, p)
  BY <1>1 DEF Kids
<1>11. Visited(V)'
  <2>1. ASSUME NEW i \in DOMAIN stack'
        PROVE  FrameOK(stack[i], V)' /\ (i # Len(stack) => stack[i].child # 0)'
    <3>1. i \in DOMAIN stack /\ i # n /\ stack'[i] = stack[i]
      BY <1>9
    <3>2. FrameOK(stack[i], V) /\ stack[i].child # 0
      BY <1>3, <3>1 DEF Visited, n
    <3>3. FrameOK(stack'[i], V) /\ stack'[i].child # 0
      BY <3>1, <3>2
    <3> QED
      BY <1>1, <3>3 DEF FrameOK, Kids
  <2>2. \A i, j \in DOMAIN stack' : stack'[i].node = stack'[j].node => i = j
    BY <1>3, <1>9 DEF Visited
  <2>3. ASSUME NEW p \in V
        PROVE  \/ \E i \in DOMAIN stack' : stack'[i].node = p
               \/ \A k \in DOMAIN Kids(dt, p) : Kids(dt, p)[k] \in V
    <3>1. CASE p = Top.node
      BY <1>6, <3>1
    <3>2. CASE p # Top.node
      <4>1. CASE \E i \in DOMAIN stack : stack[i].node = p
        <5>1. PICK i \in DOMAIN stack : stack[i].node = p
          BY <4>1
        <5>2. i \in 1 .. (n - 1)
          BY <1>2, <3>2, <5>1
        <5> QED
          BY <1>9, <5>1, <5>2
      <4>2. CASE ~\E i \in DOMAIN stack : stack[i].node = p
        BY <1>3, <4>2 DEF Visited
      <4> QED
        BY <4>1, <4>2
    <3> QED
      BY <3>1, <3>2
  <2>4. /\ V \subseteq DOMAIN dt.nodes /\ 1 \in V
        /\ \A p \in DOMAIN dt.nodes : \A k \in DOMAIN Kids(dt, p) :
              Kids(dt, p)[k] \in V => p \in V
    BY <1>3 DEF Visited
  <2> QED
    BY <1>1, <1>10, <2>1, <2>2, <2>3, <2>4 DEF Visited
<1>12. Reached(V)'
  <2>1. CASE stack' = <<>>
    BY <1>1, <1>7, <2>1 DEF Reached
  <2>2. CASE stack' # <<>>
    <3> DEFINE t == stack[n - 1]
               m == dt.nodes[t.node]
               s == Sizes(m)
    <3>1. n - 1 \in 1 .. (n - 1)
      <4>1. Len(stack') # 0
        BY <1>9, <2>2, EmptySeq
      <4>2. \A m0 : m0 \in Nat /\ m0 # 0 => m0 \in 1 .. m0
        OBVIOUS
      <4> QED
        BY <1>9, <4>1, <4>2
    <3>2. FrameOK(t, V) /\ t.child # 0
      BY <1>3, <1>9, <3>1 DEF Visited, n
    <3>3. t.prop = Len(m.properties) + 1 /\ t.node \in DOMAIN dt.nodes
      BY <3>2 DEF FrameOK
    <3>4. /\ s \in Seq(Nat) /\ Len(s) = Len(m.properties) /\ SumOver(s) \in Nat
          /\ Len(m.properties) \in Nat
      BY <1>2, <3>3, NodeType, SizesType
    <3>5. Top' = t
      BY <1>9, <3>1 DEF Top
    <3>6. Sizes(TopNode)' = s
      BY <1>1, <3>5 DEF TopNode, Sizes
    <3> HIDE DEF s, m
    <3>7. 1 .. (t.prop - 1) = 1 .. Len(s)
      BY <3>3, <3>4
    <3>8. Part(s, 1 .. (t.prop - 1)) = SumOver(s)
      BY <3>4, <3>7, PartOfAll
    <3>9. Part(Owns(dt), V)' = Part(Owns(dt), V)
      BY <1>1
    <3> QED
      BY <1>1, <1>7, <2>2, <3>5, <3>6, <3>8, <3>9 DEF Reached
  <2> QED
    BY <2>1, <2>2
<1>13. Behind'
  <2>1. Behind
    BY <1>1 DEF TreeInv, Flattening
  <2>2. \A i \in DOMAIN stack' : stack'[i].at + NodeSize <= pos'
    BY <1>1, <1>9, <2>1 DEF Behind
  <2>3. ASSUME NamesFit, NEW x \in DOMAIN buffer' PROVE x < pos'
    <3>1. x \in DOMAIN buffer \/ x = Top.at + 1
      <4>1. DOMAIN buffer' = DOMAIN buffer \cup {Top.at + 1}
        BY <1>1 DEF Put
      <4> QED
        BY <4>1
    <3>2. Top.at + 1 < pos
      <4>1. Top.at + NodeSize <= pos
        BY <1>2, <2>1 DEF Behind
      <4> QED
        BY <1>2, <1>4, <4>1, PropertySizeType
    <3> QED
      BY <1>1, <2>1, <2>3, <3>1, <3>2 DEF Behind
  <2> QED
    BY <2>2, <2>3 DEF Behind, NamesFit
<1>14. TypeOK'
  <2>1. /\ DOMAIN buffer \subseteq Nat /\ buffer \in [DOMAIN buffer -> Word]
    BY DEF TreeInv, TypeOK
  <2>2. DOMAIN buffer' \subseteq Nat /\ buffer' \in [DOMAIN buffer' -> Word]
    BY <1>1, <1>5, <1>8, <2>1, PutType
  <2> QED
    BY <1>1, <1>9, <2>2 DEF TreeInv, TypeOK, Frames
<1>15. pc' = "done" <=> stack' = <<>>
  <2>1. n = 1 <=> Len(stack') = 0
    BY <1>2, <1>9
  <2>2. Len(stack') = 0 <=> stack' = <<>>
    BY <1>9, EmptySeq
  <2> QED
    BY <1>1, <2>1, <2>2
<1>16. Walked'
  BY <1>1, <1>3, <1>11, <1>12 DEF Walked
<1> QED
  BY <1>1, <1>13, <1>14, <1>15, <1>16 DEF TreeInv, Flattening, TotalSize

LEMMA StartFlattenKeeps ==
  ASSUME TreeInv, StartFlatten
  PROVE  TreeInv'
<1>1. /\ pc = "build" /\ pc' = "flatten" /\ length' = TotalSize(dt)
      /\ stack' = <<Frame(dt.rootNode, 0)>> /\ pos' = NodeSize
      /\ dt' = dt /\ buffer' = buffer
  BY DEF StartFlatten
<1>2. /\ Kept(dt) /\ Linked(dt) /\ dt \in Trees /\ buffer = <<>>
      /\ dt.rootNode = 1 /\ 1 \in DOMAIN dt.nodes
  BY <1>1 DEF TreeInv, Flattening, Kept, Linked
<1> DEFINE g == Frame(1, 0)
           s == Sizes(dt.nodes[1])
<1>3. g \in Frames /\ g.node = 1 /\ g.at = 0 /\ g.prop = 1 /\ g.child = 0
  BY DEF Frame, Frames
<1> HIDE DEF g
<1>4. /\ stack' = <<g>> /\ stack' \in Seq(Frames) /\ stack' # <<>>
      /\ DOMAIN stack' = {1} /\ stack'[1] = g /\ Len(stack') = 1
  BY <1>1, <1>2, <1>3 DEF g
<1>5. /\ dt.nodes[1] \in Node /\ Kids(dt, 1) \in Seq(Nat)
      /\ DOMAIN dt.nodes = 1 .. Len(dt.nodes) /\ Len(dt.nodes) \in Nat
  BY <1>2, NodeType DEF Kids
<1>6. /\ s \in Seq(Nat) /\ SumOver(s) \in Nat
      /\ Len(dt.nodes[1].properties) \in Nat
      /\ DOMAIN Kids(dt, 1) = 1 .. Len(Kids(dt, 1)) /\ Len(Kids(dt, 1)) \in Nat
  BY <1>5, SizesType, LenProperties
<1>7. \A p : Kids(dt, p)' = Kids(dt, p)
  BY <1>1 DEF Kids
<1>8. \A p \in DOMAIN dt.nodes : \A k \in DOMAIN Kids(dt, p) :
         Kids(dt, p)[k] # 1
  <2> SUFFICES ASSUME NEW p \in DOMAIN dt.nodes, NEW k \in DOMAIN Kids(dt, p)
               PROVE  Kids(dt, p)[k] # 1
    OBVIOUS
  <2>1. Kids(dt, p)[k] \in (p + 1) .. Len(dt.nodes)
    BY <1>2 DEF Linked
  <2> QED
    BY <1>5, <2>1
<1>9. Visited({1})'
  <2>1. FrameOK(g, {1})
    <3>1. \A k \in DOMAIN Kids(dt, 1) : Kids(dt, 1)[k] # 1 /\ ~(k < 0)
      BY <1>2, <1>6, <1>8
    <3>2. \A m \in Nat : 1 \in 1 .. (m + 1) /\ 0 \in 0 .. (m + 1)
      OBVIOUS
    <3> QED
      BY <1>3, <1>6, <3>1, <3>2 DEF FrameOK
  <2>2. FrameOK(stack'[1], {1})
    BY <1>4, <2>1
  <2>3. FrameOK(stack[1], {1})'
    BY <1>1, <2>2 DEF FrameOK, Kids
  <2>4. {1} \subseteq DOMAIN dt.nodes
    BY <1>2
  <2> QED
    BY <1>1, <1>3, <1>4, <1>7, <1>8, <2>3, <2>4 DEF Visited
<1>10. Reached({1})'
  <2>1. /\ Owns(dt) \in Seq(Nat) /\ Owns(dt)[1] = NodeSize + SumOver(s)
        /\ 1 \in 1 .. Len(Owns(dt))
    BY <1>2, <1>5, OwnsType
  <2>2. Part(Owns(dt), {} \cup {1}) = Part(Owns(dt), {}) + Owns(dt)[1]
    BY <2>1, PartOfMore
  <2>3. {} \cup {1} = {1}
    OBVIOUS
  <2>4. Part(Owns(dt), {1}) = 0 + (NodeSize + SumOver(s))
    BY <2>1, <2>2, <2>3, PartOfNone
  <2>5. Part(s, 1 .. (1 - 1)) = 0
    <3>1. 1 .. (1 - 1) = {}
      OBVIOUS
    <3> QED
      BY <1>6, <3>1, PartOfNone
  <2>6. NodeSize + SumOver(s) = Part(Owns(dt), {1}) + Part(s, 1 .. (1 - 1))
    <3> DEFINE a == SumOver(s)
               b == Part(Owns(dt), {1})
               c == Part(s, 1 .. (1 - 1))
    <3>1. a \in Nat /\ b = 0 + (NodeSize + a) /\ c = 0
      BY <1>6, <2>4, <2>5
    <3> HIDE DEF a, b, c
    <3>2. NodeSize + a = b + c
      BY <3>1, PropertySizeType
    <3> QED
      BY <3>2 DEF a, b, c
  <2>7. Top' = g
    BY <1>4 DEF Top
  <2>8. Sizes(TopNode)' = s /\ (Top.prop)' = 1
    BY <1>1, <1>3, <2>7 DEF TopNode, Sizes
  <2>9. Part(Owns(dt), {1})' = Part(Owns(dt), {1})
    BY <1>1
  <2> QED
    BY <1>1, <1>4, <2>6, <2>8, <2>9 DEF Reached
<1>11. Behind'
  BY <1>1, <1>2, <1>3, <1>4, PropertySizeType DEF Behind
<1>12. TypeOK'
  <2>1. TotalSize(dt) \in Nat
    BY <1>2, MeasuredIs, OwnsType, SumType
  <2> QED
    BY <1>1, <1>4, <2>1, PropertySizeType DEF TreeInv, TypeOK, Frames
<1>13. Walked'
  <2>1. {1} \in SUBSET DOMAIN dt.nodes
    BY <1>2
  <2> QED
    BY <1>1, <1>9, <1>10, <2>1 DEF Walked
<1> QED
  BY <1>1, <1>2, <1>4, <1>11, <1>12, <1>13 DEF TreeInv, Flattening, TotalSize

-----------------------------------------------------------------------------
(* The steps of a client.                                                  *)

\* A step that leaves a tree as it is built, before anything is flattened.
LEMMA BuildingKeeps ==
  ASSUME TreeInv, pc \notin {"flatten", "done"}, Kept(dt'), UnchangedFlat,
         pc' \in {"build", "halted", "stage2", "enter"}
  PROVE  TreeInv'
<1>1. /\ stack' = stack /\ buffer' = buffer /\ pos' = pos /\ length' = length
  BY DEF UnchangedFlat
<1>2. stack = <<>> /\ buffer = <<>> /\ pos = 0 /\ length = 0
  BY DEF TreeInv, Flattening
<1>3. dt' \in Trees
  BY DEF Kept
<1>4. TypeOK'
  BY <1>1, <1>3 DEF TreeInv, TypeOK
<1>5. Counted(dt)'
  BY CountsFollow
<1>6. Kept(dt)'
  OBVIOUS
<1> QED
  BY <1>1, <1>2, <1>4, <1>5, <1>6 DEF TreeInv, Flattening

LEMMA InitHolds == Init => TreeInv
<1> SUFFICES ASSUME Init PROVE TreeInv
  OBVIOUS
<1>1. PICK room \in Rooms : dt = EmptyTree(room)
  BY DEF Init
<1>2. room \in Nat /\ dt \in Trees
  BY <1>1, EmptyTreeKept, TreeAssumption
<1>3. TypeOK
  <2>1. DOMAIN buffer \subseteq Nat /\ buffer \in [DOMAIN buffer -> Word]
    BY DEF Init
  <2> QED
    BY <1>2, <2>1 DEF Init, TypeOK
<1> QED
  BY <1>1, <1>2, <1>3 DEF Init, TreeInv, Flattening

LEMMA InitializeKeeps ==
  ASSUME TreeInv, Initialize
  PROVE  TreeInv'
<1>1. /\ pc = "start" /\ dt' = WithNamed(dt, NULL, 1, 2, 1) /\ UnchangedFlat
      /\ pc' = IF dt'.rootNode = NULL THEN "halted" ELSE "build"
  BY DEF Initialize
<1>2. PICK room \in Nat : dt = EmptyTree(room)
  BY <1>1 DEF TreeInv
<1>3. \/ dt'.rootNode # NULL /\ Kept(dt')
      \/ dt'.rootNode = NULL /\ dt' = dt
  BY <1>1, <1>2, InitializeKept, TreeAssumption
<1>4. CASE dt'.rootNode # NULL /\ Kept(dt')
  BY <1>1, <1>4, BuildingKeeps
<1>5. CASE dt'.rootNode = NULL /\ dt' = dt
  <2>1. /\ stack' = stack /\ buffer' = buffer /\ pos' = pos
        /\ length' = length /\ pc' = "halted"
    BY <1>1, <1>5 DEF UnchangedFlat
  <2>2. Counted(dt)
    BY <1>2, EmptyTreeKept
  <2>3. Counted(dt)'
    BY <1>5, <2>2
  <2>4. TypeOK'
    BY <1>5, <2>1 DEF TreeInv, TypeOK
  <2>5. stack = <<>> /\ buffer = <<>> /\ pos = 0 /\ length = 0
    BY <1>1 DEF TreeInv, Flattening
  <2> QED
    BY <2>1, <2>3, <2>4, <2>5 DEF TreeInv, Flattening
<1> QED
  BY <1>3, <1>4, <1>5

LEMMA AddChildKeeps ==
  ASSUME TreeInv, NEW parent \in DOMAIN dt.nodes, NEW n \in {0} \cup Lengths,
         AddChild(parent, n)
  PROVE  TreeInv'
<1>1. /\ pc = "build" /\ pc' = pc /\ UnchangedFlat
      /\ dt' = IF n = 0 THEN WithChild(dt, parent)
               ELSE WithNamed(dt, parent, 1, n, dt.numProperties + 1)
  BY DEF AddChild
<1>2. Kept(dt) /\ n \in Nat /\ 1 \in Names
  BY <1>1, TreeAssumption DEF TreeInv
<1>3. dt.numProperties + 1 \in Nat
  <2>1. dt.numProperties \in Nat
    BY <1>2 DEF Kept, Trees
  <2> QED
    BY <2>1
<1>4. Kept(dt')
  <2>1. CASE n = 0
    BY <1>1, <1>2, <2>1, ChildKept
  <2>2. CASE n # 0
    BY <1>1, <1>2, <1>3, <2>2, NamedKept
  <2> QED
    BY <2>1, <2>2
<1> QED
  BY <1>1, <1>4, BuildingKeeps

LEMMA AddPropertyKeeps ==
  ASSUME TreeInv, NEW node \in DOMAIN dt.nodes, NEW name \in Names,
         NEW n \in Lengths, AddProperty(node, name, n)
  PROVE  TreeInv'
<1>1. /\ pc = "build" /\ pc' = pc /\ UnchangedFlat
      /\ dt' = WithProperty(dt, node, name, n, dt.numProperties + 1)
  BY DEF AddProperty
<1>2. Kept(dt) /\ n \in Nat
  BY <1>1, TreeAssumption DEF TreeInv
<1>3. dt.numProperties + 1 \in Nat
  <2>1. dt.numProperties \in Nat
    BY <1>2 DEF Kept, Trees
  <2> QED
    BY <2>1
<1>4. Kept(dt')
  BY <1>1, <1>2, <1>3, PropertyKept
<1> QED
  BY <1>1, <1>4, BuildingKeeps

LEMMA StutterKeeps ==
  ASSUME TreeInv, UNCHANGED vars
  PROVE  TreeInv'
  BY DEF vars, TreeInv, TypeOK, Flattening, Walked, Visited, Reached, Behind,
         FrameOK, Kids, Top, TopNode, TotalSize

LEMMA NextKeeps == TreeInv /\ [Next]_vars => TreeInv'
<1> SUFFICES ASSUME TreeInv, [Next]_vars PROVE TreeInv'
  OBVIOUS
<1>1. CASE Next
  BY <1>1, InitializeKeeps, AddChildKeeps, AddPropertyKeeps, StartFlattenKeeps,
     FlattenPropertyKeeps, EndPropertiesKeeps, FlattenChildKeeps,
     EndChildrenKeeps DEF Next
<1>2. CASE UNCHANGED vars
  BY <1>2, StutterKeeps
<1> QED
  BY <1>1, <1>2

LEMMA SpecKeeps == Spec => []TreeInv
  BY InitHolds, NextKeeps, PTL DEF Spec

-----------------------------------------------------------------------------
(* What the invariant gives.                                               *)

\* When the stack is empty, the walk has been everywhere: a first node it had
\* not come to would be the child of one that it has come to, and left.
LEMMA AllVisited ==
  ASSUME dt \in Trees, Linked(dt), stack = <<>>,
         NEW V \in SUBSET DOMAIN dt.nodes, Visited(V)
  PROVE  V = DOMAIN dt.nodes
<1> SUFFICES ASSUME NEW some \in DOMAIN dt.nodes \ V PROVE FALSE
  OBVIOUS
<1> DEFINE S == DOMAIN dt.nodes \ V
<1>1. /\ Len(dt.nodes) \in Nat /\ DOMAIN dt.nodes = 1 .. Len(dt.nodes)
  BY NodeType
<1>2. S \in SUBSET Nat /\ S # {}
  BY <1>1
<1>3. PICK i \in S : \A j \in S : i <= j
  <2> HIDE DEF S
  <2> QED
    BY <1>2, Least
<1>4. 1 \in V /\ \A p \in V : \A k \in DOMAIN Kids(dt, p) : Kids(dt, p)[k] \in V
  <2>1. DOMAIN stack = {}
    OBVIOUS
  <2> QED
    BY <2>1 DEF Visited
<1>5. i \in DOMAIN dt.nodes /\ i # 1 /\ i \notin V
  BY <1>3, <1>4
<1>6. PICK p \in DOMAIN dt.nodes : \E k \in DOMAIN Kids(dt, p) : Kids(dt, p)[k] = i
  BY <1>5 DEF Linked
<1>7. PICK k \in DOMAIN Kids(dt, p) : Kids(dt, p)[k] = i
  BY <1>6
<1>8. i \in (p + 1) .. Len(dt.nodes)
  BY <1>7 DEF Linked
<1>9. p < i
  BY <1>1, <1>5, <1>8
<1>10. p \in S
  BY <1>4, <1>5, <1>7
<1>11. i <= p
  BY <1>3, <1>10
<1> QED
  BY <1>1, <1>5, <1>9, <1>11

\* The walk has not come further than to the sum of what the nodes take, which
\* is what was measured; at its end it has come to that.
LEMMA FitsFollows ==
  ASSUME TreeInv
  PROVE  FitsMeasured
<1> SUFFICES ASSUME Flattening PROVE FitsMeasured
  BY DEF FitsMeasured, StaysInside, MeasuredIsWritten, Flattening
<1>1. /\ Kept(dt) /\ dt \in Trees /\ Linked(dt) /\ length = TotalSize(dt)
      /\ pc = "done" <=> stack = <<>>
      /\ Behind /\ pos \in Nat
  BY DEF TreeInv, TypeOK, Flattening, Kept
<1>2. PICK V \in SUBSET DOMAIN dt.nodes : Visited(V) /\ Reached(V)
  BY DEF TreeInv, Walked
<1>3. /\ Owns(dt) \in Seq(Nat) /\ length = SumOver(Owns(dt))
      /\ Len(Owns(dt)) = Len(dt.nodes)
  BY <1>1, MeasuredIs, OwnsType
<1>4. length \in Nat /\ Part(Owns(dt), V) \in Nat /\ Part(Owns(dt), V) <= length
  BY <1>3, PartType, SumType
<1>5. pos <= length
  <2>1. CASE stack = <<>>
    BY <1>2, <1>4, <2>1 DEF Reached
  <2>2. CASE stack # <<>>
    <3> DEFINE s == Sizes(TopNode)
               a == SumOver(s)
               b == Part(s, 1 .. (Top.prop - 1))
               c == Part(Owns(dt), V)
    <3>1. pc = "flatten"
      BY <1>1, <2>2 DEF Flattening
    <3>2. TopNode \in Node
      BY <3>1, OnTop
    <3>3. s \in Seq(Nat)
      BY <3>2, SizesType
    <3>4. a \in Nat /\ b \in Nat /\ b <= a
      <4> HIDE DEF s
      <4> QED
        BY <3>3, SumType, PartType
    <3>5. pos + a = c + b
      BY <1>2, <2>2 DEF Reached
    <3>6. c \in Nat /\ c <= length
      BY <1>4
    <3> HIDE DEF a, b, c
    <3> QED
      BY <1>1, <1>4, <3>4, <3>5, <3>6
  <2> QED
    BY <2>1, <2>2
<1>6. NamesFit => \A x \in DOMAIN buffer : x < length
  <2>1. DOMAIN buffer \subseteq Nat
    BY DEF TreeInv, TypeOK
  <2>2. NamesFit => \A x \in DOMAIN buffer : x < pos
    BY <1>1 DEF Behind
  <2> QED
    BY <1>1, <1>4, <1>5, <2>1, <2>2
<1>7. ASSUME pc = "done" PROVE pos = length
  <2>1. stack = <<>>
    BY <1>1, <1>7
  <2>2. V = DOMAIN dt.nodes
    BY <1>1, <1>2, <2>1, AllVisited
  <2>3. 1 .. Len(Owns(dt)) \subseteq V
    BY <1>1, <1>3, <2>2, NodeType, LenProperties DEF Trees
  <2>4. Part(Owns(dt), V) = SumOver(Owns(dt))
    BY <1>3, <2>3, PartOfAll
  <2> QED
    BY <1>2, <1>3, <2>1, <2>4 DEF Reached
<1> QED
  BY <1>5, <1>6, <1>7 DEF FitsMeasured, StaysInside, MeasuredIsWritten

LEMMA CountsHoldFollows ==
  ASSUME TreeInv
  PROVE  CountsHold
<1>1. CASE pc = "start"
  BY <1>1, EmptyTreeKept DEF TreeInv, CountsHold
<1>2. CASE pc = "halted"
  BY <1>2 DEF TreeInv, CountsHold
<1>3. CASE pc \notin {"start", "halted"}
  BY <1>3, CountsFollow DEF TreeInv, CountsHold
<1> QED
  BY <1>1, <1>2, <1>3

-----------------------------------------------------------------------------
(* What is written stays as it is: each word is written once.              *)

Has(b, x, cell) == x \in DOMAIN b /\ b[x] = cell

Grows(b, c) == \A x \in DOMAIN b : x \in DOMAIN c /\ c[x] = b[x]

\* A property, from x on.
HasProperty(b, x, p) ==
    /\ \A k \in 0 .. (NameLen[p.name] - 1) : Has(b, x + k, Cell("name", p.name, k))
    /\ Has(b, x + NameWords, Cell("length", p.length, 0))
    /\ \A k \in 0 .. (RoundToLong(p.length) - 1) :
          Has(b, (x + PropertySize) + k, Cell("data", p.value, k))

LEMMA HasStays ==
  ASSUME NEW b, NEW c, Grows(b, c)
  PROVE  /\ \A x, cell : Has(b, x, cell) => Has(c, x, cell)
         /\ \A x, p : HasProperty(b, x, p) => HasProperty(c, x, p)
<1>1. \A x, cell : Has(b, x, cell) => Has(c, x, cell)
  BY DEF Has, Grows
<1>2. ASSUME NEW x, NEW p, HasProperty(b, x, p) PROVE HasProperty(c, x, p)
  BY <1>1, <1>2, Zenon DEF HasProperty
<1> QED
  BY <1>1, <1>2

LEMMA PutGrows ==
  ASSUME NEW b, NEW x, x \notin DOMAIN b, NEW cell
  PROVE  /\ Grows(b, Put(b, x, cell)) /\ Has(Put(b, x, cell), x, cell)
         /\ DOMAIN Put(b, x, cell) = DOMAIN b \cup {x}
  BY DEF Put, Grows, Has

\* Behind all that was written, with a name that fits, a property is written
\* whole.
LEMMA PropertyGrows ==
  ASSUME NamesFit, NEW b, NEW x \in Nat, DOMAIN b \subseteq Nat,
         \A y \in DOMAIN b : y < x, NEW p \in Property
  PROVE  /\ Grows(b, PropertyAt(b, x, p)) /\ HasProperty(PropertyAt(b, x, p), x, p)
         /\ \A y \in DOMAIN PropertyAt(b, x, p) : y \in DOMAIN b \/ y >= x
<1> DEFINE c == PropertyAt(b, x, p)
           l == NameLen[p.name]
           r == RoundToLong(p.length)
           name == x .. (x + l - 1)
           data == (x + PropertySize) .. (x + PropertySize + r - 1)
<1>1. /\ p.name \in Names /\ p.length \in Nat /\ r \in Nat
      /\ l \in Nat /\ l <= NameWords /\ NameWords \in Nat
      /\ PropertySize = NameWords + 1
  BY TreeAssumption, RoundType DEF Property, PropertySize, NamesFit
<1>2. DOMAIN c = DOMAIN b \cup name \cup {x + NameWords} \cup data
  BY DEF PropertyAt
<1>3. \A y \in DOMAIN c :
         c[y] = IF y \in data THEN Cell("data", p.value, y - (x + PropertySize))
                ELSE IF y = x + NameWords THEN Cell("length", p.length, 0)
                ELSE IF y \in name THEN Cell("name", p.name, y - x)
                ELSE b[y]
  BY DEF PropertyAt
<1> HIDE DEF c, l, r
<1>4. \A y \in DOMAIN b : y \in Nat /\ y < x
  OBVIOUS
<1>5. Grows(b, c)
  <2>1. ASSUME NEW y \in DOMAIN b PROVE y \in DOMAIN c /\ c[y] = b[y]
    <3>1. y \notin data /\ y # x + NameWords /\ y \notin name
      BY <1>1, <1>4
    <3> QED
      BY <1>2, <1>3, <3>1
  <2> QED
    BY <2>1 DEF Grows
<1>6. ASSUME NEW k \in 0 .. (l - 1) PROVE Has(c, x + k, Cell("name", p.name, k))
  <2>1. x + k \in name /\ x + k \notin data /\ x + k # x + NameWords /\ (x + k) - x = k
    BY <1>1
  <2> QED
    BY <1>2, <1>3, <2>1 DEF Has
<1>7. Has(c, x + NameWords, Cell("length", p.length, 0))
  <2>1. x + NameWords \notin data
    BY <1>1
  <2> QED
    BY <1>2, <1>3, <2>1 DEF Has
<1>8. ASSUME NEW k \in 0 .. (r - 1)
      PROVE  Has(c, (x + PropertySize) + k, Cell("data", p.value, k))
  <2>1. (x + PropertySize) + k \in data
        /\ ((x + PropertySize) + k) - (x + PropertySize) = k
    BY <1>1
  <2> QED
    BY <1>2, <1>3, <2>1 DEF Has
<1>9. HasProperty(c, x, p)
  BY <1>6, <1>7, <1>8 DEF HasProperty, l, r
<1>10. \A y \in DOMAIN c : y \in DOMAIN b \/ y >= x
  BY <1>1, <1>2
<1> QED
  BY <1>5, <1>9, <1>10 DEF c

-----------------------------------------------------------------------------
(* Where the walk has written what.                                        *)

Props(d, i) == d.nodes[i].properties

\* The first n properties of a node whose counts are at x: the next is to
\* start where the last ends.
PropsAt(d, b, i, x, ps, n) ==
    /\ ps \in [0 .. n -> Nat] /\ ps[0] = x + NodeSize
    /\ \A k \in 1 .. n :
          /\ HasProperty(b, ps[k - 1], Props(d, i)[k])
          /\ ps[k] = (ps[k - 1] + PropertySize) + RoundToLong(Props(d, i)[k].length)

\* And of its children, as far as Z says where nodes are.
KidsAt(d, Z, i, x, cs, n) ==
    /\ cs \in [0 .. n -> Nat] /\ cs[0] = x
    /\ \A k \in 1 .. n : <<cs[k - 1], Kids(d, i)[k], cs[k]>> \in Z

\* A node with all below it, from x to e.
Whole(d, Z, b, x, i, e) ==
    /\ Has(b, x, Cell("nProperties", Len(Props(d, i)), 0))
    /\ Has(b, x + 1, Cell("nChildren", Len(Kids(d, i)), 0))
    /\ \E ps, cs :
          /\ PropsAt(d, b, i, x, ps, Len(Props(d, i)))
          /\ KidsAt(d, Z, i, ps[Len(Props(d, i))], cs, Len(Kids(d, i)))
          /\ cs[Len(Kids(d, i))] = e

Places3(d) == {<<x, i, e>> : x \in Nat, i \in DOMAIN d.nodes, e \in Nat}

Supported(d, Z, b) ==
    /\ Z \subseteq Places3(d)
    /\ \A x, i, e : <<x, i, e>> \in Z => Whole(d, Z, b, x, i, e)

\* A node on the stack, of which m children are done with, as far as e.
FrameAt(d, Z, b, f, m, e) ==
    \E ps :
        /\ PropsAt(d, b, f.node, f.at, ps, f.prop - 1)
        /\ f.child = 0 => e = ps[f.prop - 1] /\ f.at \notin DOMAIN b
        /\ f.child # 0 =>
              /\ Has(b, f.at, Cell("nProperties", Len(Props(d, f.node)), 0))
              /\ \E cs : KidsAt(d, Z, f.node, ps[f.prop - 1], cs, m) /\ cs[m] = e

\* The node below is the last child that was turned to.
Descends(d, f, g) == f.child # 0 /\ f.child - 1 \in DOMAIN Kids(d, f.node)
                    /\ g.node = Kids(d, f.node)[f.child - 1]

\* Of a stack whose top has come as far as e.
Framed(d, Z, stk, b, e) ==
    /\ \A j \in DOMAIN stk : stk[j].at + 1 \notin DOMAIN b
    /\ \A j, k \in DOMAIN stk : j < k => stk[j].at + NodeSize <= stk[k].at
    /\ \A j \in 1 .. (Len(stk) - 1) :
          /\ FrameAt(d, Z, b, stk[j], stk[j].child - 2, stk[j + 1].at)
          /\ Descends(d, stk[j], stk[j + 1])
    /\ stk # <<>> =>
          /\ FrameAt(d, Z, b, stk[Len(stk)], stk[Len(stk)].child - 1, e)
          /\ stk[1].at = 0 /\ stk[1].node = d.rootNode

\* All of that, and when the walk is over, of the whole tree.
LaidOut(d, stk, b, e) ==
    \E Z : /\ Supported(d, Z, b) /\ Framed(d, Z, stk, b, e)
           /\ stk = <<>> => <<0, d.rootNode, e>> \in Z

Laid == NamesFit /\ Flattening => LaidOut(dt, stack, buffer, pos)

-----------------------------------------------------------------------------
(* It stays so.                                                            *)

LEMMA PropsAtStays ==
  ASSUME NEW d, NEW b, NEW c, Grows(b, c), NEW i, NEW x, NEW ps, NEW n, PropsAt(d, b, i, x, ps, n)
  PROVE  PropsAt(d, c, i, x, ps, n)
  BY HasStays DEF PropsAt

LEMMA KidsAtStays ==
  ASSUME NEW d, NEW Z, NEW Y, Z \subseteq Y, NEW i, NEW x, NEW cs, NEW n, KidsAt(d, Z, i, x, cs, n)
  PROVE  KidsAt(d, Y, i, x, cs, n)
  BY DEF KidsAt

LEMMA WholeStays ==
  ASSUME NEW d, NEW b, NEW c, Grows(b, c), NEW Z, NEW Y, Z \subseteq Y,
         NEW x, NEW i, NEW e, Whole(d, Z, b, x, i, e)
  PROVE  Whole(d, Y, c, x, i, e)
<1>1. /\ Has(c, x, Cell("nProperties", Len(Props(d, i)), 0))
      /\ Has(c, x + 1, Cell("nChildren", Len(Kids(d, i)), 0))
  BY HasStays DEF Whole
<1>2. PICK ps, cs : /\ PropsAt(d, b, i, x, ps, Len(Props(d, i)))
                    /\ KidsAt(d, Z, i, ps[Len(Props(d, i))], cs, Len(Kids(d, i)))
                    /\ cs[Len(Kids(d, i))] = e
  BY Zenon DEF Whole
<1>3. /\ PropsAt(d, c, i, x, ps, Len(Props(d, i)))
      /\ KidsAt(d, Y, i, ps[Len(Props(d, i))], cs, Len(Kids(d, i)))
  BY <1>2, PropsAtStays, KidsAtStays
<1> QED
  BY <1>1, <1>2, <1>3, Zenon DEF Whole

LEMMA SupportedStays ==
  ASSUME NEW d, NEW b, NEW c, Grows(b, c), NEW Z, Supported(d, Z, b)
  PROVE  Supported(d, Z, c)
<1>1. \A x, i, e : <<x, i, e>> \in Z => Whole(d, Z, b, x, i, e)
  BY DEF Supported
<1>2. \A x, i, e : Whole(d, Z, b, x, i, e) => Whole(d, Z, c, x, i, e)
  BY WholeStays
<1> QED
  BY <1>1, <1>2, Zenon DEF Supported

\* A node whose children's turn has come.
LEMMA FrameAtStays ==
  ASSUME NEW d, NEW b, NEW c, Grows(b, c), NEW Z, NEW Y, Z \subseteq Y,
         NEW f, f.child # 0, NEW m, NEW e, FrameAt(d, Z, b, f, m, e)
  PROVE  FrameAt(d, Y, c, f, m, e)
<1>1. PICK ps : /\ PropsAt(d, b, f.node, f.at, ps, f.prop - 1)
                /\ Has(b, f.at, Cell("nProperties", Len(Props(d, f.node)), 0))
                /\ \E cs : KidsAt(d, Z, f.node, ps[f.prop - 1], cs, m) /\ cs[m] = e
  BY Zenon DEF FrameAt
<1>2. PICK cs : KidsAt(d, Z, f.node, ps[f.prop - 1], cs, m) /\ cs[m] = e
  BY <1>1
<1>3. PropsAt(d, c, f.node, f.at, ps, f.prop - 1)
  BY <1>1, PropsAtStays
<1>4. Has(c, f.at, Cell("nProperties", Len(Props(d, f.node)), 0))
  BY <1>1, HasStays
<1>5. KidsAt(d, Y, f.node, ps[f.prop - 1], cs, m)
  BY <1>2, KidsAtStays
<1> QED
  BY <1>2, <1>3, <1>4, <1>5, Zenon DEF FrameAt

-----------------------------------------------------------------------------
(* The steps.                                                              *)

\* Counts that are still to be written are no part of what is.
LEMMA StartFlattenLays ==
  ASSUME TreeInv, StartFlatten
  PROVE  Laid'
<1>1. /\ dt' = dt /\ stack' = <<Frame(dt.rootNode, 0)>> /\ pos' = NodeSize
      /\ buffer' = buffer /\ pc = "build"
  BY DEF StartFlatten
<1>2. buffer = <<>>
  BY <1>1 DEF TreeInv, Flattening
<1> DEFINE d == dt
           f == Frame(d.rootNode, 0)
           stk == <<f>>
           b == <<>>
<1>3. /\ Len(stk) = 1 /\ stk[1] = f /\ DOMAIN stk = {1} /\ stk # <<>>
      /\ 1 .. (Len(stk) - 1) = {}
  OBVIOUS
<1>4. f.at = 0 /\ f.node = d.rootNode /\ f.prop = 1 /\ f.child = 0
  BY DEF Frame
<1>5. DOMAIN b = {}
  OBVIOUS
<1>6. FrameAt(d, {}, b, f, f.child - 1, NodeSize)
  <2> DEFINE ps == [k \in 0 .. 0 |-> NodeSize]
  <2>1. ps \in [0 .. 0 -> Nat] /\ ps[0] = NodeSize /\ 0 + NodeSize = NodeSize
    BY PropertySizeType
  <2>2. f.prop - 1 = 0 /\ 1 .. 0 = {}
    BY <1>4
  <2> HIDE DEF ps, f
  <2>3. PropsAt(d, b, f.node, f.at, ps, 0)
    BY <1>4, <2>1, <2>2 DEF PropsAt
  <2> QED
    BY <1>4, <1>5, <2>1, <2>2, <2>3 DEF FrameAt
<1>7. Supported(d, {}, b)
  BY DEF Supported
<1>8. Framed(d, {}, stk, b, NodeSize)
  <2> HIDE DEF f, b
  <2> QED
    BY <1>3, <1>4, <1>5, <1>6 DEF Framed
<1>9. LaidOut(d, stk, b, NodeSize)
  <2> HIDE DEF stk, b, d
  <2> QED
    BY <1>3, <1>7, <1>8 DEF LaidOut
<1>10. LaidOut(dt', stack', buffer', pos')
  BY <1>1, <1>2, <1>9, Zenon
<1> QED
  BY <1>10 DEF Laid

\* What is known when the walk goes on.
LEMMA LaidBefore ==
  ASSUME TreeInv, Laid, NamesFit, pc = "flatten"
  PROVE  /\ LaidOut(dt, stack, buffer, pos)
         /\ \A y \in DOMAIN buffer : y \in Nat /\ y < pos
         /\ \A j \in DOMAIN stack : stack[j].at + NodeSize <= pos
         /\ \A j \in DOMAIN stack : stack[j].at \in Nat
         /\ \A j \in DOMAIN stack :
               /\ stack[j].prop \in 1 .. (Len(Props(dt, stack[j].node)) + 1)
               /\ stack[j].child \in 0 .. (Len(Kids(dt, stack[j].node)) + 1)
               /\ stack[j].child # 0 =>
                     stack[j].prop = Len(Props(dt, stack[j].node)) + 1
               /\ stack[j].node \in DOMAIN dt.nodes
               /\ j # Len(stack) => stack[j].child # 0
<1>1. Flattening
  BY DEF Flattening
<1>2. Behind /\ DOMAIN buffer \subseteq Nat
  BY <1>1 DEF TreeInv, TypeOK
<1>3. PICK V \in SUBSET DOMAIN dt.nodes : Visited(V)
  BY <1>1 DEF TreeInv, Walked
<1>4. \A j \in DOMAIN stack : FrameOK(stack[j], V) /\ (j # Len(stack) => stack[j].child # 0)
  BY <1>3 DEF Visited
<1>5. \A j \in DOMAIN stack : stack[j] \in Frames
  BY OnTop
<1> QED
  BY <1>1, <1>2, <1>4, <1>5 DEF Laid, Behind, FrameOK, Props, Frames

LEMMA Below ==
  ASSUME NEW L \in Nat, NEW m \in Nat, m <= L, NEW j \in 1 .. (m - 1)
  PROVE  j \in 1 .. m /\ j # L /\ j \in 1 .. (L - 1) /\ j + 1 \in 1 .. m /\ j + 1 \in 1 .. L
  OBVIOUS

\* The frames below the top stay as they are while memory only grows where
\* they have written nothing.
LEMMA BelowStays ==
  ASSUME NEW d, NEW stk, NEW new, NEW b, NEW c, Grows(b, c), NEW Z, NEW Y, Z \subseteq Y,
         NEW e, Framed(d, Z, stk, b, e), NEW m \in Nat, m <= Len(stk), Len(stk) \in Nat,
         DOMAIN stk = 1 .. Len(stk),
         \A j \in 1 .. m : j # Len(stk) => new[j] = stk[j],
         \A j \in 1 .. m : new[j].at = stk[j].at /\ new[j].node = stk[j].node
  PROVE  \A j \in 1 .. (m - 1) :
            /\ FrameAt(d, Y, c, new[j], new[j].child - 2, new[j + 1].at)
            /\ Descends(d, new[j], new[j + 1])
<1> TAKE j \in 1 .. (m - 1)
<1> DEFINE f == stk[j]
           k == stk[j].child - 2
           a == stk[j + 1].at
<1>1. /\ j \in 1 .. m /\ j # Len(stk) /\ j \in 1 .. (Len(stk) - 1) /\ j + 1 \in 1 .. m
      /\ j + 1 \in 1 .. Len(stk)
  BY Below
<1>2. /\ new[j] = stk[j] /\ new[j + 1].at = stk[j + 1].at
      /\ new[j + 1].node = stk[j + 1].node
  BY <1>1
<1>3. /\ FrameAt(d, Z, b, stk[j], stk[j].child - 2, stk[j + 1].at)
      /\ Descends(d, stk[j], stk[j + 1])
  BY <1>1 DEF Framed
<1>4. stk[j].child # 0
  BY <1>3 DEF Descends
<1>5. FrameAt(d, Y, c, stk[j], stk[j].child - 2, stk[j + 1].at)
  <2>1. FrameAt(d, Z, b, f, k, a) /\ f.child # 0
    BY <1>3, <1>4
  <2> HIDE DEF f, k, a
  <2>2. FrameAt(d, Y, c, f, k, a)
    BY <2>1, FrameAtStays
  <2> QED
    BY <2>2 DEF f, k, a
<1>6. FrameAt(d, Y, c, new[j], new[j].child - 2, new[j + 1].at)
  BY <1>2, <1>5, Zenon
<1>7. Descends(d, new[j], new[j + 1])
  BY <1>2, <1>3, Zenon DEF Descends
<1> QED
  BY <1>6, <1>7

LEMMA FlattenPropertyLays ==
  ASSUME TreeInv, Laid, NamesFit, FlattenProperty
  PROVE  LaidOut(dt', stack', buffer', pos')
<1> DEFINE n == Len(stack)
           j == Top.prop
           p == TopNode.properties[j]
           f == [Top EXCEPT !.prop = @ + 1]
           c == PropertyAt(buffer, pos, p)
           r == RoundToLong(p.length)
           i == Top.node
<1>1. /\ pc = "flatten" /\ dt' = dt /\ buffer' = c
      /\ pos' = pos + PropertySize + r /\ j <= Len(TopNode.properties)
      /\ stack' = [stack EXCEPT ![n] = f]
  BY DEF FlattenProperty, Top
<1>2. /\ stack \in Seq(Frames) /\ stack # <<>> /\ n \in Nat /\ n >= 1 /\ n \in DOMAIN stack
      /\ DOMAIN stack = 1 .. n /\ Top \in Frames /\ dt \in Trees
      /\ i \in DOMAIN dt.nodes /\ TopNode \in Node /\ pos \in Nat
  BY <1>1, OnTop
<1>3. /\ LaidOut(dt, stack, buffer, pos)
      /\ \A y \in DOMAIN buffer : y \in Nat /\ y < pos
      /\ \A k \in DOMAIN stack : stack[k].at + NodeSize <= pos /\ stack[k].at \in Nat
      /\ j \in 1 .. (Len(Props(dt, i)) + 1)
      /\ Top.child # 0 => j = Len(Props(dt, i)) + 1
  BY <1>1, <1>2, LaidBefore DEF Top
<1>4. TopNode.properties = Props(dt, i) /\ TopNode.properties \in Seq(Property)
  BY <1>2 DEF TopNode, Props, Node
<1>5. Top.child = 0 /\ j \in 1 .. Len(TopNode.properties)
  <2>1. Len(TopNode.properties) \in Nat
    BY <1>4, LenProperties
  <2> QED
    BY <1>1, <1>3, <1>4, <2>1
<1>6. p \in Property /\ r \in Nat /\ PropertySize \in Nat /\ NodeSize = 2
  <2>1. p \in Property
    BY <1>4, <1>5, ElementOfSeq
  <2>2. p.length \in Nat
    BY <2>1 DEF Property
  <2> QED
    BY <2>1, <2>2, RoundType, PropertySizeType
<1>7. /\ Grows(buffer, c) /\ HasProperty(c, pos, p)
      /\ \A y \in DOMAIN c : y \in DOMAIN buffer \/ y >= pos
  <2>1. DOMAIN buffer \subseteq Nat
    BY <1>3
  <2> QED
    BY <1>2, <1>3, <1>6, <2>1, PropertyGrows
<1>8. /\ f \in Frames /\ f.node = i /\ f.child = 0 /\ f.prop = j + 1 /\ f.at = Top.at
  BY <1>2, <1>5, FrameTurns
<1> HIDE DEF f, c, r, p, i, n, j
<1>9. /\ stack' \in Seq(Frames) /\ Len(stack') = n /\ stack' # <<>>
      /\ DOMAIN stack' = 1 .. n /\ stack'[n] = f
      /\ \A k \in 1 .. n : stack'[k] = IF k = n THEN f ELSE stack[k]
  BY <1>1, <1>2, <1>8, TopReplaced DEF n
<1>10. Top = stack[n]
  BY DEF Top, n
<1>11. \A k \in 1 .. n : stack'[k].at = stack[k].at /\ stack'[k].node = stack[k].node
  BY <1>8, <1>9, <1>10 DEF i
<1>12. PICK Z : Supported(dt, Z, buffer) /\ Framed(dt, Z, stack, buffer, pos)
  BY <1>3 DEF LaidOut
<1>13. Supported(dt, Z, c)
  BY <1>7, <1>12, SupportedStays
<1>14. FrameAt(dt, Z, c, f, f.child - 1, pos')
  <2>1. FrameAt(dt, Z, buffer, Top, Top.child - 1, pos)
    BY <1>2, <1>10, <1>12 DEF Framed, n
  <2>2. PICK ps : /\ PropsAt(dt, buffer, i, Top.at, ps, j - 1)
                  /\ pos = ps[j - 1] /\ Top.at \notin DOMAIN buffer
    BY <1>5, <2>1 DEF FrameAt, i, j
  <2>3. PropsAt(dt, c, i, Top.at, ps, j - 1)
    BY <1>7, <2>2, PropsAtStays
  <2> DEFINE qs == [k \in 0 .. j |-> IF k = j THEN pos' ELSE ps[k]]
  <2>4. j \in Nat /\ j >= 1 /\ pos' \in Nat /\ pos' = (pos + PropertySize) + r
    BY <1>1, <1>2, <1>3, <1>5, <1>6
  <2>5. ps \in [0 .. (j - 1) -> Nat] /\ ps[0] = Top.at + NodeSize
    BY <2>3 DEF PropsAt
  <2>6. qs \in [0 .. j -> Nat] /\ qs[0] = Top.at + NodeSize
        /\ qs[j] = pos' /\ \A k \in 0 .. (j - 1) : qs[k] = ps[k]
    BY <2>4, <2>5
  <2> HIDE DEF qs
  <2>7. ASSUME NEW k \in 1 .. j
        PROVE  /\ HasProperty(c, qs[k - 1], Props(dt, i)[k])
               /\ qs[k] = (qs[k - 1] + PropertySize) + RoundToLong(Props(dt, i)[k].length)
    <3>1. CASE k = j
      <4>1. qs[k - 1] = pos /\ qs[k] = pos' /\ Props(dt, i)[k] = p
        BY <1>4, <2>2, <2>4, <2>6, <3>1 DEF p
      <4> QED
        BY <1>7, <2>4, <4>1 DEF r
    <3>2. CASE k # j
      <4>1. k \in 1 .. (j - 1) /\ k \in 0 .. (j - 1) /\ k - 1 \in 0 .. (j - 1)
        BY <2>4, <3>2
      <4>2. qs[k] = ps[k] /\ qs[k - 1] = ps[k - 1]
        BY <2>6, <4>1
      <4> QED
        BY <2>3, <4>1, <4>2 DEF PropsAt
    <3> QED
      BY <3>1, <3>2
  <2>8. PropsAt(dt, c, i, Top.at, qs, j)
    BY <2>6, <2>7 DEF PropsAt
  <2>9. Top.at \notin DOMAIN c
    <3>1. Top.at + NodeSize <= pos /\ Top.at \in Nat
      BY <1>2, <1>3, <1>10
    <3>2. Top.at < pos
      BY <1>2, <1>6, <3>1
    <3> QED
      BY <1>2, <1>7, <2>2, <3>1, <3>2
  <2>10. (j + 1) - 1 = j
    BY <2>4
  <2> QED
    BY <1>8, <2>6, <2>8, <2>9, <2>10 DEF FrameAt
<1>15. Framed(dt, Z, stack', c, pos')
  <2>1. ASSUME NEW k \in DOMAIN stack' PROVE stack'[k].at + 1 \notin DOMAIN c
    <3>1. k \in DOMAIN stack /\ stack'[k].at = stack[k].at
      BY <1>2, <1>9, <1>11
    <3>2. stack[k].at + NodeSize <= pos /\ stack[k].at \in Nat
      BY <1>3, <3>1
    <3>3. stack[k].at + 1 < pos
      BY <1>2, <1>6, <3>2
    <3>4. stack[k].at + 1 \notin DOMAIN buffer
      BY <1>12, <3>1 DEF Framed
    <3> QED
      BY <1>2, <1>7, <3>1, <3>2, <3>3, <3>4
  <2>2. \A k, l \in DOMAIN stack' : k < l => stack'[k].at + NodeSize <= stack'[l].at
    BY <1>2, <1>9, <1>11, <1>12 DEF Framed
  <2>3. \A k \in 1 .. (n - 1) :
           /\ FrameAt(dt, Z, c, stack'[k], stack'[k].child - 2, stack'[k + 1].at)
           /\ Descends(dt, stack'[k], stack'[k + 1])
    <3>1. Len(stack) = n /\ \A k \in 1 .. n : k # Len(stack) => stack'[k] = stack[k]
      BY <1>9 DEF n
    <3>2. n <= Len(stack)
      BY <1>2, <3>1
    <3> QED
      BY <1>2, <1>7, <1>11, <1>12, <3>1, <3>2, BelowStays
  <2>4. stack'[1].at = 0 /\ stack'[1].node = dt.rootNode
    BY <1>2, <1>11, <1>12 DEF Framed
  <2> QED
    BY <1>9, <1>14, <2>1, <2>2, <2>3, <2>4 DEF Framed
<1>16. LaidOut(dt, stack', c, pos')
  BY <1>9, <1>13, <1>15 DEF LaidOut
<1> QED
  BY <1>1, <1>16, Zenon

LEMMA EndPropertiesLays ==
  ASSUME TreeInv, Laid, NamesFit, EndProperties
  PROVE  LaidOut(dt', stack', buffer', pos')
<1> DEFINE n == Len(stack)
           i == Top.node
           f == [Top EXCEPT !.child = 1]
           cell == Cell("nProperties", Top.prop - 1, 0)
           c == Put(buffer, Top.at, cell)
<1>1. /\ pc = "flatten" /\ dt' = dt /\ buffer' = c /\ pos' = pos
      /\ Top.child = 0 /\ Top.prop > Len(TopNode.properties)
      /\ stack' = [stack EXCEPT ![n] = f]
  BY DEF EndProperties, Top
<1>2. /\ stack \in Seq(Frames) /\ stack # <<>> /\ n \in Nat /\ n >= 1 /\ n \in DOMAIN stack
      /\ DOMAIN stack = 1 .. n /\ Top \in Frames /\ dt \in Trees
      /\ i \in DOMAIN dt.nodes /\ TopNode \in Node /\ pos \in Nat
  BY <1>1, OnTop
<1>3. /\ LaidOut(dt, stack, buffer, pos)
      /\ \A k \in DOMAIN stack : stack[k].at \in Nat
      /\ Top.prop \in 1 .. (Len(Props(dt, i)) + 1)
  BY <1>1, <1>2, LaidBefore DEF Top
<1>4. TopNode.properties = Props(dt, i) /\ Len(TopNode.properties) \in Nat
  BY <1>2, LenProperties DEF TopNode, Props, Node
<1>5. Top.prop - 1 = Len(Props(dt, i))
  BY <1>1, <1>3, <1>4
<1>6. /\ f \in Frames /\ f.node = i /\ f.child = 1 /\ f.prop = Top.prop /\ f.at = Top.at
  BY <1>2, FrameTurns
<1> HIDE DEF f, c, cell, i, n
<1>7. /\ stack' \in Seq(Frames) /\ Len(stack') = n /\ stack' # <<>>
      /\ DOMAIN stack' = 1 .. n /\ stack'[n] = f
      /\ \A k \in 1 .. n : stack'[k] = IF k = n THEN f ELSE stack[k]
  BY <1>1, <1>2, <1>6, TopReplaced DEF n
<1>8. Top = stack[n]
  BY DEF Top, n
<1>9. \A k \in 1 .. n : stack'[k].at = stack[k].at /\ stack'[k].node = stack[k].node
  BY <1>6, <1>7, <1>8 DEF i
<1>10. PICK Z : Supported(dt, Z, buffer) /\ Framed(dt, Z, stack, buffer, pos)
  BY <1>3 DEF LaidOut
<1>11. FrameAt(dt, Z, buffer, Top, Top.child - 1, pos)
  BY <1>2, <1>8, <1>10 DEF Framed, n
<1>12. PICK ps : /\ PropsAt(dt, buffer, i, Top.at, ps, Top.prop - 1)
                 /\ pos = ps[Top.prop - 1] /\ Top.at \notin DOMAIN buffer
  BY <1>1, <1>11 DEF FrameAt, i
<1>13. /\ Grows(buffer, c) /\ Has(c, Top.at, cell)
       /\ DOMAIN c = DOMAIN buffer \cup {Top.at}
  BY <1>12, PutGrows DEF c
<1>14. Supported(dt, Z, c)
  BY <1>10, <1>13, SupportedStays
<1>15. FrameAt(dt, Z, c, f, f.child - 1, pos)
  <2>1. PropsAt(dt, c, i, Top.at, ps, Top.prop - 1)
    BY <1>12, <1>13, PropsAtStays
  <2>2. Has(c, Top.at, Cell("nProperties", Len(Props(dt, i)), 0))
    BY <1>5, <1>13 DEF cell
  <2> DEFINE cs == [k \in 0 .. 0 |-> pos]
  <2>3. cs \in [0 .. 0 -> Nat] /\ cs[0] = pos /\ 1 .. 0 = {} /\ f.child - 1 = 0
    BY <1>2, <1>6
  <2> HIDE DEF cs
  <2>4. KidsAt(dt, Z, i, pos, cs, 0)
    BY <2>3 DEF KidsAt
  <2>5. \E e : KidsAt(dt, Z, i, pos, e, f.child - 1) /\ e[f.child - 1] = pos
    BY <2>3, <2>4
  <2>6. f.child # 0
    BY <1>6
  <2> QED
    BY <1>6, <1>12, <2>1, <2>2, <2>5, <2>6 DEF FrameAt
<1>16. Framed(dt, Z, stack', c, pos)
  <2>1. ASSUME NEW k \in DOMAIN stack' PROVE stack'[k].at + 1 \notin DOMAIN c
    <3>1. k \in DOMAIN stack /\ stack'[k].at = stack[k].at
      BY <1>2, <1>7, <1>9
    <3>2. stack[k].at + 1 \notin DOMAIN buffer
      BY <1>10, <3>1 DEF Framed
    <3>3. stack[k].at + 1 # Top.at
      <4>1. stack[k].at \in Nat /\ Top.at \in Nat
        BY <1>2, <1>3, <1>8, <3>1
      <4>2. CASE k = n
        BY <1>8, <4>1, <4>2
      <4>3. CASE k # n
        <5>1. k < n
          BY <1>2, <3>1, <4>3
        <5>2. stack[k].at + NodeSize <= Top.at
          BY <1>2, <1>8, <1>10, <3>1, <5>1 DEF Framed
        <5> QED
          BY <4>1, <5>2, PropertySizeType
      <4> QED
        BY <4>2, <4>3
    <3> QED
      BY <1>13, <3>1, <3>2, <3>3
  <2>2. \A k, l \in DOMAIN stack' : k < l => stack'[k].at + NodeSize <= stack'[l].at
    BY <1>2, <1>7, <1>9, <1>10 DEF Framed
  <2>3. \A k \in 1 .. (n - 1) :
           /\ FrameAt(dt, Z, c, stack'[k], stack'[k].child - 2, stack'[k + 1].at)
           /\ Descends(dt, stack'[k], stack'[k + 1])
    <3>1. Len(stack) = n /\ \A k \in 1 .. n : k # Len(stack) => stack'[k] = stack[k]
      BY <1>7 DEF n
    <3>2. n <= Len(stack)
      BY <1>2, <3>1
    <3> QED
      BY <1>2, <1>9, <1>10, <1>13, <3>1, <3>2, BelowStays
  <2>4. stack'[1].at = 0 /\ stack'[1].node = dt.rootNode
    BY <1>2, <1>9, <1>10 DEF Framed
  <2> QED
    BY <1>7, <1>15, <2>1, <2>2, <2>3, <2>4 DEF Framed
<1>17. LaidOut(dt, stack', c, pos)
  BY <1>7, <1>14, <1>16 DEF LaidOut
<1> QED
  BY <1>1, <1>17, Zenon

LEMMA EndChildrenLays ==
  ASSUME TreeInv, Laid, NamesFit, EndChildren
  PROVE  LaidOut(dt', stack', buffer', pos')
<1> DEFINE n == Len(stack)
           i == Top.node
           x == Top.at
           cell == Cell("nChildren", Top.child - 1, 0)
           c == Put(buffer, x + 1, cell)
           props == Len(Props(dt, i))
           kids == Len(Kids(dt, i))
<1>1. /\ pc = "flatten" /\ dt' = dt /\ buffer' = c /\ pos' = pos
      /\ Top.child > Len(TopNode.children)
      /\ stack' = SubSeq(stack, 1, n - 1)
  BY DEF EndChildren
<1>2. /\ stack \in Seq(Frames) /\ stack # <<>> /\ n \in Nat /\ n >= 1 /\ n \in DOMAIN stack
      /\ DOMAIN stack = 1 .. n /\ Top \in Frames /\ dt \in Trees
      /\ i \in DOMAIN dt.nodes /\ TopNode \in Node /\ pos \in Nat
      /\ Kids(dt, i) = TopNode.children /\ kids \in Nat
  BY <1>1, OnTop
<1>3. /\ LaidOut(dt, stack, buffer, pos)
      /\ \A k \in DOMAIN stack : stack[k].at \in Nat
      /\ Top.prop \in 1 .. (props + 1) /\ Top.child \in 0 .. (kids + 1)
      /\ Top.child # 0 => Top.prop = props + 1
  BY <1>1, <1>2, LaidBefore DEF Top
<1>4. props \in Nat
  BY <1>2, LenProperties DEF TopNode, Props, Node
<1>5. /\ Top.child # 0 /\ Top.child - 1 = kids /\ Top.prop - 1 = props /\ x \in Nat
  <2> HIDE DEF props
  <2>1. Top.child > kids
    BY <1>1, <1>2
  <2>2. kids \in Nat /\ Top.child \in 0 .. (kids + 1)
    BY <1>2, <1>3
  <2>3. Top.at \in Nat
    BY <1>2 DEF Frames
  <2> HIDE DEF kids
  <2>4. Top.child # 0 /\ Top.child - 1 = kids
    BY <2>1, <2>2
  <2>5. Top.prop = props + 1
    BY <1>3, <2>4
  <2> QED
    BY <1>4, <2>3, <2>4, <2>5
<1> HIDE DEF c, cell, i, n, x, props, kids
<1>6. Top = stack[n]
  BY DEF Top, n
<1>7. PICK Z : Supported(dt, Z, buffer) /\ Framed(dt, Z, stack, buffer, pos)
  BY <1>3 DEF LaidOut
<1> DEFINE Y == Z \cup {<<x, i, pos>>}
<1>8. FrameAt(dt, Z, buffer, Top, kids, pos) /\ x + 1 \notin DOMAIN buffer
  BY <1>2, <1>5, <1>6, <1>7 DEF Framed, n, x
<1>9. PICK ps : /\ PropsAt(dt, buffer, i, x, ps, props)
                /\ Has(buffer, x, Cell("nProperties", props, 0))
                /\ \E cs : KidsAt(dt, Z, i, ps[props], cs, kids) /\ cs[kids] = pos
  BY <1>5, <1>8 DEF FrameAt, i, props, x
<1>10. PICK cs : KidsAt(dt, Z, i, ps[props], cs, kids) /\ cs[kids] = pos
  BY <1>9
<1>11. /\ Grows(buffer, c) /\ Has(c, x + 1, cell)
       /\ DOMAIN c = DOMAIN buffer \cup {x + 1}
  BY <1>8, PutGrows DEF c
<1>12. Z \subseteq Y /\ <<x, i, pos>> \in Y
  OBVIOUS
<1>13. Whole(dt, Y, c, x, i, pos)
  <2>1. Whole(dt, Z, c, x, i, pos)
    <3>1. PropsAt(dt, c, i, x, ps, props) /\ Has(c, x, Cell("nProperties", props, 0))
      BY <1>9, <1>11, PropsAtStays, HasStays
    <3>2. Has(c, x + 1, Cell("nChildren", kids, 0))
      BY <1>5, <1>11 DEF cell
    <3> QED
      BY <1>10, <3>1, <3>2 DEF Whole, props, kids
  <2>2. Grows(c, c)
    BY DEF Grows
  <2> HIDE DEF Y
  <2> QED
    BY <1>12, <2>1, <2>2, WholeStays
<1>14. Supported(dt, Y, c)
  <2>1. Y \subseteq Places3(dt)
    BY <1>2, <1>5, <1>7 DEF Supported, Places3
  <2>2. ASSUME NEW a, NEW k, NEW e, <<a, k, e>> \in Y PROVE Whole(dt, Y, c, a, k, e)
    <3>1. CASE <<a, k, e>> \in Z
      <4>1. Whole(dt, Z, buffer, a, k, e)
        BY <1>7, <3>1 DEF Supported
      <4> HIDE DEF Y
      <4> QED
        BY <1>11, <1>12, <4>1, WholeStays
    <3>2. CASE <<a, k, e>> = <<x, i, pos>>
      <4>1. a = x /\ k = i /\ e = pos
        BY <3>2
      <4> QED
        BY <1>13, <4>1, Zenon
    <3> QED
      BY <2>2, <3>1, <3>2
  <2> QED
    BY <2>1, <2>2 DEF Supported
<1>15. /\ Len(stack') = n - 1 /\ DOMAIN stack' = 1 .. (n - 1)
       /\ \A k \in 1 .. (n - 1) : stack'[k] = stack[k]
       /\ stack' = <<>> <=> n = 1
  <2>1. /\ n - 1 \in Nat /\ n - 1 <= Len(stack)
    BY <1>2 DEF n
  <2>2. /\ stack' \in Seq(Frames) /\ Len(stack') = n - 1
        /\ \A k \in 1 .. (n - 1) : stack'[k] = stack[k]
    <3>1. \A k \in 1 .. (n - 1) : k \in DOMAIN stack
      BY <1>2
    <3> QED
      BY <1>1, <1>2, <2>1, <3>1, SubSeqProperties DEF n
  <2>3. DOMAIN stack' = 1 .. (n - 1)
    BY <2>2, LenProperties
  <2>4. stack' = <<>> <=> n - 1 = 0
    BY <2>2, EmptySeq
  <2> QED
    BY <1>2, <2>2, <2>3, <2>4
<1> HIDE DEF Y
<1>16. Framed(dt, Y, stack', c, pos)
  <2>1. ASSUME NEW k \in DOMAIN stack' PROVE stack'[k].at + 1 \notin DOMAIN c
    <3>1. k \in DOMAIN stack /\ stack'[k].at = stack[k].at /\ k < n
      BY <1>2, <1>15
    <3>2. stack[k].at + 1 \notin DOMAIN buffer
      BY <1>7, <3>1 DEF Framed
    <3>3. stack[k].at + NodeSize <= x /\ stack[k].at \in Nat
      BY <1>2, <1>3, <1>6, <1>7, <3>1 DEF Framed, x
    <3>4. stack[k].at + 1 # x + 1
      BY <1>5, <3>3, PropertySizeType
    <3> QED
      BY <1>11, <3>1, <3>2, <3>4
  <2>2. \A k, l \in DOMAIN stack' : k < l => stack'[k].at + NodeSize <= stack'[l].at
    BY <1>2, <1>7, <1>15 DEF Framed
  <2>3. \A k \in 1 .. ((n - 1) - 1) :
           /\ FrameAt(dt, Y, c, stack'[k], stack'[k].child - 2, stack'[k + 1].at)
           /\ Descends(dt, stack'[k], stack'[k + 1])
    <3>1. Len(stack) = n /\ n - 1 \in Nat /\ n - 1 <= n
      <4>1. Len(stack) = n
        BY DEF n
      <4> QED
        BY <1>2, <4>1
    <3>2. /\ \A k \in 1 .. (n - 1) : k # Len(stack) => stack'[k] = stack[k]
          /\ \A k \in 1 .. (n - 1) : stack'[k].at = stack[k].at
                                     /\ stack'[k].node = stack[k].node
      BY <1>15
    <3> QED
      BY <1>2, <1>7, <1>11, <1>12, <3>1, <3>2, BelowStays
  <2>4. ASSUME stack' # <<>>
        PROVE  /\ FrameAt(dt, Y, c, stack'[n - 1], stack'[n - 1].child - 1, pos)
               /\ stack'[1].at = 0 /\ stack'[1].node = dt.rootNode
    <3> DEFINE f == stack[n - 1]
               m == f.child - 2
               k == f.child - 1
    <3>1. /\ n - 1 \in 1 .. (Len(stack) - 1) /\ n - 1 \in 1 .. (n - 1) /\ (n - 1) + 1 = n
          /\ 1 \in 1 .. (n - 1) /\ n - 1 \in DOMAIN stack
      BY <1>2, <1>15, <2>4 DEF n
    <3>2. FrameAt(dt, Z, buffer, f, m, x) /\ Descends(dt, f, Top)
      BY <1>6, <1>7, <3>1 DEF Framed, x
    <3>3. /\ f.child # 0 /\ k \in DOMAIN Kids(dt, f.node) /\ i = Kids(dt, f.node)[k]
      BY <3>2 DEF Descends, i
    <3>4. f.child \in Nat /\ k \in Nat /\ k >= 1 /\ m = k - 1 /\ m \in Nat
      <4>1. f \in Frames
        BY <1>1, <3>1, OnTop
      <4>2. f.node \in DOMAIN dt.nodes
        BY <1>1, <3>1, LaidBefore
      <4>3. Kids(dt, f.node) \in Seq(Nat)
        BY <1>2, <4>2, NodeType DEF Kids, Node
      <4>4. k \in 1 .. Len(Kids(dt, f.node)) /\ Len(Kids(dt, f.node)) \in Nat
        BY <3>3, <4>3, LenProperties
      <4>5. f.child \in Nat
        BY <4>1 DEF Frames
      <4> HIDE DEF f
      <4> QED
        BY <4>4, <4>5
    <3> HIDE DEF f, m, k
    <3>5. FrameAt(dt, Y, c, f, m, x)
      BY <1>11, <1>12, <3>2, <3>3, FrameAtStays
    <3>6. FrameAt(dt, Y, c, f, k, pos)
      <4>1. PICK qs : /\ PropsAt(dt, c, f.node, f.at, qs, f.prop - 1)
                      /\ Has(c, f.at, Cell("nProperties", Len(Props(dt, f.node)), 0))
                      /\ \E ds : KidsAt(dt, Y, f.node, qs[f.prop - 1], ds, m) /\ ds[m] = x
        BY <3>3, <3>5 DEF FrameAt
      <4>2. PICK ds : KidsAt(dt, Y, f.node, qs[f.prop - 1], ds, m) /\ ds[m] = x
        BY <4>1
      <4> DEFINE es == [j \in 0 .. k |-> IF j = k THEN pos ELSE ds[j]]
      <4>3. ds \in [0 .. m -> Nat] /\ ds[0] = qs[f.prop - 1]
            /\ \A j \in 1 .. m : <<ds[j - 1], Kids(dt, f.node)[j], ds[j]>> \in Y
        BY <4>2 DEF KidsAt
      <4>4. /\ es \in [0 .. k -> Nat] /\ es[0] = qs[f.prop - 1] /\ es[k] = pos
            /\ \A j \in 0 .. m : es[j] = ds[j]
        BY <1>2, <3>4, <4>3
      <4> HIDE DEF es
      <4>5. ASSUME NEW j \in 1 .. k
            PROVE  <<es[j - 1], Kids(dt, f.node)[j], es[j]>> \in Y
        <5>1. CASE j = k
          <6>1. j - 1 = m /\ m \in 0 .. m
            BY <3>4, <5>1
          <6>2. es[j - 1] = x /\ es[j] = pos /\ Kids(dt, f.node)[j] = i
            BY <3>3, <4>2, <4>4, <5>1, <6>1
          <6> QED
            BY <1>12, <6>2
        <5>2. CASE j # k
          <6>1. j \in 1 .. m /\ j \in 0 .. m /\ j - 1 \in 0 .. m
            BY <3>4, <5>2
          <6>2. es[j] = ds[j] /\ es[j - 1] = ds[j - 1]
            BY <4>4, <6>1
          <6> QED
            BY <4>3, <6>1, <6>2
        <5> QED
          BY <5>1, <5>2
      <4>6. KidsAt(dt, Y, f.node, qs[f.prop - 1], es, k)
        BY <4>4, <4>5 DEF KidsAt
      <4> QED
        BY <3>3, <4>1, <4>4, <4>6 DEF FrameAt
    <3>7. stack'[n - 1] = f /\ stack'[1] = stack[1]
      BY <1>15, <3>1 DEF f
    <3>8. stack[1].at = 0 /\ stack[1].node = dt.rootNode
      BY <1>2, <1>7 DEF Framed
    <3> QED
      BY <3>6, <3>7, <3>8 DEF k
  <2> QED
    BY <1>15, <2>1, <2>2, <2>3, <2>4 DEF Framed
<1>17. stack' = <<>> => <<0, dt.rootNode, pos>> \in Y
  <2> SUFFICES ASSUME stack' = <<>> PROVE <<0, dt.rootNode, pos>> \in Y
    OBVIOUS
  <2>1. n = 1
    BY <1>15
  <2>2. x = 0 /\ i = dt.rootNode
    BY <1>2, <1>6, <1>7, <2>1 DEF Framed, x, i
  <2> QED
    BY <1>12, <2>2
<1>18. LaidOut(dt, stack', c, pos)
  BY <1>14, <1>16, <1>17 DEF LaidOut
<1> QED
  BY <1>1, <1>18, Zenon

LEMMA FlattenChildLays ==
  ASSUME TreeInv, Laid, NamesFit, FlattenChild
  PROVE  LaidOut(dt', stack', buffer', pos')
<1> DEFINE n == Len(stack)
           t == Top
           g == Frame(TopNode.children[Top.child], pos)
           f == [Top EXCEPT !.child = @ + 1]
           b == buffer
<1>1. /\ pc = "flatten" /\ dt' = dt /\ buffer' = b /\ pos' = pos + NodeSize
      /\ Top.child \in 1 .. Len(TopNode.children)
  BY DEF FlattenChild
<1>2. /\ stack \in Seq(Frames) /\ stack # <<>> /\ n \in Nat /\ n >= 1 /\ n \in DOMAIN stack
      /\ DOMAIN stack = 1 .. n /\ Top \in Frames /\ dt \in Trees
      /\ Top.node \in DOMAIN dt.nodes /\ TopNode \in Node /\ pos \in Nat
      /\ Kids(dt, Top.node) = TopNode.children
      /\ DOMAIN TopNode.children = 1 .. Len(TopNode.children)
  BY <1>1, OnTop
<1>3. /\ LaidOut(dt, stack, b, pos)
      /\ \A y \in DOMAIN b : y \in Nat /\ y < pos
      /\ \A k \in DOMAIN stack : stack[k].at + NodeSize <= pos /\ stack[k].at \in Nat
  BY <1>1, LaidBefore
<1>4. /\ f \in Frames /\ f.node = t.node /\ f.child = t.child + 1 /\ f.prop = t.prop
      /\ f.at = t.at
  BY <1>2, FrameTurns
<1>5. /\ g.node = TopNode.children[Top.child] /\ g.at = pos /\ g.prop = 1 /\ g.child = 0
  BY DEF Frame
<1>6. t = stack[n] /\ t.child \in Nat /\ t.child # 0
  BY <1>1, <1>2 DEF Top, Frames
<1>7. /\ Len(stack') = n + 1 /\ DOMAIN stack' = 1 .. (n + 1)
      /\ stack'[n + 1] = g
      /\ \A k \in 1 .. n : stack'[k] = IF k = n THEN f ELSE stack[k]
  <2>1. Append(stack, g)[n] = Top
    BY <1>2 DEF Top
  <2>2. stack' = [Append(stack, g) EXCEPT ![n] = f]
    BY <2>1 DEF FlattenChild, Push
  <2> HIDE DEF f, g
  <2>3. /\ Len(Append(stack, g)) = n + 1 /\ DOMAIN Append(stack, g) = 1 .. (n + 1)
        /\ Append(stack, g)[n + 1] = g
        /\ \A k \in 1 .. n : Append(stack, g)[k] = stack[k]
    BY <1>2
  <2>4. /\ DOMAIN stack' = 1 .. (n + 1) /\ stack'[n + 1] = g
        /\ \A k \in 1 .. n : stack'[k] = IF k = n THEN f ELSE stack[k]
    <3> DEFINE a == Append(stack, g)
    <3>1. /\ stack' = [a EXCEPT ![n] = f] /\ DOMAIN a = 1 .. (n + 1) /\ a[n + 1] = g
          /\ \A k \in 1 .. n : a[k] = stack[k]
      BY <2>2, <2>3
    <3>2. n \in 1 .. (n + 1) /\ n + 1 # n /\ \A k \in 1 .. n : k \in 1 .. (n + 1)
      <4>1. n \in Nat /\ n >= 1
        BY <1>2
      <4> QED
        BY <4>1
    <3> HIDE DEF a
    <3> QED
      BY <3>1, <3>2
  <2>5. Len(stack') = n + 1
    BY <2>2, <2>3
  <2> QED
    BY <2>4, <2>5
<1> HIDE DEF f, g, n, t, b
<1>8. \A k \in 1 .. n : stack'[k].at = stack[k].at /\ stack'[k].node = stack[k].node
  BY <1>4, <1>6, <1>7
<1>9. PICK Z : Supported(dt, Z, b) /\ Framed(dt, Z, stack, b, pos)
  BY <1>3 DEF LaidOut
<1>10. /\ n + 1 \in Nat /\ (n + 1) - 1 = n /\ n + 1 # n /\ n + 1 \in 1 .. (n + 1)
       /\ 1 \in 1 .. n
  BY <1>2
<1>11. /\ FrameAt(dt, Z, b, f, f.child - 2, pos) /\ Descends(dt, f, g)
  <2>1. FrameAt(dt, Z, b, t, t.child - 1, pos)
    BY <1>2, <1>6, <1>9 DEF Framed, n
  <2>2. f.child - 2 = t.child - 1 /\ f.child # 0 /\ f.child - 1 = t.child
    BY <1>4, <1>6
  <2>3. FrameAt(dt, Z, b, f, f.child - 2, pos)
    BY <1>4, <1>6, <2>1, <2>2 DEF FrameAt
  <2>4. Descends(dt, f, g)
    BY <1>1, <1>2, <1>4, <1>5, <2>2 DEF Descends, t
  <2> QED
    BY <2>3, <2>4
<1>12. FrameAt(dt, Z, b, g, g.child - 1, pos + NodeSize)
  <2> DEFINE ps == [k \in 0 .. 0 |-> pos + NodeSize]
  <2>1. ps \in [0 .. 0 -> Nat] /\ ps[0] = pos + NodeSize
    BY <1>2, PropertySizeType
  <2>2. g.prop - 1 = 0 /\ 1 .. 0 = {}
    BY <1>5
  <2> HIDE DEF ps
  <2>3. PropsAt(dt, b, g.node, g.at, ps, 0)
    BY <1>5, <2>1, <2>2 DEF PropsAt
  <2>4. g.at \notin DOMAIN b
    BY <1>2, <1>3, <1>5
  <2> QED
    BY <1>5, <2>1, <2>2, <2>3, <2>4 DEF FrameAt
<1>13. Framed(dt, Z, stack', b, pos + NodeSize)
  <2>1. ASSUME NEW k \in DOMAIN stack' PROVE stack'[k].at + 1 \notin DOMAIN b
    <3>1. CASE k = n + 1
      <4>1. stack'[k].at = pos
        BY <1>5, <1>7, <3>1
      <4> QED
        BY <1>2, <1>3, <4>1
    <3>2. CASE k # n + 1
      <4>1. k \in 1 .. n
        BY <1>2, <1>7, <3>2
      <4> QED
        BY <1>2, <1>8, <1>9, <4>1 DEF Framed
    <3> QED
      BY <3>1, <3>2
  <2>2. ASSUME NEW k \in DOMAIN stack', NEW l \in DOMAIN stack', k < l
        PROVE  stack'[k].at + NodeSize <= stack'[l].at
    <3>1. k \in 1 .. n
      BY <1>2, <1>7, <2>2
    <3>2. CASE l = n + 1
      <4>1. stack'[l].at = pos
        BY <1>5, <1>7, <3>2
      <4> QED
        BY <1>2, <1>3, <1>8, <3>1, <4>1
    <3>3. CASE l # n + 1
      <4>1. l \in 1 .. n
        BY <1>2, <1>7, <3>3
      <4> QED
        BY <1>2, <1>8, <1>9, <2>2, <3>1, <4>1 DEF Framed
    <3> QED
      BY <3>2, <3>3
  <2>3. ASSUME NEW k \in 1 .. n
        PROVE  /\ FrameAt(dt, Z, b, stack'[k], stack'[k].child - 2, stack'[k + 1].at)
               /\ Descends(dt, stack'[k], stack'[k + 1])
    <3>1. CASE k = n
      <4>1. stack'[k] = f /\ stack'[k + 1] = g
        BY <1>7, <3>1
      <4> QED
        BY <1>5, <1>11, <4>1
    <3>2. CASE k # n
      <4>1. k \in 1 .. (n - 1)
        BY <1>2, <3>2
      <4>2. Len(stack) = n /\ n <= Len(stack)
            /\ \A j \in 1 .. n : j # Len(stack) => stack'[j] = stack[j]
        <5>1. Len(stack) = n
          BY DEF n
        <5> QED
          BY <1>2, <1>7, <5>1
      <4>3. Grows(b, b) /\ Z \subseteq Z
        BY DEF Grows
      <4> QED
        BY <1>2, <1>8, <1>9, <4>1, <4>2, <4>3, BelowStays
    <3> QED
      BY <3>1, <3>2
  <2>4. stack'[1].at = 0 /\ stack'[1].node = dt.rootNode
    BY <1>2, <1>8, <1>9, <1>10 DEF Framed
  <2>5. stack'[Len(stack')] = g
    BY <1>7
  <2> QED
    BY <1>7, <1>10, <1>12, <2>1, <2>2, <2>3, <2>4, <2>5 DEF Framed
<1>14. stack' # <<>>
  <2>1. Len(<<>>) = 0
    OBVIOUS
  <2> QED
    BY <1>2, <1>7, <2>1
<1>15. LaidOut(dt, stack', b, pos + NodeSize)
  BY <1>9, <1>13, <1>14 DEF LaidOut
<1> QED
  BY <1>1, <1>15, Zenon

LEMMA FlattenLays ==
  ASSUME TreeInv, Laid,
         \/ StartFlatten \/ FlattenProperty \/ EndProperties \/ FlattenChild \/ EndChildren
  PROVE  Laid'
<1>1. CASE StartFlatten
  BY <1>1, StartFlattenLays
<1>2. CASE FlattenProperty \/ EndProperties \/ FlattenChild \/ EndChildren
  <2>1. NamesFit => LaidOut(dt', stack', buffer', pos')
    BY <1>2, FlattenPropertyLays, EndPropertiesLays, FlattenChildLays, EndChildrenLays
  <2> QED
    BY <2>1 DEF Laid
<1> QED
  BY <1>1, <1>2

LEMMA BuildingLays ==
  ASSUME ~Flattening'
  PROVE  Laid'
  BY DEF Laid

LEMMA StutterLays ==
  ASSUME Laid, UNCHANGED vars
  PROVE  Laid'
<1>1. pc' = pc /\ dt' = dt /\ stack' = stack /\ buffer' = buffer /\ pos' = pos
  BY DEF vars
<1>2. LaidOut(dt', stack', buffer', pos') <=> LaidOut(dt, stack, buffer, pos)
  BY <1>1, Zenon
<1> QED
  BY <1>1, <1>2 DEF Laid, Flattening

LEMMA NextLays == TreeInv /\ Laid /\ [Next]_vars => Laid'
<1> SUFFICES ASSUME TreeInv, Laid, [Next]_vars PROVE Laid'
  OBVIOUS
<1>1. CASE \/ Initialize
           \/ \E node \in DOMAIN dt.nodes :
                 \/ \E n \in {0} \cup Lengths : AddChild(node, n)
                 \/ \E name \in Names, n \in Lengths : AddProperty(node, name, n)
  <2>1. ~Flattening'
    BY <1>1 DEF Initialize, AddChild, AddProperty, Flattening
  <2> QED
    BY <2>1, BuildingLays
<1>2. CASE StartFlatten \/ FlattenProperty \/ EndProperties \/ FlattenChild \/ EndChildren
  BY <1>2, FlattenLays
<1>3. CASE UNCHANGED vars
  BY <1>3, StutterLays
<1> QED
  BY <1>1, <1>2, <1>3 DEF Next

LEMMA SpecLays == Spec => [](TreeInv /\ Laid)
<1>1. Init => Laid
  BY DEF Init, Laid, Flattening
<1> QED
  BY <1>1, InitHolds, NextKeeps, NextLays, PTL DEF Spec

-----------------------------------------------------------------------------
(* What the kernel gets through the tree by: the recursive definitions     *)
(* have values, as nodes lie behind their parents and memory ends.         *)

\* A step can be repeated for ever, whatever it leads to.
Steps(E, t0, g) == g = [k \in Nat |-> IF k = 0 THEN t0 ELSE E[g[k - 1]]]

LEMMA StepsExist ==
  ASSUME NEW E, NEW t0
  PROVE  \E g : Steps(E, t0, g)
<1> DEFINE Run(f, n) == f = [k \in 0 .. n |-> IF k = 0 THEN t0 ELSE E[f[k - 1]]]
           S == {n \in Nat : \E f : Run(f, n)}
           g == [n \in Nat |-> CHOOSE f : Run(f, n)]
           h == [n \in Nat |-> g[n][n]]
<1>1. 0 \in S
  <2> DEFINE f == [k \in 0 .. 0 |-> t0]
  <2>1. f = [k \in 0 .. 0 |-> IF k = 0 THEN t0 ELSE E[f[k - 1]]]
    OBVIOUS
  <2> HIDE DEF f
  <2> QED
    BY <2>1
<1>2. ASSUME NEW n \in Nat, n \in S PROVE n + 1 \in S
  <2>1. PICK f : Run(f, n)
    BY <1>2
  <2> DEFINE e == [k \in 0 .. (n + 1) |-> IF k = n + 1 THEN E[f[n]] ELSE f[k]]
  <2>2. DOMAIN f = 0 .. n /\ \A k \in 0 .. n : f[k] = IF k = 0 THEN t0 ELSE E[f[k - 1]]
    BY <2>1
  <2>3. ASSUME NEW k \in 0 .. (n + 1) PROVE e[k] = IF k = 0 THEN t0 ELSE E[e[k - 1]]
    <3>1. CASE k = n + 1
      <4>1. k # 0 /\ k - 1 = n /\ n \in 0 .. (n + 1) /\ n # n + 1
        BY <3>1
      <4>2. e[k] = E[f[n]] /\ e[k - 1] = f[n]
        BY <3>1, <4>1
      <4> QED
        BY <4>1, <4>2
    <3>2. CASE k # n + 1
      <4>1. k \in 0 .. n /\ (k # 0 => k - 1 \in 0 .. (n + 1) /\ k - 1 # n + 1)
        BY <3>2
      <4>2. e[k] = f[k] /\ (k # 0 => e[k - 1] = f[k - 1])
        BY <3>2, <4>1
      <4> QED
        BY <2>2, <4>1, <4>2
    <3> QED
      BY <3>1, <3>2
  <2>4. e = [k \in 0 .. (n + 1) |-> e[k]]
    OBVIOUS
  <2> HIDE DEF e
  <2>5. Run(e, n + 1)
    BY <2>3, <2>4
  <2> QED
    BY <2>5
<1>3. \A n \in Nat : n \in S
  <2> HIDE DEF S
  <2> QED
    BY <1>1, <1>2, Induction
<1>4. ASSUME NEW n \in Nat PROVE Run(g[n], n)
  <2>1. \E f : Run(f, n)
    BY <1>3
  <2>2. g[n] = CHOOSE f : Run(f, n)
    OBVIOUS
  <2> HIDE DEF g, Run
  <2> QED
    BY <2>1, <2>2
<1>5. ASSUME NEW n \in Nat, NEW k \in 0 .. n
      PROVE  g[n][k] = IF k = 0 THEN t0 ELSE E[g[n][k - 1]]
  <2>1. Run(g[n], n)
    BY <1>4
  <2> HIDE DEF g
  <2> QED
    BY <2>1
<1> HIDE DEF g
<1>6. ASSUME NEW n \in Nat PROVE g[n + 1][n] = g[n][n]
  <2> DEFINE T == {k \in 0 .. n : g[n + 1][k] = g[n][k]}
  <2>1. n + 1 \in Nat /\ 0 \in 0 .. n /\ 0 \in 0 .. (n + 1)
    OBVIOUS
  <2>2. 0 \in T
    BY <1>5, <2>1
  <2>3. ASSUME NEW k \in 0 .. (n - 1), k \in T PROVE k + 1 \in T
    <3>1. k + 1 \in 0 .. n /\ k + 1 \in 0 .. (n + 1) /\ k + 1 # 0 /\ (k + 1) - 1 = k
      OBVIOUS
    <3>2. g[n + 1][k + 1] = E[g[n + 1][k]] /\ g[n][k + 1] = E[g[n][k]]
      BY <1>5, <2>1, <3>1
    <3> QED
      BY <2>3, <3>1, <3>2
  <2>4. \A k \in 0 .. n : k \in T
    <3> HIDE DEF T
    <3> QED
      BY <2>2, <2>3, BoundedInduction
  <2>5. n \in 0 .. n
    OBVIOUS
  <2> QED
    BY <2>4, <2>5
<1>7. ASSUME NEW n \in Nat PROVE h[n] = IF n = 0 THEN t0 ELSE E[h[n - 1]]
  <2>1. n \in 0 .. n /\ g[n][n] = IF n = 0 THEN t0 ELSE E[g[n][n - 1]]
    BY <1>5
  <2>2. CASE n = 0
    BY <2>1, <2>2
  <2>3. CASE n # 0
    <3>1. n - 1 \in Nat /\ (n - 1) + 1 = n
      BY <2>3
    <3>2. g[n][n - 1] = g[n - 1][n - 1]
      BY <1>6, <3>1
    <3> QED
      BY <2>1, <2>3, <3>1, <3>2
  <2> QED
    BY <2>2, <2>3
<1>8. h = [n \in Nat |-> h[n]]
  OBVIOUS
<1> HIDE DEF h
<1>9. Steps(E, t0, h)
  BY <1>7, <1>8 DEF Steps
<1> QED
  BY <1>9

LEMMA StepsAre ==
  ASSUME NEW E, NEW t0, NEW g, Steps(E, t0, g)
  PROVE  g[0] = t0 /\ \A k \in Nat : g[k + 1] = E[g[k]]
<1>1. \A k \in Nat : g[k] = IF k = 0 THEN t0 ELSE E[g[k - 1]]
  BY DEF Steps
<1>2. ASSUME NEW k \in Nat PROVE g[k + 1] = E[g[k]]
  <2>1. k + 1 \in Nat /\ k + 1 # 0 /\ (k + 1) - 1 = k
    OBVIOUS
  <2> QED
    BY <1>1, <2>1
<1> QED
  BY <1>1, <1>2

LEMMA ReadType ==
  ASSUME TypeOK
  PROVE  \A x : Read(x) \in Word /\ Read(x).of \in Nat
<1>1. Pad \in Word
  BY DEF Pad, Word, Kind
<1>2. \A x : Read(x) \in Word
  BY <1>1 DEF Read, TypeOK
<1> QED
  BY <1>2 DEF Word

StartRec(x, g) ==
    g = [k \in Nat |-> IF k = 0 THEN x + NodeSize
                       ELSE g[k - 1] + PropertySize
                              + RoundToLong(Read(g[k - 1] + NameWords).of)]

LEMMA StartsAre ==
  ASSUME TypeOK, NEW x \in Nat
  PROVE  /\ Starts(x) \in [Nat -> Nat] /\ Starts(x)[0] = x + NodeSize
         /\ \A k \in Nat :
               /\ Starts(x)[k + 1]
                    = (Starts(x)[k] + PropertySize)
                         + RoundToLong(Read(Starts(x)[k] + NameWords).of)
               /\ Starts(x)[k] > x
<1> DEFINE F == [y \in Nat |-> (y + PropertySize) + RoundToLong(Read(y + NameWords).of)]
<1>1. \A y \in Nat : RoundToLong(Read(y + NameWords).of) \in Nat
  BY ReadType, RoundType
<1>2. F \in [Nat -> Nat] /\ x + NodeSize \in Nat
  BY <1>1, PropertySizeType
<1> HIDE DEF F
<1>3. PICK f : /\ f = [k \in Nat |-> f[k]] /\ f[0] = x + NodeSize
               /\ \A k \in Nat : f[k] \in Nat /\ f[k + 1] = F[f[k]]
  <2>1. PICK f : Steps(F, x + NodeSize, f)
    BY StepsExist
  <2>2. f[0] = x + NodeSize /\ \A k \in Nat : f[k + 1] = F[f[k]]
    BY <2>1, StepsAre
  <2> DEFINE S == {k \in Nat : f[k] \in Nat}
  <2>3. 0 \in S
    BY <1>2, <2>2
  <2>4. ASSUME NEW k \in Nat, k \in S PROVE k + 1 \in S
    BY <1>2, <2>2, <2>4
  <2>5. \A k \in Nat : k \in S
    <3> HIDE DEF S
    <3> QED
      BY <2>3, <2>4, Induction
  <2>6. f = [k \in Nat |-> f[k]]
    BY <2>1 DEF Steps
  <2> QED
    BY <2>2, <2>5, <2>6
<1>4. ASSUME NEW k \in Nat
      PROVE  f[k] = IF k = 0 THEN x + NodeSize
                    ELSE f[k - 1] + PropertySize
                           + RoundToLong(Read(f[k - 1] + NameWords).of)
  <2>1. CASE k = 0
    BY <1>3, <2>1
  <2>2. CASE k # 0
    <3>1. k - 1 \in Nat /\ (k - 1) + 1 = k
      BY <2>2
    <3>2. f[k] = F[f[k - 1]] /\ f[k - 1] \in Nat
      BY <1>3, <3>1
    <3> QED
      BY <2>2, <3>2 DEF F
  <2> QED
    BY <2>1, <2>2
<1>5. f = [k \in Nat |-> f[k]]
  BY <1>3
<1>6. StartRec(x, f)
  BY <1>4, <1>5 DEF StartRec
<1> DEFINE g == Starts(x)
<1>7. StartRec(x, g)
  <2>1. g = CHOOSE e : StartRec(x, e)
    BY DEF Starts, StartRec
  <2> HIDE DEF g
  <2> QED
    BY <1>6, <2>1
<1> HIDE DEF g
<1>8. g[0] = x + NodeSize
  BY <1>7 DEF StartRec
<1>9. ASSUME NEW k \in Nat
      PROVE  g[k + 1] = (g[k] + PropertySize) + RoundToLong(Read(g[k] + NameWords).of)
  <2>1. k + 1 \in Nat /\ k + 1 # 0 /\ (k + 1) - 1 = k
    OBVIOUS
  <2> QED
    BY <1>7, <2>1 DEF StartRec
<1> DEFINE S == {k \in Nat : g[k] \in Nat /\ g[k] > x}
<1>10. 0 \in S
  BY <1>8, PropertySizeType
<1>11. ASSUME NEW k \in Nat, k \in S PROVE k + 1 \in S
  <2> DEFINE r == RoundToLong(Read(g[k] + NameWords).of)
  <2>1. r \in Nat /\ g[k] \in Nat /\ g[k] > x /\ PropertySize \in Nat
    BY <1>1, <1>11, PropertySizeType
  <2>2. g[k + 1] = (g[k] + PropertySize) + r
    BY <1>9
  <2> HIDE DEF r
  <2> QED
    BY <2>1, <2>2
<1>12. \A k \in Nat : k \in S
  <2> HIDE DEF S
  <2> QED
    BY <1>10, <1>11, Induction
<1>13. g \in [Nat -> Nat]
  <2>1. g = [k \in Nat |-> g[k]]
    BY <1>7 DEF StartRec
  <2> QED
    BY <1>12, <2>1
<1> QED
  BY <1>8, <1>9, <1>12, <1>13 DEF g

ChildRec(E, x, g) ==
    g = [k \in Nat |-> IF k = 0 THEN Starts(x)[Read(x).of] ELSE E[g[k - 1]]]

\* The children of what is at x, given where nodes end.
ChildOf(E, x) == CHOOSE g : ChildRec(E, x, g)

LEMMA ChildIs ==
  ASSUME NEW E, NEW x
  PROVE  /\ ChildOf(E, x)[0] = Starts(x)[Read(x).of]
         /\ \A k \in Nat : ChildOf(E, x)[k + 1] = E[ChildOf(E, x)[k]]
<1> DEFINE t0 == Starts(x)[Read(x).of]
           g == ChildOf(E, x)
<1>1. \E f : Steps(E, t0, f)
  <2> HIDE DEF t0
  <2> QED
    BY StepsExist
<1>2. \A f : Steps(E, t0, f) <=> ChildRec(E, x, f)
  BY DEF Steps, ChildRec
<1>3. g = CHOOSE f : ChildRec(E, x, f)
  BY DEF ChildOf
<1> HIDE DEF g, t0
<1>4. Steps(E, t0, g)
  BY <1>1, <1>2, <1>3
<1>5. g[0] = t0 /\ \A k \in Nat : g[k + 1] = E[g[k]]
  BY <1>4, StepsAre
<1> QED
  BY <1>5 DEF g, t0

\* Where nodes end, if that is behind them, from x on.
Behinds(E, x) == \A y \in Nat : y > x => E[y] \in Nat /\ E[y] > y

LEMMA ChildAbove ==
  ASSUME TypeOK, NEW E, NEW x \in Nat, Behinds(E, x)
  PROVE  \A k \in Nat : ChildOf(E, x)[k] \in Nat /\ ChildOf(E, x)[k] > x
<1> DEFINE g == ChildOf(E, x)
           S == {k \in Nat : g[k] \in Nat /\ g[k] > x}
<1>1. Starts(x)[Read(x).of] \in Nat /\ Starts(x)[Read(x).of] > x
  <2>1. Read(x).of \in Nat
    BY ReadType
  <2> QED
    BY <2>1, StartsAre
<1>2. g[0] = Starts(x)[Read(x).of] /\ \A k \in Nat : g[k + 1] = E[g[k]]
  BY ChildIs
<1> HIDE DEF g
<1>3. 0 \in S
  BY <1>1, <1>2
<1>4. ASSUME NEW k \in Nat, k \in S PROVE k + 1 \in S
  <2>1. g[k] \in Nat /\ g[k] > x /\ E[g[k]] \in Nat /\ E[g[k]] > g[k]
    BY <1>4 DEF Behinds
  <2>2. g[k + 1] = E[g[k]]
    BY <1>2
  <2> QED
    BY <2>1, <2>2
<1>5. \A k \in Nat : k \in S
  <2> HIDE DEF S
  <2> QED
    BY <1>3, <1>4, Induction
<1> QED
  BY <1>5 DEF g

LEMMA ChildSame ==
  ASSUME TypeOK, NEW E, NEW F, NEW x \in Nat, Behinds(E, x),
         \A y \in Nat : y > x => F[y] = E[y]
  PROVE  \A k \in Nat : ChildOf(F, x)[k] = ChildOf(E, x)[k]
<1> DEFINE g == ChildOf(E, x)
           h == ChildOf(F, x)
           S == {k \in Nat : h[k] = g[k]}
<1>1. g[0] = Starts(x)[Read(x).of] /\ \A k \in Nat : g[k + 1] = E[g[k]]
  BY ChildIs
<1>2. h[0] = Starts(x)[Read(x).of] /\ \A k \in Nat : h[k + 1] = F[h[k]]
  BY ChildIs
<1>3. \A k \in Nat : g[k] \in Nat /\ g[k] > x
  BY ChildAbove
<1> HIDE DEF g, h
<1>4. 0 \in S
  BY <1>1, <1>2
<1>5. ASSUME NEW k \in Nat, k \in S PROVE k + 1 \in S
  <2>1. h[k] = g[k] /\ g[k] \in Nat /\ g[k] > x
    BY <1>3, <1>5
  <2>2. F[h[k]] = E[g[k]]
    BY <2>1
  <2>3. h[k + 1] = g[k + 1]
    BY <1>1, <1>2, <2>2
  <2> QED
    BY <2>3
<1>6. \A k \in Nat : k \in S
  <2> HIDE DEF S
  <2> QED
    BY <1>4, <1>5, Induction
<1> QED
  BY <1>6 DEF g, h

EndVal(E, x) == ChildOf(E, x)[Read(x + 1).of]

EndRec(E) == E = [x \in Nat |-> EndVal(E, x)]

\* Nothing is written from limit on.
EndsAt(limit) == limit \in Nat /\ \A x \in DOMAIN buffer : x < limit

LEMMA NothingBehind ==
  ASSUME NEW limit, EndsAt(limit), NEW x \in Nat, x >= limit
  PROVE  Read(x).of = 0 /\ Read(x + 1).of = 0
<1>1. x \notin DOMAIN buffer /\ x + 1 \notin DOMAIN buffer
  BY DEF EndsAt
<1> QED
  BY <1>1 DEF Read, Pad

\* Whatever ends are given, a node behind the limit has no children.
LEMMA EndBehind ==
  ASSUME TypeOK, NEW limit, EndsAt(limit), NEW x \in Nat, x >= limit, NEW E
  PROVE  EndVal(E, x) = x + NodeSize
<1>1. Read(x).of = 0 /\ Read(x + 1).of = 0
  BY NothingBehind
<1>2. EndVal(E, x) = Starts(x)[0]
  BY <1>1, ChildIs DEF EndVal
<1> QED
  BY <1>2, StartsAre

LEMMA EndAbove ==
  ASSUME TypeOK, NEW E, NEW x \in Nat, Behinds(E, x)
  PROVE  EndVal(E, x) \in Nat /\ EndVal(E, x) > x
<1>1. Read(x + 1).of \in Nat
  BY ReadType
<1> QED
  BY <1>1, ChildAbove DEF EndVal

LEMMA EndExists ==
  ASSUME TypeOK, NEW limit, EndsAt(limit)
  PROVE  \E E : EndRec(E)
<1> DEFINE Good(E, n) ==
             /\ E = [y \in Nat |-> E[y]]
             /\ \A y \in Nat : E[y] \in Nat /\ E[y] > y
             /\ \A y \in Nat : y >= limit - n => E[y] = EndVal(E, y)
           S == {n \in 0 .. limit : \E E : Good(E, n)}
<1>1. limit \in Nat
  BY DEF EndsAt
<1>2. 0 \in S
  <2> DEFINE E == [y \in Nat |-> y + NodeSize]
  <2>1. E = [y \in Nat |-> E[y]] /\ \A y \in Nat : E[y] = y + NodeSize
    OBVIOUS
  <2> HIDE DEF E
  <2>2. \A y \in Nat : E[y] \in Nat /\ E[y] > y
    BY <2>1, PropertySizeType
  <2>3. ASSUME NEW y \in Nat, y >= limit - 0 PROVE E[y] = EndVal(E, y)
    <3>1. y >= limit
      BY <1>1, <2>3
    <3> QED
      BY <2>1, <3>1, EndBehind
  <2>4. Good(E, 0)
    BY <2>1, <2>2, <2>3
  <2> QED
    BY <1>1, <2>4
<1>3. ASSUME NEW n \in 0 .. (limit - 1), n \in S PROVE n + 1 \in S
  <2>1. PICK E : Good(E, n)
    BY <1>3
  <2> DEFINE x == limit - (n + 1)
             F == [y \in Nat |-> IF y = x THEN EndVal(E, x) ELSE E[y]]
  <2>2. x \in Nat /\ \A y \in Nat : y >= x => y = x \/ y >= limit - n
    BY <1>1
  <2> HIDE DEF x
  <2>3. \A y \in Nat : Behinds(E, y)
    BY <2>1 DEF Behinds
  <2>4. EndVal(E, x) \in Nat /\ EndVal(E, x) > x
    BY <2>2, <2>3, EndAbove
  <2>5. F = [y \in Nat |-> F[y]]
        /\ \A y \in Nat : F[y] = IF y = x THEN EndVal(E, x) ELSE E[y]
    OBVIOUS
  <2> HIDE DEF F
  <2>6. \A y \in Nat : F[y] \in Nat /\ F[y] > y
    BY <2>1, <2>4, <2>5
  <2>7. ASSUME NEW y \in Nat, y >= x PROVE F[y] = EndVal(F, y)
    <3>1. \A z \in Nat : z > y => F[z] = E[z]
      BY <2>2, <2>5, <2>7
    <3>2. Read(y + 1).of \in Nat
      BY ReadType
    <3>3. EndVal(F, y) = EndVal(E, y)
      BY <2>3, <3>1, <3>2, ChildSame DEF EndVal
    <3>4. F[y] = EndVal(E, y)
      <4>1. CASE y = x
        BY <2>5, <4>1
      <4>2. CASE y # x
        BY <2>1, <2>2, <2>5, <2>7, <4>2
      <4> QED
        BY <4>1, <4>2
    <3> QED
      BY <3>3, <3>4
  <2>8. Good(F, n + 1)
    BY <2>5, <2>6, <2>7 DEF x
  <2>9. n + 1 \in 0 .. limit
    BY <1>1
  <2> HIDE DEF Good
  <2> QED
    BY <2>8, <2>9
<1>4. limit \in S
  <2> HIDE DEF S
  <2>1. \A n \in 0 .. limit : n \in S
    BY <1>1, <1>2, <1>3, BoundedInduction
  <2> QED
    BY <1>1, <2>1
<1>5. PICK E : Good(E, limit)
  BY <1>4
<1>6. \A y \in Nat : E[y] = EndVal(E, y)
  BY <1>1, <1>5
<1>7. E = [y \in Nat |-> EndVal(E, y)]
  BY <1>5, <1>6
<1> QED
  BY <1>7 DEF EndRec

LEMMA EndOfIs ==
  ASSUME TypeOK, NEW limit, EndsAt(limit)
  PROVE  EndRec(EndOf)
<1>1. EndOf = CHOOSE E : EndRec(E)
  BY DEF EndOf, EndRec, EndVal, ChildOf, ChildRec
<1>2. \E E : EndRec(E)
  BY EndExists
<1> QED
  BY <1>1, <1>2, Zenon

\* Every node ends behind its start.
LEMMA EndsBehind ==
  ASSUME TypeOK, NEW limit, EndsAt(limit)
  PROVE  \A x \in Nat : EndOf[x] = EndVal(EndOf, x) /\ Behinds(EndOf, x)
<1>1. EndRec(EndOf)
  BY EndOfIs
<1>2. \A x \in Nat : EndOf[x] = EndVal(EndOf, x)
  <2> DEFINE E == EndOf
  <2>1. EndRec(E)
    BY <1>1
  <2> HIDE DEF E
  <2>2. \A x \in Nat : E[x] = EndVal(E, x)
    BY <2>1 DEF EndRec
  <2> QED
    BY <2>2 DEF E
<1>3. limit \in Nat
  BY DEF EndsAt
<1> DEFINE S == {n \in 0 .. limit : \A y \in Nat : y >= limit - n => EndOf[y] \in Nat /\ EndOf[y] > y}
<1>4. 0 \in S
  <2>1. ASSUME NEW y \in Nat, y >= limit PROVE EndOf[y] \in Nat /\ EndOf[y] > y
    <3>1. EndOf[y] = y + NodeSize
      BY <1>2, <2>1, EndBehind
    <3> QED
      BY <3>1, PropertySizeType
  <2> QED
    BY <1>3, <2>1
<1>5. ASSUME NEW n \in 0 .. (limit - 1), n \in S PROVE n + 1 \in S
  <2>1. \A y \in Nat : y >= limit - n => EndOf[y] \in Nat /\ EndOf[y] > y
    BY <1>5
  <2>2. ASSUME NEW y \in Nat, y >= limit - (n + 1) PROVE EndOf[y] \in Nat /\ EndOf[y] > y
    <3>1. \A z \in Nat : z > y => z >= limit - n
      BY <1>3, <2>2
    <3>2. Behinds(EndOf, y)
      BY <2>1, <3>1 DEF Behinds
    <3>3. EndVal(EndOf, y) \in Nat /\ EndVal(EndOf, y) > y
      BY <3>2, EndAbove
    <3> QED
      BY <1>2, <3>3
  <2>3. n + 1 \in 0 .. limit
    BY <1>3
  <2> QED
    BY <2>2, <2>3
<1>6. \A n \in 0 .. limit : n \in S
  <2> HIDE DEF S
  <2> QED
    BY <1>3, <1>4, <1>5, BoundedInduction
<1>7. limit \in S
  <2> HIDE DEF S
  <2>1. limit \in 0 .. limit
    BY <1>3
  <2> QED
    BY <1>6, <2>1
<1>8. \A y \in Nat : EndOf[y] \in Nat /\ EndOf[y] > y
  BY <1>3, <1>7
<1> QED
  BY <1>2, <1>8 DEF Behinds

\* What is read of a property, and of a node, given what its children are.
PropertyVal(a) ==
    [name |-> NameAt(a), length |-> Read(a + NameWords).of,
     value |-> ValueAt(a + PropertySize, RoundToLong(Read(a + NameWords).of))]

EntryVal(E, x) ==
    [properties |-> [k \in 1 .. Read(x).of |-> PropertyVal(Starts(x)[k - 1])],
     children |-> [k \in 1 .. Read(x + 1).of |-> E[ChildOf(EndOf, x)[k - 1]]]]

EntryRec(E) == E = [x \in Nat |-> EntryVal(E, x)]

LEMMA EntrySame ==
  ASSUME TypeOK, NEW limit, EndsAt(limit), NEW E, NEW F, NEW x \in Nat,
         x >= limit \/ \A y \in Nat : y > x => F[y] = E[y]
  PROVE  EntryVal(F, x) = EntryVal(E, x)
<1>1. ASSUME NEW k \in 1 .. Read(x + 1).of
      PROVE  F[ChildOf(EndOf, x)[k - 1]] = E[ChildOf(EndOf, x)[k - 1]]
  <2>1. Read(x + 1).of \in Nat
    BY ReadType
  <2>2. Read(x + 1).of # 0 /\ k - 1 \in Nat
    BY <2>1
  <2>3. ~(x >= limit)
    BY <2>2, NothingBehind
  <2>4. Behinds(EndOf, x)
    BY EndsBehind
  <2>5. ChildOf(EndOf, x)[k - 1] \in Nat /\ ChildOf(EndOf, x)[k - 1] > x
    BY <2>2, <2>4, ChildAbove
  <2> QED
    BY <2>3, <2>5
<1>2. [k \in 1 .. Read(x + 1).of |-> F[ChildOf(EndOf, x)[k - 1]]]
        = [k \in 1 .. Read(x + 1).of |-> E[ChildOf(EndOf, x)[k - 1]]]
  BY <1>1, Zenon
<1> QED
  BY <1>2, Zenon DEF EntryVal

LEMMA EntryExists ==
  ASSUME TypeOK, NEW limit, EndsAt(limit)
  PROVE  \E E : EntryRec(E)
<1> DEFINE Good(E, n) ==
             /\ E = [y \in Nat |-> E[y]]
             /\ \A y \in Nat : y >= limit - n => E[y] = EntryVal(E, y)
           S == {n \in 0 .. limit : \E E : Good(E, n)}
<1>1. limit \in Nat
  BY DEF EndsAt
<1>2. 0 \in S
  <2> DEFINE E == [y \in Nat |-> EntryVal(<<>>, y)]
  <2>1. E = [y \in Nat |-> E[y]] /\ \A y \in Nat : E[y] = EntryVal(<<>>, y)
    OBVIOUS
  <2> HIDE DEF E
  <2>2. ASSUME NEW y \in Nat, y >= limit - 0 PROVE E[y] = EntryVal(E, y)
    <3>1. y >= limit
      BY <1>1, <2>2
    <3>2. EntryVal(E, y) = EntryVal(<<>>, y)
      BY <3>1, EntrySame
    <3> QED
      BY <2>1, <3>2
  <2>3. Good(E, 0)
    BY <2>1, <2>2
  <2>4. 0 \in 0 .. limit
    BY <1>1
  <2> HIDE DEF Good
  <2> QED
    BY <2>3, <2>4
<1>3. ASSUME NEW n \in 0 .. (limit - 1), n \in S PROVE n + 1 \in S
  <2>1. PICK E : Good(E, n)
    BY <1>3
  <2> DEFINE x == limit - (n + 1)
             F == [y \in Nat |-> IF y = x THEN EntryVal(E, x) ELSE E[y]]
  <2>2. x \in Nat /\ \A y \in Nat : y >= x => y = x \/ y >= limit - n
    BY <1>1
  <2> HIDE DEF x
  <2>3. F = [y \in Nat |-> F[y]]
        /\ \A y \in Nat : F[y] = IF y = x THEN EntryVal(E, x) ELSE E[y]
    OBVIOUS
  <2> HIDE DEF F
  <2>4. ASSUME NEW y \in Nat, y >= x PROVE F[y] = EntryVal(F, y)
    <3>1. \A z \in Nat : z > y => F[z] = E[z]
      BY <2>2, <2>3, <2>4
    <3>2. EntryVal(F, y) = EntryVal(E, y)
      BY <3>1, EntrySame
    <3>3. F[y] = EntryVal(E, y)
      <4>1. CASE y = x
        BY <2>3, <4>1
      <4>2. CASE y # x
        BY <2>1, <2>2, <2>3, <2>4, <4>2
      <4> QED
        BY <4>1, <4>2
    <3> QED
      BY <3>2, <3>3
  <2>5. Good(F, n + 1)
    BY <2>3, <2>4 DEF x
  <2>6. n + 1 \in 0 .. limit
    BY <1>1
  <2> HIDE DEF Good
  <2> QED
    BY <2>5, <2>6
<1>4. limit \in S
  <2> HIDE DEF S
  <2>1. \A n \in 0 .. limit : n \in S
    BY <1>1, <1>2, <1>3, BoundedInduction
  <2> QED
    BY <1>1, <2>1
<1>5. PICK E : Good(E, limit)
  BY <1>4
<1>6. \A y \in Nat : E[y] = EntryVal(E, y)
  BY <1>1, <1>5
<1>7. E = [y \in Nat |-> EntryVal(E, y)]
  BY <1>5, <1>6
<1> QED
  BY <1>7 DEF EntryRec

LEMMA EntryIs ==
  ASSUME TypeOK, NEW limit, EndsAt(limit)
  PROVE  \A x \in Nat : Entry[x] = EntryVal(Entry, x)
<1> DEFINE E == Entry
<1>1. E = CHOOSE F : EntryRec(F)
  BY DEF Entry, EntryRec, EntryVal, PropertyVal, ChildOf, ChildRec
<1>2. \E F : EntryRec(F)
  BY EntryExists
<1> HIDE DEF E
<1>3. EntryRec(E)
  BY <1>1, <1>2, Zenon
<1>4. \A x \in Nat : E[x] = EntryVal(E, x)
  BY <1>3 DEF EntryRec
<1> QED
  BY <1>4 DEF E

-----------------------------------------------------------------------------
(* The same of the tree in memory, whose children come behind parents.     *)

\* What the kernel is to read of a property.
Kernels(p) == [p EXCEPT !.value = IF p.length = 0 THEN NULL ELSE @]

TreeVal(T, i) ==
    [properties |-> [k \in DOMAIN dt.nodes[i].properties |->
                        Kernels(dt.nodes[i].properties[k])],
     children |-> [k \in DOMAIN dt.nodes[i].children |->
                      T[dt.nodes[i].children[k]]]]

TreeRec(T) == T = [i \in DOMAIN dt.nodes |-> TreeVal(T, i)]

LEMMA TreeSame ==
  ASSUME Linked(dt), NEW T, NEW U, NEW i \in DOMAIN dt.nodes,
         \A j \in DOMAIN dt.nodes : j > i => T[j] = U[j], dt \in Trees
  PROVE  TreeVal(T, i) = TreeVal(U, i)
<1>1. ASSUME NEW k \in DOMAIN dt.nodes[i].children
      PROVE  T[dt.nodes[i].children[k]] = U[dt.nodes[i].children[k]]
  <2>1. dt.nodes[i].children[k] \in (i + 1) .. Len(dt.nodes)
    BY DEF Linked, Kids
  <2>2. dt.nodes \in Seq(Node) /\ i \in Nat
    BY DEF Trees
  <2>3. dt.nodes[i].children[k] \in DOMAIN dt.nodes /\ dt.nodes[i].children[k] > i
    BY <2>1, <2>2
  <2> QED
    BY <2>3
<1>2. [k \in DOMAIN dt.nodes[i].children |-> T[dt.nodes[i].children[k]]]
        = [k \in DOMAIN dt.nodes[i].children |-> U[dt.nodes[i].children[k]]]
  BY <1>1, Zenon
<1> QED
  BY <1>2, Zenon DEF TreeVal

LEMMA TreeExists ==
  ASSUME Linked(dt), dt \in Trees
  PROVE  \E T : TreeRec(T)
<1> DEFINE I == DOMAIN dt.nodes
           N == Len(dt.nodes)
           Good(T, n) == /\ T = [i \in I |-> T[i]]
                         /\ \A i \in I : i > N - n => T[i] = TreeVal(T, i)
           S == {n \in 0 .. N : \E T : Good(T, n)}
<1>1. N \in Nat /\ I = 1 .. N
  BY DEF Trees
<1>2. 0 \in S
  <2> DEFINE T == [i \in I |-> 0]
  <2>1. T = [i \in I |-> T[i]]
    OBVIOUS
  <2>2. Good(T, 0)
    BY <1>1, <2>1
  <2>3. 0 \in 0 .. N
    BY <1>1
  <2> HIDE DEF Good
  <2> QED
    BY <2>2, <2>3
<1>3. ASSUME NEW n \in 0 .. (N - 1), n \in S PROVE n + 1 \in S
  <2>1. PICK T : Good(T, n)
    BY <1>3
  <2> DEFINE x == N - n
             U == [i \in I |-> IF i = x THEN TreeVal(T, x) ELSE T[i]]
  <2>2. x \in I /\ \A i \in I : i > N - (n + 1) => i = x \/ i > N - n
    BY <1>1
  <2>3. U = [i \in I |-> U[i]]
        /\ \A i \in I : U[i] = IF i = x THEN TreeVal(T, x) ELSE T[i]
    OBVIOUS
  <2> HIDE DEF U
  <2>4. ASSUME NEW i \in I, i > N - (n + 1) PROVE U[i] = TreeVal(U, i)
    <3>1. \A j \in I : j > i => U[j] = T[j]
      <4>1. i \in 1 .. N /\ N \in Nat /\ n \in Nat
        BY <1>1
      <4>2. \A j \in 1 .. N : j > i => j # x
        <5> HIDE DEF N
        <5> QED
          BY <2>4, <4>1
      <4> HIDE DEF x
      <4> QED
        BY <1>1, <2>3, <4>2
    <3>2. TreeVal(U, i) = TreeVal(T, i)
      BY <3>1, TreeSame
    <3>3. U[i] = TreeVal(T, i)
      <4>1. CASE i = x
        BY <2>3, <4>1
      <4>2. CASE i # x
        BY <2>1, <2>2, <2>3, <2>4, <4>2
      <4> QED
        BY <4>1, <4>2
    <3> QED
      BY <3>2, <3>3
  <2>5. Good(U, n + 1)
    BY <2>3, <2>4
  <2>6. n + 1 \in 0 .. N
    BY <1>1
  <2> HIDE DEF Good
  <2> QED
    BY <2>5, <2>6
<1>4. N \in S
  <2> HIDE DEF S
  <2>1. \A n \in 0 .. N : n \in S
    BY <1>1, <1>2, <1>3, BoundedInduction
  <2> QED
    BY <1>1, <2>1
<1>5. PICK T : Good(T, N)
  BY <1>4
<1>6. \A i \in I : T[i] = TreeVal(T, i)
  BY <1>1, <1>5
<1>7. T = [i \in I |-> TreeVal(T, i)]
  BY <1>5, <1>6
<1> QED
  BY <1>7 DEF TreeRec

LEMMA TreeIs ==
  ASSUME Linked(dt), dt \in Trees
  PROVE  \A i \in DOMAIN dt.nodes : Tree[i] = TreeVal(Tree, i)
<1> DEFINE T == Tree
<1>1. T = CHOOSE U : TreeRec(U)
  BY DEF Tree, TreeRec, TreeVal, Kernels
<1>2. \E U : TreeRec(U)
  BY TreeExists
<1> HIDE DEF T
<1>3. TreeRec(T)
  BY <1>1, <1>2, Zenon
<1>4. \A i \in DOMAIN dt.nodes : T[i] = TreeVal(T, i)
  BY <1>3 DEF TreeRec
<1> QED
  BY <1>4 DEF T

-----------------------------------------------------------------------------
(* What is read is what was written.                                       *)

LEMMA HasRead ==
  ASSUME NEW x, NEW cell, Has(buffer, x, cell)
  PROVE  Read(x) = cell
  BY DEF Has, Read

LEMMA PropertyRead ==
  ASSUME NEW x \in Nat, NEW p \in Property, HasProperty(buffer, x, p)
  PROVE  Read(x + NameWords).of = p.length /\ PropertyVal(x) = Kernels(p)
<1> DEFINE found == {name \in Names : \A k \in 0 .. (NameLen[name] - 1) :
                                         Read(x + k) = Cell("name", name, k)}
           w == RoundToLong(p.length)
           a == x + PropertySize
<1>1. p.name \in Names /\ p.length \in Nat /\ p.value \in Nat
  BY DEF Property
<1>2. Read(x + NameWords).of = p.length
  <2>1. Read(x + NameWords) = Cell("length", p.length, 0)
    BY HasRead DEF HasProperty
  <2> QED
    BY <2>1 DEF Cell
<1>3. \A name \in Names : NameLen[name] \in Nat /\ NameLen[name] >= 1
  BY TreeAssumption
<1>4. p.name \in found
  <2>1. \A k \in 0 .. (NameLen[p.name] - 1) : Read(x + k) = Cell("name", p.name, k)
    BY HasRead DEF HasProperty
  <2> QED
    BY <1>1, <2>1
<1>5. ASSUME NEW name \in found PROVE name = p.name
  <2>1. 0 \in 0 .. (NameLen[p.name] - 1) /\ 0 \in 0 .. (NameLen[name] - 1)
    BY <1>1, <1>3
  <2>2. Read(x + 0) = Cell("name", p.name, 0) /\ Read(x + 0) = Cell("name", name, 0)
    BY <1>4, <2>1
  <2> QED
    BY <2>2 DEF Cell
<1>6. NameAt(x) = p.name
  <2>1. NameAt(x) = IF found = {} THEN NULL ELSE CHOOSE name \in found : TRUE
    BY DEF NameAt
  <2> HIDE DEF found
  <2>2. found # {} /\ (CHOOSE name \in found : TRUE) \in found
    BY <1>4
  <2> QED
    BY <1>5, <2>1, <2>2
<1>7. ValueAt(a, w) = IF p.length = 0 THEN NULL ELSE p.value
  <2>1. \A k \in 0 .. (w - 1) : Read(a + k) = Cell("data", p.value, k)
    BY HasRead DEF HasProperty
  <2>2. a \in Nat /\ a + 0 = a
    BY PropertySizeType
  <2>3. CASE p.length = 0
    <3>1. w = 0
      BY <2>3 DEF RoundToLong
    <3>2. ~(w > 0)
      BY <3>1
    <3> HIDE DEF w, a
    <3> QED
      BY <2>3, <3>2 DEF ValueAt
  <2>4. CASE p.length # 0
    <3>1. w \in Nat /\ w > 0 /\ 0 \in 0 .. (w - 1)
      BY <1>1, <2>4 DEF RoundToLong
    <3>2. Read(a) = Cell("data", p.value, 0)
      <4> HIDE DEF w, a
      <4>1. Read(a + 0) = Cell("data", p.value, 0)
        BY <2>1, <3>1
      <4> QED
        BY <2>2, <4>1
    <3>3. Read(a).of = p.value
      BY <3>2 DEF Cell
    <3> HIDE DEF w, a
    <3> QED
      BY <2>1, <2>4, <3>1, <3>3 DEF ValueAt
  <2> QED
    BY <2>3, <2>4
<1>8. PropertyVal(x) = [name |-> p.name, length |-> p.length,
                        value |-> IF p.length = 0 THEN NULL ELSE p.value]
  <2>1. PropertyVal(x) = [name |-> NameAt(x), length |-> Read(x + NameWords).of,
                          value |-> ValueAt(a, RoundToLong(Read(x + NameWords).of))]
    BY DEF PropertyVal
  <2> QED
    BY <1>2, <1>6, <1>7, <2>1, Zenon
<1>9. Kernels(p) = [name |-> p.name, length |-> p.length,
                    value |-> IF p.length = 0 THEN NULL ELSE p.value]
  BY DEF Kernels, Property
<1> QED
  BY <1>2, <1>8, <1>9

-----------------------------------------------------------------------------
(* The whole tree is read back.                                            *)

LEMMA PropsRead ==
  ASSUME TypeOK, NEW i, Props(dt, i) \in Seq(Property), NEW x \in Nat, NEW ps,
         PropsAt(dt, buffer, i, x, ps, Len(Props(dt, i)))
  PROVE  /\ \A k \in 0 .. Len(Props(dt, i)) : Starts(x)[k] = ps[k]
         /\ \A k \in 1 .. Len(Props(dt, i)) :
               PropertyVal(Starts(x)[k - 1]) = Kernels(Props(dt, i)[k])
<1> DEFINE n == Len(Props(dt, i))
           S == {k \in 0 .. n : Starts(x)[k] = ps[k]}
<1>1. /\ ps \in [0 .. n -> Nat] /\ ps[0] = x + NodeSize
      /\ \A k \in 1 .. n :
            /\ HasProperty(buffer, ps[k - 1], Props(dt, i)[k])
            /\ ps[k] = (ps[k - 1] + PropertySize) + RoundToLong(Props(dt, i)[k].length)
  BY DEF PropsAt
<1>2. n \in Nat /\ \A k \in 1 .. n : Props(dt, i)[k] \in Property
  OBVIOUS
<1> HIDE DEF n
<1>3. ASSUME NEW k \in 1 .. n
      PROVE  /\ PropertyVal(ps[k - 1]) = Kernels(Props(dt, i)[k])
             /\ Read(ps[k - 1] + NameWords).of = Props(dt, i)[k].length
             /\ ps[k - 1] \in Nat
  <2>1. k - 1 \in 0 .. n
    BY <1>2
  <2>2. ps[k - 1] \in Nat
    BY <1>1, <2>1
  <2> QED
    BY <1>1, <1>2, <2>2, PropertyRead
<1>4. 0 \in S
  <2>1. Starts(x)[0] = x + NodeSize
    BY StartsAre
  <2>2. Starts(x)[0] = ps[0]
    BY <1>1, <2>1, Zenon
  <2>3. 0 \in 0 .. n
    BY <1>2
  <2> QED
    BY <2>2, <2>3
<1>5. ASSUME NEW k \in 0 .. (n - 1), k \in S PROVE k + 1 \in S
  <2>1. k + 1 \in 1 .. n /\ k + 1 \in 0 .. n /\ (k + 1) - 1 = k /\ k \in Nat
    BY <1>2
  <2>2. /\ ps[k + 1] = (ps[k] + PropertySize) + RoundToLong(Props(dt, i)[k + 1].length)
        /\ Read(ps[k] + NameWords).of = Props(dt, i)[k + 1].length
    BY <1>1, <1>3, <2>1, Zenon
  <2>3. Starts(x)[k + 1]
          = (Starts(x)[k] + PropertySize) + RoundToLong(Read(Starts(x)[k] + NameWords).of)
    BY <2>1, StartsAre
  <2>4. Starts(x)[k] = ps[k]
    BY <1>5
  <2>5. Starts(x)[k + 1] = ps[k + 1]
    BY <2>2, <2>3, <2>4, Zenon
  <2> QED
    BY <2>1, <2>5
<1>6. \A k \in 0 .. n : k \in S
  <2> HIDE DEF S
  <2> QED
    BY <1>2, <1>4, <1>5, BoundedInduction
<1>7. \A k \in 0 .. n : Starts(x)[k] = ps[k]
  BY <1>6
<1>8. ASSUME NEW k \in 1 .. n PROVE PropertyVal(Starts(x)[k - 1]) = Kernels(Props(dt, i)[k])
  <2>1. k - 1 \in 0 .. n
    BY <1>2
  <2>2. Starts(x)[k - 1] = ps[k - 1]
    BY <1>7, <2>1
  <2> QED
    BY <1>3, <2>2, Zenon
<1> QED
  BY <1>7, <1>8 DEF n

\* A node of which all below it is read back.
LEMMA WholeRead ==
  ASSUME TypeOK, NEW limit, EndsAt(limit), Linked(dt), dt \in Trees,
         NEW Z, NEW x \in Nat, NEW i \in DOMAIN dt.nodes, NEW e,
         Whole(dt, Z, buffer, x, i, e),
         \A k \in DOMAIN Kids(dt, i) : \A y, f :
            <<y, Kids(dt, i)[k], f>> \in Z =>
               Entry[y] = Tree[Kids(dt, i)[k]] /\ EndOf[y] = f
  PROVE  Entry[x] = Tree[i] /\ EndOf[x] = e
<1> DEFINE n == Len(Props(dt, i))
           m == Len(Kids(dt, i))
           c == ChildOf(EndOf, x)
<1>1. Read(x).of = n /\ Read(x + 1).of = m
  <2>1. Read(x) = Cell("nProperties", n, 0) /\ Read(x + 1) = Cell("nChildren", m, 0)
    BY HasRead DEF Whole
  <2> HIDE DEF n, m
  <2> QED
    BY <2>1 DEF Cell
<1>2. PICK ps : \E cs : /\ PropsAt(dt, buffer, i, x, ps, n)
                        /\ KidsAt(dt, Z, i, ps[n], cs, m)
                        /\ cs[m] = e
  BY Zenon DEF Whole
<1>3. PICK cs : /\ PropsAt(dt, buffer, i, x, ps, n)
                /\ KidsAt(dt, Z, i, ps[n], cs, m)
                /\ cs[m] = e
  BY <1>2
<1>4. /\ Props(dt, i) \in Seq(Property) /\ Kids(dt, i) \in Seq(Nat)
      /\ n \in Nat /\ m \in Nat
      /\ DOMAIN Props(dt, i) = 1 .. n /\ DOMAIN Kids(dt, i) = 1 .. m
  <2>1. dt.nodes[i] \in Node
    BY DEF Trees
  <2>2. Props(dt, i) \in Seq(Property) /\ Kids(dt, i) \in Seq(Nat)
    BY <2>1 DEF Props, Kids, Node
  <2> QED
    BY <2>2
<1>5. /\ \A k \in 0 .. n : Starts(x)[k] = ps[k]
      /\ \A k \in 1 .. n : PropertyVal(Starts(x)[k - 1]) = Kernels(Props(dt, i)[k])
  BY <1>3, <1>4, PropsRead
<1>6. c[0] = Starts(x)[n] /\ \A k \in Nat : c[k + 1] = EndOf[c[k]]
  <2>1. \A E : /\ ChildOf(E, x)[0] = Starts(x)[Read(x).of]
               /\ \A k \in Nat : ChildOf(E, x)[k + 1] = E[ChildOf(E, x)[k]]
    BY ChildIs
  <2>2. c[0] = Starts(x)[Read(x).of] /\ \A k \in Nat : c[k + 1] = EndOf[c[k]]
    BY <2>1
  <2> QED
    BY <1>1, <2>2, Zenon
<1>7. EndOf[x] = c[m]
  BY <1>1, EndsBehind DEF EndVal
<1>8. Entry[x] = [properties |-> [k \in 1 .. n |-> PropertyVal(Starts(x)[k - 1])],
                  children |-> [k \in 1 .. m |-> Entry[c[k - 1]]]]
  BY <1>1, EntryIs DEF EntryVal
<1>9. Tree[i] = [properties |-> [k \in 1 .. n |-> Kernels(Props(dt, i)[k])],
                 children |-> [k \in 1 .. m |-> Tree[Kids(dt, i)[k]]]]
  <2>1. Tree[i] = TreeVal(Tree, i)
    BY TreeIs
  <2>2. Tree[i] = [properties |-> [k \in DOMAIN Props(dt, i) |-> Kernels(Props(dt, i)[k])],
                   children |-> [k \in DOMAIN Kids(dt, i) |-> Tree[Kids(dt, i)[k]]]]
    BY <2>1 DEF TreeVal, Props, Kids
  <2> HIDE DEF n, m
  <2> QED
    BY <1>4, <2>2, Zenon
<1> HIDE DEF c, n, m
<1>10. /\ cs[0] = ps[n]
       /\ \A k \in 1 .. m : <<cs[k - 1], Kids(dt, i)[k], cs[k]>> \in Z
  BY <1>3 DEF KidsAt
<1>11. ASSUME NEW k \in 1 .. m
       PROVE  Entry[cs[k - 1]] = Tree[Kids(dt, i)[k]] /\ EndOf[cs[k - 1]] = cs[k]
  <2>1. k \in DOMAIN Kids(dt, i) /\ <<cs[k - 1], Kids(dt, i)[k], cs[k]>> \in Z
    BY <1>4, <1>10
  <2>2. \A y, f : <<y, Kids(dt, i)[k], f>> \in Z =>
           Entry[y] = Tree[Kids(dt, i)[k]] /\ EndOf[y] = f
    BY <2>1
  <2> DEFINE y == cs[k - 1]
             f == cs[k]
  <2>3. <<y, Kids(dt, i)[k], f>> \in Z
    BY <2>1
  <2> HIDE DEF y, f
  <2>4. Entry[y] = Tree[Kids(dt, i)[k]] /\ EndOf[y] = f
    BY <2>2, <2>3
  <2> QED
    BY <2>4 DEF y, f
<1> DEFINE S == {k \in 0 .. m : c[k] = cs[k]}
<1>12. 0 \in S
  <2>1. n \in 0 .. n
    BY <1>4
  <2>2. c[0] = cs[0]
    BY <1>5, <1>6, <1>10, <2>1
  <2> QED
    BY <1>4, <2>2
<1>13. ASSUME NEW k \in 0 .. (m - 1), k \in S PROVE k + 1 \in S
  <2>1. k + 1 \in 1 .. m /\ k + 1 \in 0 .. m /\ (k + 1) - 1 = k /\ k \in Nat
    BY <1>4
  <2>2. EndOf[cs[k]] = cs[k + 1]
    BY <1>11, <2>1, Zenon
  <2>3. c[k + 1] = EndOf[c[k]] /\ c[k] = cs[k]
    BY <1>6, <1>13, <2>1
  <2> QED
    BY <2>1, <2>2, <2>3
<1>14. \A k \in 0 .. m : k \in S
  <2> HIDE DEF S
  <2> QED
    BY <1>4, <1>12, <1>13, BoundedInduction
<1>15. ASSUME NEW k \in 1 .. m PROVE Entry[c[k - 1]] = Tree[Kids(dt, i)[k]]
  <2>1. k - 1 \in 0 .. m
    BY <1>4
  <2>2. c[k - 1] = cs[k - 1]
    BY <1>14, <2>1
  <2> QED
    BY <1>11, <2>2
<1>16. EndOf[x] = e
  <2>1. m \in 0 .. m
    BY <1>4
  <2> QED
    BY <1>3, <1>7, <1>14, <2>1
<1>17. Entry[x] = Tree[i]
  <2>1. [k \in 1 .. n |-> PropertyVal(Starts(x)[k - 1])]
          = [k \in 1 .. n |-> Kernels(Props(dt, i)[k])]
    BY <1>5, Zenon
  <2>2. [k \in 1 .. m |-> Entry[c[k - 1]]] = [k \in 1 .. m |-> Tree[Kids(dt, i)[k]]]
    BY <1>15, Zenon
  <2> QED
    BY <1>8, <1>9, <2>1, <2>2, Zenon
<1> QED
  BY <1>16, <1>17

LEMMA AllRead ==
  ASSUME TypeOK, NEW limit, EndsAt(limit), Linked(dt), dt \in Trees,
         NEW Z, Supported(dt, Z, buffer), NEW x, NEW i, NEW e, <<x, i, e>> \in Z
  PROVE  Entry[x] = Tree[i] /\ EndOf[x] = e
<1> DEFINE N == Len(dt.nodes)
           S == {n \in 0 .. N : \A j \in DOMAIN dt.nodes : j > N - n =>
                    \A y, f : <<y, j, f>> \in Z => Entry[y] = Tree[j] /\ EndOf[y] = f}
<1>1. N \in Nat /\ DOMAIN dt.nodes = 1 .. N
  BY DEF Trees
<1>2. 0 \in S
  BY <1>1
<1>3. ASSUME NEW n \in 0 .. (N - 1), n \in S PROVE n + 1 \in S
  <2>1. ASSUME NEW j \in DOMAIN dt.nodes, j > N - (n + 1), NEW y, NEW f, <<y, j, f>> \in Z
        PROVE  Entry[y] = Tree[j] /\ EndOf[y] = f
    <3>1. Whole(dt, Z, buffer, y, j, f) /\ <<y, j, f>> \in Places3(dt)
      BY <2>1 DEF Supported
    <3>2. y \in Nat
      BY <3>1 DEF Places3
    <3>3. ASSUME NEW k \in DOMAIN Kids(dt, j)
          PROVE  Kids(dt, j)[k] \in DOMAIN dt.nodes /\ Kids(dt, j)[k] > N - n
      <4>1. Kids(dt, j)[k] \in (j + 1) .. N
        BY <3>3 DEF Linked
      <4>2. j \in 1 .. N
        BY <1>1
      <4> HIDE DEF N
      <4> QED
        BY <1>1, <2>1, <4>1, <4>2
    <3>4. \A k \in DOMAIN Kids(dt, j) : \A z, g :
             <<z, Kids(dt, j)[k], g>> \in Z =>
                Entry[z] = Tree[Kids(dt, j)[k]] /\ EndOf[z] = g
      BY <1>3, <3>3
    <3> QED
      BY <3>1, <3>2, <3>4, WholeRead
  <2>2. n + 1 \in 0 .. N
    BY <1>1
  <2> QED
    BY <2>1, <2>2
<1>4. N \in S
  <2> HIDE DEF S
  <2>1. \A n \in 0 .. N : n \in S
    BY <1>1, <1>2, <1>3, BoundedInduction
  <2> QED
    BY <1>1, <2>1
<1>5. i \in DOMAIN dt.nodes
  <2>1. <<x, i, e>> \in Places3(dt)
    BY DEF Supported
  <2> QED
    BY <2>1 DEF Places3
<1>6. i > N - N
  BY <1>1, <1>5
<1> QED
  BY <1>4, <1>5, <1>6

LEMMA ReadsBackFollows ==
  ASSUME TreeInv, Laid
  PROVE  ReadsBack
<1> SUFFICES ASSUME pc = "done", NamesFit
             PROVE  Entry[0] = Tree[dt.rootNode] /\ EndOf[0] = length
  BY DEF ReadsBack
<1>1. Flattening
  BY DEF Flattening
<1>2. /\ TypeOK /\ Kept(dt) /\ dt \in Trees /\ Linked(dt) /\ stack = <<>>
      /\ Behind /\ DOMAIN buffer \subseteq Nat /\ pos \in Nat
  BY <1>1 DEF TreeInv, Kept, TypeOK
<1>3. EndsAt(pos)
  BY <1>2 DEF EndsAt, Behind
<1>4. PICK Z : Supported(dt, Z, buffer) /\ <<0, dt.rootNode, pos>> \in Z
  BY <1>1, <1>2 DEF Laid, LaidOut
<1>5. Entry[0] = Tree[dt.rootNode] /\ EndOf[0] = pos
  BY <1>2, <1>3, <1>4, AllRead
<1>6. pos = length
  BY FitsFollows DEF FitsMeasured, MeasuredIsWritten
<1> QED
  BY <1>5, <1>6

-----------------------------------------------------------------------------
(* A client's tree.                                                        *)

\* Each variable keeps its type, whatever a client adds and however many
\* buffers malloc can give: the children and the frames of the walk are
\* nodes, and what is written is words of a flattened tree.
THEOREM TreeTypeCorrect == Spec => []TypeOK
<1>1. TreeInv => TypeOK
  BY DEF TreeInv
<1> QED
  BY <1>1, SpecKeeps, PTL

\* DTInfo's counters are of the nodes and properties that there are, and each
\* node but the root stands below one other, whatever additions were made and
\* refused (DT__AddChild and DT__AddProperty).
THEOREM CountsCorrect == Spec => []CountsHold
  BY CountsHoldFollows, SpecKeeps, PTL

\* However a tree was built, the walk of FlattenNodes over its links stays in
\* the memory that DT__FlattenDeviceTree measured by the counters, and fills
\* it to its end.
THEOREM FitsCorrect == Spec => []FitsMeasured
  BY FitsFollows, SpecKeeps, PTL

\* What a client has built is what the kernel reads out of the memory it was
\* flattened to: the same nodes and properties, in the same places, and it
\* ends where the tree was measured to end.  FlattenNodes (device_tree.c,
\* 223-254) goes through the links, the kernel through the counts and the
\* lengths it finds.
THEOREM ReadsBackCorrect == Spec => []ReadsBack
<1>1. TreeInv /\ Laid => ReadsBack
  BY ReadsBackFollows
<1> QED
  BY <1>1, SpecLays, PTL

-----------------------------------------------------------------------------
(* The loader's entries, on top of any tree that the XML may have given.   *)

StageInv ==
    /\ TreeInv
    /\ pc # "start"
    /\ entered \in Nat
    /\ pc = "enter" => {gChosen, memory_map} \subseteq DOMAIN dt.nodes

LEMMA StageInitHolds == StageInit => StageInv
<1> SUFFICES ASSUME StageInit PROVE StageInv
  OBVIOUS
<1>1. dt \in Trees /\ Grown(dt) /\ Counted(dt)
  BY StageAssumption DEF StageInit
<1>2. Kept(dt)
  BY <1>1, KeptFollows
<1>3. DOMAIN buffer \subseteq Nat /\ buffer \in [DOMAIN buffer -> Word]
  BY DEF StageInit
<1>4. TypeOK
  BY <1>1, <1>3 DEF StageInit, TypeOK
<1> QED
  BY <1>2, <1>4 DEF StageInit, StageInv, TreeInv, Flattening

\* Each node that CreateMemoryMapNode is given a pointer to is in the tree; a
\* null pointer for /chosen makes the memory map a child of no node that is
\* there, but then there was no room for it either.
LEMMA CreateMemoryMapNodeKeeps ==
  ASSUME StageInv, CreateMemoryMapNode
  PROVE  StageInv'
<1>1. PICK d1 : d1 = WithNamed(dt, dt.rootNode, NameProperty, 7, Chosen)
  OBVIOUS
<1>2. PICK d2 : d2 = WithNamed(d1, Returned(dt), NameProperty, 11, MemoryMap)
  OBVIOUS
<1>3. PICK d3 : d3 = WithNamed(d2, d2.rootNode, NameProperty, 8, Options)
  OBVIOUS
<1>4. /\ pc = "stage2" /\ dt' = d3 /\ gChosen' = Returned(dt)
      /\ memory_map' = Returned(d1) /\ entered' = entered /\ UnchangedFlat
      /\ pc' = IF memory_map' = NULL \/ gChosen' = NULL THEN "halted"
               ELSE "enter"
  BY <1>1, <1>2, <1>3 DEF CreateMemoryMapNode
<1>5. /\ NameProperty \in Names /\ Chosen \in Nat /\ MemoryMap \in Nat
      /\ Options \in Nat /\ NULL = 0
  BY StageAssumption DEF Chosen, MemoryMap, Options, NULL
<1>6. Kept(dt) /\ dt.rootNode \in DOMAIN dt.nodes /\ Len(dt.nodes) \in Nat
  BY <1>4, NodeType DEF StageInv, TreeInv, Kept, Linked
<1>7. /\ Kept(d1) /\ Len(d1.nodes) \in Nat /\ DOMAIN d1.nodes = 1 .. Len(d1.nodes)
      /\ Len(d1.nodes) = IF NodeRefused(dt) THEN Len(dt.nodes)
                         ELSE Len(dt.nodes) + 1
  <2>1. Kept(d1) /\ Len(d1.nodes) = IF NodeRefused(dt) THEN Len(dt.nodes)
                                    ELSE Len(dt.nodes) + 1
    BY <1>1, <1>5, <1>6, NamedKept
  <2> QED
    BY <2>1, NodeType DEF Kept, Linked
<1>8. /\ Kept(d2)
      /\ Len(d2.nodes) = IF NodeRefused(d1) THEN Len(d1.nodes)
                         ELSE Len(d1.nodes) + 1
  <2>1. CASE NodeRefused(d1)
    BY <1>2, <1>7, <2>1 DEF WithNamed
  <2>2. CASE ~NodeRefused(d1)
    <3>1. ~NodeRefused(dt)
      BY <1>1, <2>2 DEF WithNamed
    <3>2. Returned(dt) = Len(dt.nodes) + 1
      BY <3>1 DEF Returned
    <3>3. PICK node : node = Returned(dt)
      OBVIOUS
    <3>4. node \in DOMAIN d1.nodes
      BY <1>6, <1>7, <3>1, <3>2, <3>3
    <3>5. d2 = WithNamed(d1, node, NameProperty, 11, MemoryMap)
      BY <1>2, <3>3
    <3>6. 11 \in Nat /\ NameProperty \in Names /\ MemoryMap \in Nat /\ Kept(d1)
      BY <1>5, <1>7
    <3> QED
      BY <3>4, <3>5, <3>6, NamedKept
  <2> QED
    BY <2>1, <2>2
<1>9. d2.rootNode \in DOMAIN d2.nodes /\ Len(d2.nodes) \in Nat
  BY <1>8, NodeType DEF Kept, Linked
<1>10. /\ Kept(d3) /\ DOMAIN d3.nodes = 1 .. Len(d3.nodes)
       /\ Len(d3.nodes) \in Nat /\ Len(d3.nodes) >= Len(d2.nodes)
  <2>1. Kept(d3) /\ Len(d3.nodes) = IF NodeRefused(d2) THEN Len(d2.nodes)
                                    ELSE Len(d2.nodes) + 1
    BY <1>3, <1>5, <1>8, <1>9, NamedKept
  <2>2. DOMAIN d3.nodes = 1 .. Len(d3.nodes) /\ Len(d3.nodes) \in Nat
    BY <2>1, NodeType DEF Kept, Linked
  <2> QED
    BY <1>9, <2>1, <2>2
<1>11. TreeInv'
  BY <1>4, <1>10, BuildingKeeps DEF StageInv
<1>12. ASSUME pc' = "enter"
       PROVE  {gChosen, memory_map}' \subseteq DOMAIN d3.nodes
  <2>1. ~NodeRefused(dt) /\ ~NodeRefused(d1)
    BY <1>4, <1>12 DEF Returned
  <2>2. gChosen' = Len(dt.nodes) + 1 /\ memory_map' = Len(d1.nodes) + 1
    BY <1>4, <2>1 DEF Returned
  <2> QED
    BY <1>6, <1>7, <1>8, <1>9, <1>10, <2>1, <2>2
<1> QED
  BY <1>4, <1>11, <1>12 DEF StageInv

\* A property for a node that is there, after malloc calls for the key or for
\* the range.
LEMMA EntryKept ==
  ASSUME Kept(dt), NEW r \in Nat, NEW node \in DOMAIN dt.nodes,
         NEW name \in Names, NEW n \in Nat, NEW value \in Nat
  PROVE  LET d == WithProperty([dt EXCEPT !.room = r], node, name, n, value)
         IN  Kept(d) /\ Len(d.nodes) = Len(dt.nodes)
<1>1. PICK e : e = [dt EXCEPT !.room = r]
  OBVIOUS
<1>2. Kept(e)
  BY <1>1, RoomKept
<1>3. e.nodes = dt.nodes
  BY <1>1 DEF Kept, Trees
<1>4. /\ Kept(WithProperty(e, node, name, n, value))
      /\ Len(WithProperty(e, node, name, n, value).nodes) = Len(e.nodes)
  BY <1>2, <1>3, PropertyKept
<1> QED
  BY <1>1, <1>3, <1>4

\* The nodes there were are still there.
LEMMA EnteringKeeps ==
  ASSUME StageInv, pc = "enter", Kept(dt'), Len(dt'.nodes) = Len(dt.nodes),
         UnchangedFlat, UNCHANGED <<memory_map, gChosen>>,
         pc' \in {"enter", "build"}, entered' \in Nat
  PROVE  StageInv'
<1>1. TreeInv'
  BY BuildingKeeps DEF StageInv
<1>2. dt \in Trees /\ dt' \in Trees
  BY DEF StageInv, TreeInv, Kept
<1>3. DOMAIN dt'.nodes = DOMAIN dt.nodes
  BY <1>2, LenProperties DEF Trees
<1> QED
  BY <1>1, <1>3 DEF StageInv

LEMMA CreateDeviceTreeNodeKeeps ==
  ASSUME StageInv, CreateDeviceTreeNode
  PROVE  StageInv'
<1> DEFINE call == Entries[entered + 1]
           node == IF call[1] = "root" THEN dt.rootNode ELSE gChosen
<1>1. /\ pc = "enter" /\ entered < Len(Entries) /\ entered' = entered + 1
      /\ pc' = pc /\ UNCHANGED <<memory_map, gChosen>> /\ UnchangedFlat
      /\ dt' = IF dt.room = 0 THEN dt
               ELSE WithProperty([dt EXCEPT !.room = dt.room - 1], node,
                                 OtherName, call[2], OtherValue)
  BY DEF CreateDeviceTreeNode
<1>2. entered \in Nat /\ entered' \in Nat /\ pc' \in {"enter", "build"}
  BY <1>1 DEF StageInv
<1>3. Len(Entries) = 17 /\ entered + 1 \in 1 .. 17
  BY <1>1, <1>2 DEF Entries
<1>4. \A k \in 1 .. 17 : Entries[k][2] \in Nat
  BY DEF Entries
<1>5. call[2] \in Nat
  BY <1>3, <1>4
<1>6. Kept(dt) /\ dt.room \in Nat /\ node \in DOMAIN dt.nodes
  BY <1>1 DEF StageInv, TreeInv, Kept, Trees, Linked
<1>7. OtherName \in Names /\ OtherValue \in Nat
  BY StageAssumption DEF OtherValue
<1> HIDE DEF call, node
<1>8. CASE dt.room = 0
  BY <1>1, <1>2, <1>6, <1>8, EnteringKeeps
<1>9. CASE dt.room # 0
  <2>1. dt.room - 1 \in Nat
    BY <1>6, <1>9
  <2>2. Kept(dt') /\ Len(dt'.nodes) = Len(dt.nodes)
    BY <1>1, <1>5, <1>6, <1>7, <1>9, <2>1, EntryKept
  <2> QED
    BY <1>1, <1>2, <2>2, EnteringKeeps
<1> QED
  BY <1>8, <1>9

LEMMA RelocateKeeps ==
  ASSUME StageInv, Relocate
  PROVE  StageInv'
<1>1. /\ pc = "enter" /\ pc' = "build" /\ UnchangedFlat
      /\ dt' = IF ramdisk THEN WithRange(dt) ELSE dt
      /\ UNCHANGED <<memory_map, gChosen>> /\ entered' = entered
  BY DEF Relocate, stageVars
<1>2. /\ Kept(dt) /\ dt.room \in Nat /\ memory_map \in DOMAIN dt.nodes
      /\ entered' \in Nat
  BY <1>1 DEF StageInv, TreeInv, Kept, Trees
<1>3. RAMDisk \in Names /\ Relocated \in Nat
  BY StageAssumption DEF Relocated
<1>4. Kept(dt') /\ Len(dt'.nodes) = Len(dt.nodes)
  <2>1. CASE ~ramdisk
    BY <1>1, <1>2, <2>1
  <2>2. CASE ramdisk /\ dt.room < 2
    <3>1. dt' = [dt EXCEPT !.room = 0]
      BY <1>1, <2>2 DEF WithRange
    <3>2. dt'.nodes = dt.nodes
      BY <1>2, <3>1 DEF Kept, Trees
    <3> QED
      BY <1>2, <3>1, <3>2, RoomKept
  <2>3. CASE ramdisk /\ ~(dt.room < 2)
    <3>1. dt.room - 2 \in Nat
      BY <1>2, <2>3
    <3>2. dt' = WithProperty([dt EXCEPT !.room = dt.room - 2], memory_map,
                             RAMDisk, 8, Relocated)
      BY <1>1, <2>3 DEF WithRange
    <3>3. PICK r : r = dt.room - 2
      OBVIOUS
    <3>4. PICK map : map = memory_map
      OBVIOUS
    <3>5. /\ r \in Nat /\ map \in DOMAIN dt.nodes /\ 8 \in Nat
          /\ dt' = WithProperty([dt EXCEPT !.room = r], map, RAMDisk, 8, Relocated)
      BY <1>2, <3>1, <3>2, <3>3, <3>4
    <3> QED
      BY <1>2, <1>3, <3>5, EntryKept
  <2> QED
    BY <2>1, <2>2, <2>3
<1> QED
  BY <1>1, <1>2, <1>4, EnteringKeeps

LEMMA FlattenKeeps ==
  ASSUME StageInv, Flatten
  PROVE  StageInv'
<1>1. TreeInv /\ entered' = entered
  BY DEF StageInv, Flatten, stageVars
<1>2. TreeInv'
  BY <1>1, StartFlattenKeeps, FlattenPropertyKeeps, EndPropertiesKeeps,
     FlattenChildKeeps, EndChildrenKeeps DEF Flatten
<1>3. pc' \in {"flatten", "done"}
  BY DEF Flatten, StartFlatten, FlattenProperty, EndProperties, FlattenChild,
         EndChildren
<1> QED
  BY <1>1, <1>2, <1>3 DEF StageInv

LEMMA StageNextKeeps == StageInv /\ [StageNext]_<<vars, stageVars>> => StageInv'
<1> SUFFICES ASSUME StageInv, [StageNext]_<<vars, stageVars>> PROVE StageInv'
  OBVIOUS
<1>1. CASE StageNext
  BY <1>1, CreateMemoryMapNodeKeeps, CreateDeviceTreeNodeKeeps, RelocateKeeps,
     FlattenKeeps DEF StageNext
<1>2. CASE UNCHANGED <<vars, stageVars>>
  <2>1. UNCHANGED vars /\ UNCHANGED stageVars
    BY <1>2
  <2>2. TreeInv'
    BY <2>1, StutterKeeps DEF StageInv
  <2> QED
    BY <2>1, <2>2 DEF StageInv, vars, stageVars
<1> QED
  BY <1>1, <1>2

LEMMA StageSpecKeeps == StageSpec => []StageInv
  BY StageInitHolds, StageNextKeeps, PTL DEF StageSpec

\* The same of the loader's own entries, which look at no result but those of
\* two pointers: the nodes they add to are in the tree...
THEOREM LoaderTypeCorrect == StageSpec => []TypeOK
<1>1. StageInv => TypeOK
  BY DEF StageInv, TreeInv
<1> QED
  BY <1>1, StageSpecKeeps, PTL

\* ... its counters are right, wherever in prepare_devicetree_stage2 the heap
\* was used up...
THEOREM LoaderCountsCorrect == StageSpec => []CountsHold
<1>1. StageInv => CountsHold
  BY CountsHoldFollows DEF StageInv
<1> QED
  BY <1>1, StageSpecKeeps, PTL

\* ... and what is flattened for the kernel fits the memory reserved for it.
THEOREM LoaderFitsCorrect == StageSpec => []FitsMeasured
<1>1. StageInv => FitsMeasured
  BY FitsFollows DEF StageInv
<1> QED
  BY <1>1, StageSpecKeeps, PTL

LEMMA StageNextLays == StageInv /\ Laid /\ [StageNext]_<<vars, stageVars>> => Laid'
<1> SUFFICES ASSUME StageInv, Laid, [StageNext]_<<vars, stageVars>> PROVE Laid'
  OBVIOUS
<1>1. TreeInv
  BY DEF StageInv
<1>2. CASE Flatten
  <2>1. CASE StartFlatten
    BY <1>1, <2>1, StartFlattenLays
  <2>2. CASE FlattenProperty \/ EndProperties \/ FlattenChild \/ EndChildren
    BY <1>1, <2>2, FlattenLays
  <2> QED
    BY <1>2, <2>1, <2>2 DEF Flatten
<1>3. CASE CreateMemoryMapNode \/ CreateDeviceTreeNode \/ Relocate
  <2>1. ~Flattening'
    BY <1>3 DEF CreateMemoryMapNode, CreateDeviceTreeNode, Relocate, Flattening
  <2> QED
    BY <2>1, BuildingLays
<1>4. CASE UNCHANGED <<vars, stageVars>>
  <2>1. UNCHANGED vars
    BY <1>4 DEF stageVars
  <2> QED
    BY <2>1, StutterLays
<1> QED
  BY <1>2, <1>3, <1>4 DEF StageNext

\* And so of the tree the loader hands to the kernel, with all it entered
\* there after the XML was read (bootx.c, prepare_devicetree_stage2).
THEOREM LoaderReadsBackCorrect == StageSpec => []ReadsBack
<1>1. StageInit => StageInv /\ Laid
  <2>1. StageInit => ~Flattening
    BY DEF StageInit, Flattening
  <2> QED
    BY <2>1, StageInitHolds DEF Laid
<1>2. (StageInv /\ Laid) /\ [StageNext]_<<vars, stageVars>> => (StageInv /\ Laid)'
  BY StageNextKeeps, StageNextLays
<1>3. StageInv /\ Laid => ReadsBack
  BY ReadsBackFollows DEF StageInv
<1> QED
  BY <1>1, <1>2, <1>3, PTL DEF StageSpec

-----------------------------------------------------------------------------
(* The ramdisk in the loader's tree.                                       *)

NewProperty(name, n, value) == [name |-> name, length |-> n, value |-> value]

\* The same tree, but that a node may have one property more, and has it if
\* the heap has something left.
Extends(d, e, node, p) ==
    /\ e.room \in Nat /\ e.room <= d.room
    /\ DOMAIN e.nodes = DOMAIN d.nodes
    /\ \A i \in DOMAIN d.nodes : Kids(e, i) = Kids(d, i)
    /\ \A i \in DOMAIN d.nodes : i # node => Props(e, i) = Props(d, i)
    /\ Props(e, node) \in {Props(d, node), Append(Props(d, node), p)}
    /\ e.room > 0 => Props(e, node) = Append(Props(d, node), p)

\* What DT__AddProperty does.
LEMMA PropertyPut ==
  ASSUME NEW d, Kept(d), NEW node \in DOMAIN d.nodes, NEW name \in Names,
         NEW n \in Nat, NEW value \in Nat, NEW e, e = WithProperty(d, node, name, n, value)
  PROVE  Extends(d, e, node, NewProperty(name, n, value))
<1> DEFINE p == NewProperty(name, n, value)
<1>1. e \in Trees /\ d \in Trees /\ d.room \in Nat
  BY PropertyKept DEF Kept, Trees
<1>2. CASE PropertyRefused(d)
  <2>1. e = d /\ d.room = 0
    BY <1>2 DEF WithProperty, PropertyRefused
  <2> QED
    BY <1>1, <2>1 DEF Extends
<1>3. CASE ~PropertyRefused(d)
  <2>1. e = [d EXCEPT
               !.room = IF d.freeProperties = 0 THEN @ - 1 ELSE @,
               !.freeProperties = Refilled(@) - 1,
               !.nodes[node].properties = Append(@, p),
               !.numProperties = @ + 1,
               !.totalPropertySize = @ + RoundToLong(n)]
    BY <1>3 DEF WithProperty, NewProperty
  <2> DEFINE m == [d.nodes[node] EXCEPT !.properties = Append(@, p)]
  <2>2. /\ e.nodes = [d.nodes EXCEPT ![node] = m]
        /\ e.room = IF d.freeProperties = 0 THEN d.room - 1 ELSE d.room
    BY <1>1, <2>1 DEF Trees
  <2>3. e.room \in Nat /\ e.room <= d.room
    <3>1. d.freeProperties = 0 => d.room # 0
      BY <1>3 DEF PropertyRefused
    <3> QED
      BY <1>1, <2>2, <3>1
  <2>4. d.nodes[node] \in Node
    BY <1>1, NodeType
  <2>5. m.children = d.nodes[node].children
        /\ m.properties = Append(d.nodes[node].properties, p)
    BY <2>4 DEF Node
  <2> HIDE DEF p, m
  <2>6. DOMAIN e.nodes = DOMAIN d.nodes
        /\ \A i \in DOMAIN d.nodes : e.nodes[i] = IF i = node THEN m ELSE d.nodes[i]
    BY <2>2
  <2>7. /\ \A i \in DOMAIN d.nodes : Kids(e, i) = Kids(d, i)
        /\ \A i \in DOMAIN d.nodes : i # node => Props(e, i) = Props(d, i)
        /\ Props(e, node) = Append(Props(d, node), p)
    BY <2>5, <2>6 DEF Kids, Props
  <2> QED
    BY <1>1, <2>3, <2>6, <2>7 DEF p, Extends
<1> QED
  BY <1>2, <1>3

\* The same tree with a node more, first among its parent's children.
Adds(d, e, parent, node, p) ==
    /\ d.room > 0
    /\ DOMAIN e.nodes = DOMAIN d.nodes \cup {node} /\ node \notin DOMAIN d.nodes
    /\ \A i \in DOMAIN d.nodes :
          /\ Props(e, i) = Props(d, i)
          /\ i # parent => Kids(e, i) = Kids(d, i)
    /\ Kids(e, parent) = <<node>> \o Kids(d, parent) /\ Kids(e, node) = <<>>
    /\ Props(e, node) = <<p>>

\* And DT__AddChild with a name, if that leaves the heap something.
LEMMA NamedPut ==
  ASSUME NEW d, Kept(d), NEW parent \in DOMAIN d.nodes, NEW n \in Nat, NEW value \in Nat,
         NEW e, e = WithNamed(d, parent, NameProperty, n, value), e.room > 0
  PROVE  Adds(d, e, parent, Len(d.nodes) + 1, NewProperty(NameProperty, n, value))
<1> DEFINE node == Len(d.nodes) + 1
           p == NewProperty(NameProperty, n, value)
<1>1. NameProperty \in Names
  BY StageAssumption
<1>2. d \in Trees /\ d.room \in Nat /\ Len(d.nodes) \in Nat /\ DOMAIN d.nodes = 1 .. Len(d.nodes)
  BY NodeType DEF Kept, Trees
<1>3. ~NodeRefused(d)
  <2>1. NodeRefused(d) => e = d /\ d.room = 0
    BY DEF WithNamed, NodeRefused
  <2> QED
    BY <2>1
<1>4. PICK f : f = WithNode(d, parent)
  OBVIOUS
<1>5. /\ f \in Trees /\ Len(f.nodes) = node /\ DOMAIN f.nodes = 1 .. node
      /\ f.nodes[node] = NewNode
      /\ \A i \in 1 .. Len(d.nodes) :
            /\ f.nodes[i].properties = d.nodes[i].properties
            /\ i # parent => f.nodes[i] = d.nodes[i]
      /\ f.nodes[parent].children = <<node>> \o d.nodes[parent].children
  BY <1>2, <1>3, <1>4, NodeAdded
<1>6. Kept(f)
  BY <1>3, <1>4, NodeKept
<1>7. f.room <= d.room /\ f.room \in Nat
  <2>1. f.room = IF d.freeNodes = 0 THEN d.room - 1 ELSE d.room
    <3>1. parent # NULL
      BY <1>2 DEF NULL
    <3> QED
      BY <1>2, <1>4, <3>1 DEF WithNode, Trees
  <2>2. f.room \in Nat
    BY <1>5 DEF Trees
  <2> QED
    BY <1>2, <2>1, <2>2
<1>8. e = WithProperty(f, node, NameProperty, n, value)
  BY <1>3, <1>4, <1>5 DEF WithNamed
<1>9. node \in DOMAIN f.nodes /\ node \notin DOMAIN d.nodes /\ DOMAIN f.nodes = DOMAIN d.nodes \cup {node}
  BY <1>2, <1>5
<1> HIDE DEF node, p
<1>10. /\ e.room <= f.room /\ e.room \in Nat /\ DOMAIN e.nodes = DOMAIN f.nodes
       /\ \A i \in DOMAIN f.nodes : Kids(e, i) = Kids(f, i)
       /\ \A i \in DOMAIN f.nodes : i # node => Props(e, i) = Props(f, i)
       /\ Props(e, node) = Append(Props(f, node), NewProperty(NameProperty, n, value))
  <2>1. Extends(f, e, node, NewProperty(NameProperty, n, value))
    BY <1>1, <1>6, <1>8, <1>9, PropertyPut
  <2> QED
    BY <2>1 DEF Extends
<1>11. Props(e, node) = <<p>> /\ Kids(e, node) = <<>>
  <2>1. Props(f, node) = <<>> /\ Kids(f, node) = <<>>
    BY <1>5 DEF Props, Kids, NewNode
  <2>2. Append(<<>>, p) = <<p>>
    OBVIOUS
  <2> QED
    BY <1>9, <1>10, <2>1, <2>2 DEF p
<1>12. ASSUME NEW i \in DOMAIN d.nodes
       PROVE  Props(e, i) = Props(d, i) /\ (i # parent => Kids(e, i) = Kids(d, i))
  <2>1. i \in DOMAIN f.nodes /\ i # node /\ i \in 1 .. Len(d.nodes)
    BY <1>2, <1>9
  <2>2. Props(e, i) = Props(f, i) /\ Kids(e, i) = Kids(f, i)
    BY <1>10, <2>1
  <2>3. Props(f, i) = Props(d, i) /\ (i # parent => Kids(f, i) = Kids(d, i))
    BY <1>5, <2>1 DEF Props, Kids
  <2> QED
    BY <2>2, <2>3
<1>13. Kids(e, parent) = <<node>> \o Kids(d, parent)
  <2>1. parent \in DOMAIN f.nodes
    BY <1>9
  <2>2. Kids(e, parent) = Kids(f, parent)
    BY <1>10, <2>1
  <2> QED
    BY <1>5, <2>2 DEF Kids
<1>14. d.room > 0
  BY <1>2, <1>7, <1>10
<1> QED
  BY <1>3, <1>9, <1>10, <1>11, <1>12, <1>13, <1>14 DEF node, p, Adds

-----------------------------------------------------------------------------

\* Nothing is said of a ramdisk but what the loader or the XML may say.
Says(d) ==
    \A i \in DOMAIN d.nodes : \A k \in DOMAIN Props(d, i) :
       Props(d, i)[k].name = RAMDisk => Props(d, i)[k].value \in {Relocated, OtherValue}

NamedFirst(d, i, value) ==
    /\ i \in DOMAIN d.nodes /\ 1 \in DOMAIN Props(d, i)
    /\ Props(d, i)[1].name = NameProperty
    /\ Props(d, i)[1].value = value /\ Props(d, i)[1].length # 0

\* What CreateMemoryMapNode makes, in front of what the root had before.
Mapped(d, g, m) ==
    /\ {1, 2} \subseteq DOMAIN Kids(d, 1)
    /\ NamedFirst(d, Kids(d, 1)[1], Options)
    /\ Kids(d, 1)[2] = g /\ NamedFirst(d, g, Chosen)
    /\ Kids(d, g) = <<m>> /\ NamedFirst(d, m, MemoryMap)

Disks(d, m) == {k \in DOMAIN Props(d, m) : Props(d, m)[k].name = RAMDisk}

HasDisk(d, m) ==
    /\ Disks(d, m) # {}
    /\ \A k \in Disks(d, m) : Props(d, m)[k] = NewProperty(RAMDisk, 8, Relocated)

Entered == pc \in {"enter", "build", "flatten", "done"}

RamdiskInv ==
    /\ pc # "halted" => Says(dt)
    /\ Entered => gChosen # NULL
    /\ Entered /\ NothingRefused => Mapped(dt, gChosen, memory_map)
    /\ Entered /\ NothingRefused /\ (pc = "enter" \/ ~ramdisk) => Disks(dt, memory_map) = {}
    /\ Entered /\ NothingRefused /\ pc # "enter" /\ ramdisk => HasDisk(dt, memory_map)

LEMMA Appended ==
  ASSUME NEW s \in Seq(Property), NEW p
  PROVE  /\ DOMAIN s = 1 .. Len(s) /\ DOMAIN Append(s, p) = 1 .. (Len(s) + 1)
         /\ Len(s) \in Nat /\ \A k \in 1 .. Len(s) : Append(s, p)[k] = s[k]
         /\ Append(s, p)[Len(s) + 1] = p
  OBVIOUS

LEMMA PropsType ==
  ASSUME NEW d \in Trees, NEW i \in DOMAIN d.nodes
  PROVE  Props(d, i) \in Seq(Property) /\ Kids(d, i) \in Seq(Nat)
  BY NodeType DEF Props, Kids

\* What was there is still where it was, and what is new is p.
OnlyNew(s, t, p) ==
    /\ \A k \in DOMAIN s : k \in DOMAIN t /\ t[k] = s[k]
    /\ \A k \in DOMAIN t : k \notin DOMAIN s => t[k] = p

LEMMA ExtendsProps ==
  ASSUME NEW d \in Trees, NEW e, NEW node \in DOMAIN d.nodes, NEW p, Extends(d, e, node, p),
         NEW i \in DOMAIN d.nodes
  PROVE  OnlyNew(Props(d, i), Props(e, i), p)
<1>1. Props(d, i) \in Seq(Property)
  BY PropsType
<1>2. Props(e, i) = Props(d, i) \/ Props(e, i) = Append(Props(d, i), p)
  BY DEF Extends
<1>3. CASE Props(e, i) = Props(d, i)
  BY <1>3 DEF OnlyNew
<1>4. CASE Props(e, i) = Append(Props(d, i), p)
  <2> DEFINE s == Props(d, i)
             t == Props(e, i)
  <2>1. /\ DOMAIN s = 1 .. Len(s) /\ DOMAIN t = 1 .. (Len(s) + 1)
        /\ Len(s) \in Nat /\ \A k \in 1 .. Len(s) : t[k] = s[k]
        /\ t[Len(s) + 1] = p
    BY <1>1, <1>4, Appended
  <2> HIDE DEF s, t
  <2>2. OnlyNew(s, t, p)
    BY <2>1 DEF OnlyNew
  <2> QED
    BY <2>2 DEF s, t
<1> QED
  BY <1>2, <1>3, <1>4

LEMMA ExtendsSays ==
  ASSUME NEW d \in Trees, NEW e, NEW node \in DOMAIN d.nodes, NEW p, Extends(d, e, node, p),
         Says(d), p.name = RAMDisk => p.value \in {Relocated, OtherValue}
  PROVE  Says(e)
<1>1. SUFFICES ASSUME NEW i \in DOMAIN e.nodes, NEW k \in DOMAIN Props(e, i),
                      Props(e, i)[k].name = RAMDisk
               PROVE  Props(e, i)[k].value \in {Relocated, OtherValue}
  BY DEF Says
<1>2. i \in DOMAIN d.nodes
  BY DEF Extends
<1>3. OnlyNew(Props(d, i), Props(e, i), p)
  BY <1>2, ExtendsProps
<1>4. CASE k \in DOMAIN Props(d, i)
  <2>1. Props(e, i)[k] = Props(d, i)[k]
    BY <1>3, <1>4 DEF OnlyNew
  <2> QED
    BY <1>1, <1>2, <1>4, <2>1 DEF Says
<1>5. CASE k \notin DOMAIN Props(d, i)
  <2>1. Props(e, i)[k] = p
    BY <1>3, <1>5 DEF OnlyNew
  <2> QED
    BY <1>1, <2>1
<1> QED
  BY <1>4, <1>5

LEMMA ExtendsNamed ==
  ASSUME NEW d \in Trees, NEW e, NEW node \in DOMAIN d.nodes, NEW p, Extends(d, e, node, p),
         NEW i, NEW value, NamedFirst(d, i, value)
  PROVE  NamedFirst(e, i, value)
<1>1. i \in DOMAIN d.nodes /\ 1 \in DOMAIN Props(d, i)
  BY DEF NamedFirst
<1>2. 1 \in DOMAIN Props(e, i) /\ Props(e, i)[1] = Props(d, i)[1]
  <2>1. OnlyNew(Props(d, i), Props(e, i), p)
    BY <1>1, ExtendsProps
  <2> QED
    BY <1>1, <2>1 DEF OnlyNew
<1>3. i \in DOMAIN e.nodes
  BY <1>1 DEF Extends
<1> QED
  BY <1>2, <1>3 DEF NamedFirst

LEMMA ExtendsMapped ==
  ASSUME NEW d \in Trees, NEW e, NEW node \in DOMAIN d.nodes, NEW p, Extends(d, e, node, p),
         NEW g, NEW m, Mapped(d, g, m), 1 \in DOMAIN d.nodes
  PROVE  Mapped(e, g, m)
<1>1. g \in DOMAIN d.nodes
  BY DEF Mapped, NamedFirst
<1>2. Kids(e, 1) = Kids(d, 1) /\ Kids(e, g) = Kids(d, g)
  BY <1>1 DEF Extends
<1>3. NamedFirst(e, Kids(d, 1)[1], Options) /\ NamedFirst(e, g, Chosen) /\ NamedFirst(e, m, MemoryMap)
  BY ExtendsNamed DEF Mapped
<1> QED
  BY <1>2, <1>3 DEF Mapped

LEMMA ExtendsDisks ==
  ASSUME NEW d \in Trees, NEW e, NEW node \in DOMAIN d.nodes, NEW p, Extends(d, e, node, p),
         NEW m \in DOMAIN d.nodes, Disks(d, m) = {}
  PROVE  /\ p.name # RAMDisk => Disks(e, m) = {}
         /\ p = NewProperty(RAMDisk, 8, Relocated) /\ m = node /\ e.room > 0 => HasDisk(e, m)
<1>1. ASSUME NEW k \in Disks(e, m) PROVE Props(e, m)[k] = p
  <2>1. k \in DOMAIN Props(e, m) /\ Props(e, m)[k].name = RAMDisk
    BY DEF Disks
  <2>2. OnlyNew(Props(d, m), Props(e, m), p)
    BY ExtendsProps
  <2>3. k \notin DOMAIN Props(d, m)
    BY <2>1, <2>2 DEF OnlyNew, Disks
  <2> QED
    BY <2>1, <2>2, <2>3 DEF OnlyNew
<1>2. ASSUME p.name # RAMDisk PROVE Disks(e, m) = {}
  <2>1. \A k \in Disks(e, m) : Props(e, m)[k].name = RAMDisk
    BY DEF Disks
  <2> QED
    BY <1>1, <1>2, <2>1
<1>3. ASSUME p = NewProperty(RAMDisk, 8, Relocated), m = node, e.room > 0
      PROVE  HasDisk(e, m)
  <2>1. Props(e, m) = Append(Props(d, m), p)
    BY <1>3 DEF Extends
  <2>2. Props(d, m) \in Seq(Property)
    BY PropsType
  <2> DEFINE s == Props(d, m)
  <2>3. Len(s) + 1 \in DOMAIN Append(s, p) /\ Append(s, p)[Len(s) + 1] = p
    BY <2>2, Appended
  <2> HIDE DEF s
  <2>4. p.name = RAMDisk
    BY <1>3 DEF NewProperty
  <2>5. Len(s) + 1 \in Disks(e, m)
    BY <2>1, <2>3, <2>4 DEF Disks, s
  <2> QED
    BY <1>1, <1>3, <2>5 DEF HasDisk
<1> QED
  BY <1>2, <1>3

\* A node with a name adds none that is named otherwise.
LEMMA NamedSays ==
  ASSUME NEW d, Kept(d), NEW parent \in DOMAIN d.nodes, NEW n \in Nat, NEW value \in Nat,
         NEW e, e = WithNamed(d, parent, NameProperty, n, value), Says(d)
  PROVE  Says(e)
<1>1. CASE NodeRefused(d)
  BY <1>1 DEF WithNamed
<1>2. CASE ~NodeRefused(d)
  <2> DEFINE node == Len(d.nodes) + 1
             p == NewProperty(NameProperty, n, value)
  <2>1. PICK f : f = WithNode(d, parent)
    OBVIOUS
  <2>2. d \in Trees /\ Len(d.nodes) \in Nat /\ DOMAIN d.nodes = 1 .. Len(d.nodes)
    BY NodeType DEF Kept
  <2>3. /\ f \in Trees /\ Len(f.nodes) = node /\ DOMAIN f.nodes = 1 .. node
        /\ f.nodes[node] = NewNode
        /\ \A i \in 1 .. Len(d.nodes) : f.nodes[i].properties = d.nodes[i].properties
    BY <1>2, <2>1, <2>2, NodeAdded
  <2>4. Kept(f)
    BY <1>2, <2>1, NodeKept
  <2>5. e = WithProperty(f, node, NameProperty, n, value) /\ node \in DOMAIN f.nodes
    BY <1>2, <2>1, <2>2, <2>3 DEF WithNamed
  <2>6. NameProperty \in Names /\ p.name # RAMDisk
    BY StageAssumption DEF NewProperty, NameProperty, RAMDisk
  <2>7. DOMAIN f.nodes = DOMAIN d.nodes \cup {node}
    BY <2>2, <2>3
  <2> HIDE DEF node, p
  <2>8. Says(f)
    <3>1. Props(f, node) = <<>>
      BY <2>3 DEF Props, NewNode
    <3>2. \A i \in DOMAIN d.nodes : Props(f, i) = Props(d, i)
      BY <2>2, <2>3 DEF Props
    <3> QED
      BY <2>7, <3>1, <3>2 DEF Says
  <2>9. Extends(f, e, node, NewProperty(NameProperty, n, value))
    BY <2>4, <2>5, <2>6, PropertyPut
  <2> QED
    BY <2>3, <2>5, <2>6, <2>8, <2>9, ExtendsSays DEF p
<1> QED
  BY <1>1, <1>2

LEMMA SameNodes ==
  ASSUME NEW d, NEW e, e.nodes = d.nodes
  PROVE  /\ \A i : Props(e, i) = Props(d, i) /\ Kids(e, i) = Kids(d, i)
         /\ Says(e) <=> Says(d)
         /\ \A g, m : Mapped(e, g, m) <=> Mapped(d, g, m)
         /\ \A m : Disks(e, m) = Disks(d, m) /\ (HasDisk(e, m) <=> HasDisk(d, m))
<1>1. \A i : Props(e, i) = Props(d, i) /\ Kids(e, i) = Kids(d, i)
  BY DEF Props, Kids
<1>2. Says(e) <=> Says(d)
  BY <1>1 DEF Says
<1>3. \A g, m : Mapped(e, g, m) <=> Mapped(d, g, m)
  BY <1>1 DEF Mapped, NamedFirst
<1>4. \A m : Disks(e, m) = Disks(d, m)
  BY <1>1 DEF Disks
<1>5. \A m : HasDisk(e, m) <=> HasDisk(d, m)
  BY <1>1, <1>4 DEF HasDisk
<1> QED
  BY <1>1, <1>2, <1>3, <1>4, <1>5

\* An entry of the loader's: a property of another name, or the ramdisk in
\* the memory map.
LEMMA EntryAnnounces ==
  ASSUME Kept(dt), NEW r \in Nat, r < dt.room, NEW node \in DOMAIN dt.nodes,
         NEW name \in Names, NEW n \in Nat, NEW value \in Nat, NEW e,
         e = WithProperty([dt EXCEPT !.room = r], node, name, n, value),
         Says(dt), name = RAMDisk => n = 8 /\ value = Relocated
  PROVE  /\ Says(e) /\ (e.room > 0 => NothingRefused)
         /\ \A g, m : Mapped(dt, g, m) => Mapped(e, g, m)
         /\ \A m \in DOMAIN dt.nodes : Disks(dt, m) = {} =>
               /\ name # RAMDisk => Disks(e, m) = {}
               /\ name = RAMDisk /\ m = node /\ e.room > 0 => HasDisk(e, m)
<1> DEFINE p == NewProperty(name, n, value)
<1>1. PICK d : d = [dt EXCEPT !.room = r]
  OBVIOUS
<1>2. Kept(d)
  BY <1>1, RoomKept
<1>3. d.nodes = dt.nodes /\ d.room = r
  BY <1>1 DEF Kept, Trees
<1>4. Extends(d, e, node, p)
  BY <1>1, <1>2, <1>3, PropertyPut
<1>5. p.name = name /\ p.value = value /\ (name = RAMDisk => p = NewProperty(RAMDisk, 8, Relocated))
  BY DEF NewProperty
<1> HIDE DEF p
<1>6. d \in Trees /\ node \in DOMAIN d.nodes /\ 1 \in DOMAIN d.nodes
  BY <1>2, <1>3 DEF Kept, Linked
<1>7. Says(e)
  <2>1. Says(d)
    BY <1>3, SameNodes
  <2> QED
    BY <1>4, <1>5, <1>6, <2>1, ExtendsSays
<1>8. ASSUME e.room > 0 PROVE NothingRefused
  <2>1. e.room \in Nat /\ e.room <= r /\ dt.room \in Nat
    BY <1>3, <1>4 DEF Extends, Kept, Trees
  <2> QED
    BY <1>8, <2>1 DEF NothingRefused
<1>9. ASSUME NEW g, NEW m, Mapped(dt, g, m) PROVE Mapped(e, g, m)
  <2>1. Mapped(d, g, m)
    BY <1>3, <1>9, SameNodes
  <2> QED
    BY <1>4, <1>6, <2>1, ExtendsMapped
<1>10. ASSUME NEW m \in DOMAIN dt.nodes, Disks(dt, m) = {}
       PROVE  /\ name # RAMDisk => Disks(e, m) = {}
              /\ name = RAMDisk /\ m = node /\ e.room > 0 => HasDisk(e, m)
  <2>1. Disks(d, m) = {} /\ m \in DOMAIN d.nodes
    BY <1>3, <1>10, SameNodes
  <2>2. /\ p.name # RAMDisk => Disks(e, m) = {}
        /\ p = NewProperty(RAMDisk, 8, Relocated) /\ m = node /\ e.room > 0 => HasDisk(e, m)
    BY <1>4, <1>6, <2>1, ExtendsDisks
  <2> QED
    BY <1>5, <2>2
<1> QED
  BY <1>7, <1>8, <1>9, <1>10

LEMMA StageInitAnnounces == StageInit => RamdiskInv
<1> SUFFICES ASSUME StageInit PROVE RamdiskInv
  OBVIOUS
<1>1. SaysOther(dt) /\ pc = "stage2"
  BY StageAssumption DEF StageInit
<1>2. Says(dt)
  BY <1>1 DEF SaysOther, Says, Props
<1> QED
  BY <1>1, <1>2 DEF RamdiskInv, Entered

LEMMA CreateMemoryMapNodeAnnounces ==
  ASSUME StageInv, RamdiskInv, CreateMemoryMapNode
  PROVE  RamdiskInv'
<1>1. PICK d1 : d1 = WithNamed(dt, dt.rootNode, NameProperty, 7, Chosen)
  OBVIOUS
<1>2. PICK d2 : d2 = WithNamed(d1, Returned(dt), NameProperty, 11, MemoryMap)
  OBVIOUS
<1>3. PICK d3 : d3 = WithNamed(d2, d2.rootNode, NameProperty, 8, Options)
  OBVIOUS
<1>4. /\ pc = "stage2" /\ dt' = d3 /\ gChosen' = Returned(dt)
      /\ memory_map' = Returned(d1)
      /\ pc' = IF memory_map' = NULL \/ gChosen' = NULL THEN "halted"
               ELSE "enter"
  BY <1>1, <1>2, <1>3 DEF CreateMemoryMapNode
<1>5. CASE pc' = "halted"
  BY <1>5 DEF RamdiskInv, Entered
<1>6. CASE pc' = "enter"
  <2> DEFINE g == Len(dt.nodes) + 1
             m == Len(d1.nodes) + 1
             o == Len(d2.nodes) + 1
  <2>1. /\ ~NodeRefused(dt) /\ ~NodeRefused(d1) /\ gChosen' = g /\ memory_map' = m
        /\ gChosen' # NULL
    BY <1>4, <1>6 DEF Returned
  <2>2. /\ NameProperty \in Names /\ Chosen \in Nat /\ MemoryMap \in Nat /\ Options \in Nat
        /\ 7 \in Nat /\ 11 \in Nat /\ 8 \in Nat
    BY StageAssumption DEF Chosen, MemoryMap, Options
  <2>3. /\ Kept(dt) /\ dt.rootNode = 1 /\ 1 \in DOMAIN dt.nodes
        /\ DOMAIN dt.nodes = 1 .. Len(dt.nodes) /\ Len(dt.nodes) \in Nat
    BY <1>4, NodeType DEF StageInv, TreeInv, Kept, Linked
  <2>4. Kept(d1) /\ Len(d1.nodes) = g
    <3>1. Kept(dt) /\ 1 \in DOMAIN dt.nodes /\ d1 = WithNamed(dt, 1, NameProperty, 7, Chosen)
      BY <1>1, <2>3
    <3> QED
      BY <2>1, <2>2, <3>1, NamedKept
  <2>5. 1 \in DOMAIN d1.nodes /\ g \in DOMAIN d1.nodes /\ g # 1
    <3>1. DOMAIN d1.nodes = 1 .. Len(d1.nodes)
      BY <2>4, NodeType DEF Kept, Linked
    <3>2. Len(dt.nodes) >= 1
      BY <2>3
    <3> QED
      BY <2>3, <2>4, <3>1, <3>2
  <2>6. d2 = WithNamed(d1, g, NameProperty, 11, MemoryMap)
    BY <1>2, <1>4, <2>1
  <2>7. Kept(d2) /\ d2.rootNode = 1 /\ 1 \in DOMAIN d2.nodes
    <3>1. Kept(d2)
      BY <2>2, <2>4, <2>5, <2>6, NamedKept
    <3> QED
      BY <3>1 DEF Kept, Linked
  <2>8. d1 = WithNamed(dt, 1, NameProperty, 7, Chosen)
        /\ d3 = WithNamed(d2, 1, NameProperty, 8, Options)
    BY <1>1, <1>3, <2>3, <2>7
  <2>9. Says(d3)
    <3>1. Says(dt)
      BY <1>4 DEF RamdiskInv
    <3>2. Says(d1)
      <4>1. Kept(dt) /\ 1 \in DOMAIN dt.nodes
        BY <2>3
      <4> QED
        BY <2>2, <2>8, <3>1, <4>1, NamedSays
    <3>3. Says(d2)
      BY <2>2, <2>4, <2>5, <2>6, <3>2, NamedSays
    <3> QED
      BY <2>2, <2>7, <2>8, <3>3, NamedSays
  <2> HIDE DEF g, m, o
  <2>10. ASSUME d3.room > 0
         PROVE  Mapped(d3, g, m) /\ Disks(d3, m) = {}
    <3>1. /\ d2.room > 0 /\ DOMAIN d3.nodes = DOMAIN d2.nodes \cup {o}
          /\ \A i \in DOMAIN d2.nodes :
                Props(d3, i) = Props(d2, i) /\ (i # 1 => Kids(d3, i) = Kids(d2, i))
          /\ Kids(d3, 1) = <<o>> \o Kids(d2, 1)
          /\ Props(d3, o) = <<NewProperty(NameProperty, 8, Options)>>
      <4>1. Adds(d2, d3, 1, o, NewProperty(NameProperty, 8, Options))
        BY <2>2, <2>7, <2>8, <2>10, NamedPut DEF o
      <4> QED
        BY <4>1 DEF Adds
    <3>2. /\ d1.room > 0 /\ DOMAIN d2.nodes = DOMAIN d1.nodes \cup {m}
          /\ m \notin DOMAIN d1.nodes
          /\ \A i \in DOMAIN d1.nodes :
                Props(d2, i) = Props(d1, i) /\ (i # g => Kids(d2, i) = Kids(d1, i))
          /\ Kids(d2, g) = <<m>> \o Kids(d1, g)
          /\ Props(d2, m) = <<NewProperty(NameProperty, 11, MemoryMap)>>
      <4>1. Adds(d1, d2, g, m, NewProperty(NameProperty, 11, MemoryMap))
        BY <2>2, <2>4, <2>5, <2>6, <3>1, NamedPut DEF m
      <4> QED
        BY <4>1 DEF Adds
    <3>3. /\ Kids(d1, 1) = <<g>> \o Kids(dt, 1) /\ Kids(d1, g) = <<>>
          /\ Props(d1, g) = <<NewProperty(NameProperty, 7, Chosen)>>
      <4>0. Kept(dt) /\ 1 \in DOMAIN dt.nodes
        BY <2>3
      <4>1. Adds(dt, d1, 1, g, NewProperty(NameProperty, 7, Chosen))
        BY <2>2, <2>8, <3>2, <4>0, NamedPut DEF g
      <4> QED
        BY <4>1 DEF Adds
    <3>4. /\ g \in DOMAIN d2.nodes /\ m \in DOMAIN d2.nodes /\ m # 1
          /\ {g, m, o} \subseteq DOMAIN d3.nodes
      BY <2>5, <3>1, <3>2
    <3>5. /\ Props(d3, g) = <<NewProperty(NameProperty, 7, Chosen)>>
          /\ Props(d3, m) = <<NewProperty(NameProperty, 11, MemoryMap)>>
      BY <2>5, <3>1, <3>2, <3>3, <3>4
    <3>6. Kids(d3, g) = <<m>>
      <4>1. Kids(d3, g) = <<m>> \o <<>>
        BY <2>5, <3>1, <3>2, <3>3, <3>4
      <4> QED
        BY <4>1
    <3>7. {1, 2} \subseteq DOMAIN Kids(d3, 1) /\ Kids(d3, 1)[1] = o /\ Kids(d3, 1)[2] = g
      <4>1. Kids(d3, 1) = <<o>> \o (<<g>> \o Kids(dt, 1))
        BY <2>5, <3>1, <3>2, <3>3
      <4>2. Kids(dt, 1) \in Seq(Nat)
        BY <2>3, PropsType DEF Kept
      <4> DEFINE s == Kids(dt, 1)
      <4> HIDE DEF s
      <4>3. {1, 2} \subseteq DOMAIN (<<o>> \o (<<g>> \o s))
            /\ (<<o>> \o (<<g>> \o s))[1] = o /\ (<<o>> \o (<<g>> \o s))[2] = g
        BY <4>2 DEF s
      <4> QED
        BY <4>1, <4>3 DEF s
    <3>8. \A i \in DOMAIN d3.nodes : \A n, v :
             Props(d3, i) = <<NewProperty(NameProperty, n, v)>> /\ n # 0 => NamedFirst(d3, i, v)
      BY DEF NamedFirst, NewProperty
    <3>9. NamedFirst(d3, o, Options) /\ NamedFirst(d3, g, Chosen) /\ NamedFirst(d3, m, MemoryMap)
      BY <3>1, <3>4, <3>5, <3>8
    <3>10. Disks(d3, m) = {}
      <4>1. \A k \in DOMAIN Props(d3, m) : Props(d3, m)[k].name = NameProperty
        BY <3>5 DEF NewProperty
      <4> QED
        BY <4>1 DEF Disks, NameProperty, RAMDisk
    <3> QED
      BY <3>6, <3>7, <3>9, <3>10 DEF Mapped
  <2> QED
    BY <1>4, <1>6, <2>1, <2>9, <2>10 DEF RamdiskInv, Entered, NothingRefused
<1> QED
  BY <1>4, <1>5, <1>6

LEMMA MappedNodes ==
  ASSUME NEW d, NEW g, NEW m, Mapped(d, g, m)
  PROVE  g \in DOMAIN d.nodes /\ m \in DOMAIN d.nodes
  BY DEF Mapped, NamedFirst

\* An entry under another name.
LEMMA CreateDeviceTreeNodeAnnounces ==
  ASSUME StageInv, RamdiskInv, CreateDeviceTreeNode
  PROVE  RamdiskInv'
<1> DEFINE call == Entries[entered + 1]
           node == IF call[1] = "root" THEN dt.rootNode ELSE gChosen
           n == call[2]
<1>1. /\ pc = "enter" /\ pc' = "enter" /\ entered < Len(Entries)
      /\ UNCHANGED <<memory_map, gChosen, ramdisk>>
      /\ dt' = IF dt.room = 0 THEN dt
               ELSE WithProperty([dt EXCEPT !.room = dt.room - 1], node,
                                 OtherName, n, OtherValue)
  BY DEF CreateDeviceTreeNode
<1>2. Kept(dt) /\ dt.room \in Nat /\ node \in DOMAIN dt.nodes /\ entered \in Nat
  BY <1>1 DEF StageInv, TreeInv, Kept, Trees, Linked
<1>3. n \in Nat
  <2>1. Len(Entries) = 17 /\ entered + 1 \in 1 .. 17
    BY <1>1, <1>2 DEF Entries
  <2>2. \A k \in 1 .. 17 : Entries[k][2] \in Nat
    BY DEF Entries
  <2> QED
    BY <2>1, <2>2
<1>4. OtherName \in Names /\ OtherValue \in Nat /\ OtherName # RAMDisk
  BY StageAssumption DEF OtherValue, OtherName, RAMDisk
<1>5. /\ Says(dt) /\ gChosen # NULL
      /\ NothingRefused => Mapped(dt, gChosen, memory_map) /\ Disks(dt, memory_map) = {}
  BY <1>1 DEF RamdiskInv, Entered
<1> HIDE DEF call, node, n
<1>6. CASE dt.room = 0
  <2>1. dt' = dt
    BY <1>1, <1>6
  <2>2. Says(dt') /\ ~NothingRefused'
    BY <1>5, <1>6, <2>1 DEF NothingRefused
  <2> QED
    BY <1>1, <1>5, <2>2 DEF RamdiskInv
<1>7. CASE dt.room # 0
  <2> DEFINE r == dt.room - 1
             e == WithProperty([dt EXCEPT !.room = r], node, OtherName, n, OtherValue)
  <2>1. r \in Nat /\ r < dt.room /\ dt' = e
    BY <1>1, <1>2, <1>7
  <2> HIDE DEF r
  <2>2. /\ Says(e) /\ (e.room > 0 => NothingRefused)
        /\ \A g, m : Mapped(dt, g, m) => Mapped(e, g, m)
        /\ \A m \in DOMAIN dt.nodes : Disks(dt, m) = {} => Disks(e, m) = {}
    <3> HIDE DEF e
    <3>1. e = WithProperty([dt EXCEPT !.room = r], node, OtherName, n, OtherValue)
      BY DEF e
    <3> QED
      BY <1>2, <1>3, <1>4, <1>5, <2>1, <3>1, EntryAnnounces
  <2> HIDE DEF e
  <2>3. ASSUME e.room > 0
        PROVE  Mapped(e, gChosen, memory_map) /\ Disks(e, memory_map) = {}
    <3>1. Mapped(dt, gChosen, memory_map) /\ Disks(dt, memory_map) = {}
      BY <1>5, <2>2, <2>3
    <3>2. memory_map \in DOMAIN dt.nodes
      BY <3>1, MappedNodes
    <3> QED
      BY <2>2, <3>1, <3>2
  <2> QED
    BY <1>1, <1>5, <2>1, <2>2, <2>3 DEF RamdiskInv, Entered, NothingRefused
<1> QED
  BY <1>6, <1>7

\* The ramdisk's own entry.
LEMMA RelocateAnnounces ==
  ASSUME StageInv, RamdiskInv, Relocate
  PROVE  RamdiskInv'
<1>1. /\ pc = "enter" /\ pc' = "build"
      /\ UNCHANGED <<memory_map, gChosen, ramdisk>>
      /\ dt' = IF ramdisk THEN WithRange(dt) ELSE dt
  BY DEF Relocate, stageVars
<1>2. Kept(dt) /\ dt.room \in Nat /\ memory_map \in DOMAIN dt.nodes
  BY <1>1 DEF StageInv, TreeInv, Kept, Trees
<1>3. RAMDisk \in Names /\ Relocated \in Nat
  BY StageAssumption DEF Relocated
<1>4. /\ Says(dt) /\ gChosen # NULL
      /\ NothingRefused => Mapped(dt, gChosen, memory_map) /\ Disks(dt, memory_map) = {}
  BY <1>1 DEF RamdiskInv, Entered
<1>5. CASE ~ramdisk
  <2>1. dt' = dt /\ ~ramdisk'
    BY <1>1, <1>5
  <2>2. Says(dt') /\ (NothingRefused' => Mapped(dt', gChosen', memory_map')
                                         /\ Disks(dt', memory_map') = {})
    <3>1. NothingRefused' => NothingRefused
      BY <2>1 DEF NothingRefused
    <3> QED
      BY <1>1, <1>4, <2>1, <3>1
  <2> QED
    BY <1>1, <1>4, <2>1, <2>2 DEF RamdiskInv
<1>6. CASE ramdisk /\ dt.room < 2
  <2>1. dt' = [dt EXCEPT !.room = 0]
    BY <1>1, <1>6 DEF WithRange
  <2>2. dt'.nodes = dt.nodes /\ dt'.room = 0
    BY <1>2, <2>1 DEF Kept, Trees
  <2>3. Says(dt') /\ ~NothingRefused'
    BY <1>4, <2>2, SameNodes DEF NothingRefused
  <2> QED
    BY <1>1, <1>4, <2>3 DEF RamdiskInv
<1>7. CASE ramdisk /\ ~(dt.room < 2)
  <2> DEFINE r == dt.room - 2
             map == memory_map
  <2>1. r \in Nat /\ r < dt.room
    BY <1>2, <1>7
  <2>2. dt' = WithProperty([dt EXCEPT !.room = r], map, RAMDisk, 8, Relocated)
    BY <1>1, <1>7 DEF WithRange
  <2>3. PICK e : e = WithProperty([dt EXCEPT !.room = r], map, RAMDisk, 8, Relocated)
    OBVIOUS
  <2>4. dt' = e
    BY <2>2, <2>3
  <2>5. map \in DOMAIN dt.nodes /\ 8 \in Nat
    BY <1>2
  <2> HIDE DEF r, map
  <2>6. /\ Says(e) /\ (e.room > 0 => NothingRefused)
        /\ \A g, m : Mapped(dt, g, m) => Mapped(e, g, m)
        /\ Disks(dt, map) = {} /\ e.room > 0 => HasDisk(e, map)
    BY <1>2, <1>3, <1>4, <2>1, <2>3, <2>5, EntryAnnounces
  <2>7. ASSUME e.room > 0
        PROVE  Mapped(e, gChosen, memory_map) /\ HasDisk(e, memory_map)
    <3>1. Mapped(dt, gChosen, memory_map) /\ Disks(dt, memory_map) = {}
      BY <1>4, <2>6, <2>7
    <3> QED
      BY <2>6, <2>7, <3>1 DEF map
  <2>8. /\ Says(dt') /\ ramdisk'
        /\ NothingRefused' => Mapped(dt', gChosen', memory_map') /\ HasDisk(dt', memory_map')
    BY <1>1, <1>7, <2>4, <2>6, <2>7 DEF NothingRefused
  <2> QED
    BY <1>1, <1>4, <2>8 DEF RamdiskInv
<1> QED
  BY <1>5, <1>6, <1>7

LEMMA FlattenAnnounces ==
  ASSUME RamdiskInv, dt' = dt, UNCHANGED stageVars,
         \/ pc' = pc
         \/ pc \in {"build", "flatten"} /\ pc' \in {"flatten", "done"}
  PROVE  RamdiskInv'
<1>1. /\ ramdisk' = ramdisk /\ memory_map' = memory_map /\ gChosen' = gChosen
      /\ NothingRefused' = NothingRefused
  BY DEF stageVars, NothingRefused
<1>2. /\ pc # "halted" => Says(dt)
      /\ Entered => gChosen # NULL
      /\ Entered /\ NothingRefused => Mapped(dt, gChosen, memory_map)
      /\ Entered /\ NothingRefused /\ (pc = "enter" \/ ~ramdisk) => Disks(dt, memory_map) = {}
      /\ Entered /\ NothingRefused /\ pc # "enter" /\ ramdisk => HasDisk(dt, memory_map)
  BY DEF RamdiskInv
<1>3. Entered' => Entered
  BY DEF Entered
<1>4. /\ pc' # "halted" => pc # "halted"
      /\ Entered' /\ pc' # "enter" => pc # "enter"
      /\ Entered' /\ pc' = "enter" => pc = "enter"
  BY DEF Entered
<1>5. /\ pc' # "halted" => Says(dt')
      /\ Entered' => gChosen' # NULL
      /\ Entered' /\ NothingRefused' => Mapped(dt', gChosen', memory_map')
      /\ Entered' /\ NothingRefused' /\ (pc' = "enter" \/ ~ramdisk') => Disks(dt', memory_map') = {}
      /\ Entered' /\ NothingRefused' /\ pc' # "enter" /\ ramdisk' => HasDisk(dt', memory_map')
  BY <1>1, <1>2, <1>3, <1>4, Zenon
<1> QED
  BY <1>5 DEF RamdiskInv

LEMMA StageNextAnnounces ==
  StageInv /\ RamdiskInv /\ [StageNext]_<<vars, stageVars>> => RamdiskInv'
<1> SUFFICES ASSUME StageInv, RamdiskInv, [StageNext]_<<vars, stageVars>> PROVE RamdiskInv'
  OBVIOUS
<1>1. CASE CreateMemoryMapNode \/ CreateDeviceTreeNode \/ Relocate
  BY <1>1, CreateMemoryMapNodeAnnounces, CreateDeviceTreeNodeAnnounces, RelocateAnnounces
<1>2. CASE Flatten
  <2>1. UNCHANGED stageVars
    BY <1>2 DEF Flatten
  <2>2. dt' = dt /\ pc \in {"build", "flatten"} /\ pc' \in {"flatten", "done"}
    BY <1>2 DEF Flatten, StartFlatten, FlattenProperty, EndProperties, FlattenChild, EndChildren
  <2> QED
    BY <2>1, <2>2, FlattenAnnounces
<1>3. CASE UNCHANGED <<vars, stageVars>>
  <2>1. UNCHANGED stageVars /\ dt' = dt /\ pc' = pc
    BY <1>3 DEF vars
  <2> QED
    BY <2>1, FlattenAnnounces
<1> QED
  BY <1>1, <1>2, <1>3 DEF StageNext

-----------------------------------------------------------------------------
(* The kernel's lookups, in the tree that is read back.                    *)

LEMMA FirstIs ==
  ASSUME NEW seq, NEW S \in SUBSET Nat, NEW m \in S, \A j \in S : m <= j
  PROVE  FirstOf(seq, S) = {seq[m]}
<1>1. S # {}
  OBVIOUS
<1> DEFINE c == CHOOSE k \in S : \A j \in S : k <= j
<1>2. c \in S /\ \A j \in S : c <= j
  OBVIOUS
<1>3. c = m
  <2>1. c \in Nat /\ m \in Nat /\ c <= m /\ m <= c
    BY <1>2
  <2> HIDE DEF c
  <2> QED
    BY <2>1
<1>4. FirstOf(seq, S) = {seq[c]}
  BY <1>1 DEF FirstOf
<1> QED
  BY <1>3, <1>4

LEMMA FirstIn ==
  ASSUME NEW seq, NEW S \in SUBSET Nat
  PROVE  /\ S = {} => FirstOf(seq, S) = {}
         /\ S # {} => \E k \in S : FirstOf(seq, S) = {seq[k]}
<1>1. S = {} => FirstOf(seq, S) = {}
  BY DEF FirstOf
<1>2. ASSUME S # {} PROVE \E k \in S : FirstOf(seq, S) = {seq[k]}
  <2>1. PICK m \in S : \A n \in S : m <= n
    BY <1>2, Least
  <2>2. FirstOf(seq, S) = {seq[m]}
    BY <2>1, FirstIs
  <2> QED
    BY <2>2
<1> QED
  BY <1>1, <1>2

LEMMA KernelsAre ==
  ASSUME NEW p \in Property
  PROVE  /\ Kernels(p).name = p.name
         /\ Kernels(p).value = IF p.length = 0 THEN NULL ELSE p.value
  BY DEF Kernels, Property

LEMMA TreeParts ==
  ASSUME Kept(dt), NEW i \in DOMAIN dt.nodes
  PROVE  /\ Tree[i].properties = [k \in DOMAIN Props(dt, i) |-> Kernels(Props(dt, i)[k])]
         /\ Tree[i].children = [k \in DOMAIN Kids(dt, i) |-> Tree[Kids(dt, i)[k]]]
         /\ DOMAIN Props(dt, i) \subseteq Nat \ {0} /\ DOMAIN Kids(dt, i) \subseteq Nat \ {0}
         /\ \A k \in DOMAIN Props(dt, i) : Props(dt, i)[k] \in Property
         /\ \A k \in DOMAIN Kids(dt, i) : Kids(dt, i)[k] \in DOMAIN dt.nodes
<1>1. dt \in Trees /\ Linked(dt)
  BY DEF Kept
<1>2. Tree[i] = TreeVal(Tree, i)
  BY <1>1, TreeIs
<1>3. /\ Tree[i].properties = [k \in DOMAIN Props(dt, i) |-> Kernels(Props(dt, i)[k])]
      /\ Tree[i].children = [k \in DOMAIN Kids(dt, i) |-> Tree[Kids(dt, i)[k]]]
  BY <1>2 DEF TreeVal, Props, Kids
<1>4. Props(dt, i) \in Seq(Property) /\ Kids(dt, i) \in Seq(Nat)
  BY <1>1, PropsType
<1>5. /\ DOMAIN Props(dt, i) \subseteq Nat \ {0} /\ DOMAIN Kids(dt, i) \subseteq Nat \ {0}
      /\ \A k \in DOMAIN Props(dt, i) : Props(dt, i)[k] \in Property
  BY <1>4
<1>6. ASSUME NEW k \in DOMAIN Kids(dt, i) PROVE Kids(dt, i)[k] \in DOMAIN dt.nodes
  <2>1. Kids(dt, i)[k] \in (i + 1) .. Len(dt.nodes)
    BY <1>1 DEF Linked
  <2>2. DOMAIN dt.nodes = 1 .. Len(dt.nodes) /\ Len(dt.nodes) \in Nat /\ i \in Nat
    BY <1>1, NodeType
  <2>3. i \in 1 .. Len(dt.nodes)
    BY <2>2
  <2> QED
    BY <2>1, <2>2, <2>3
<1> QED
  BY <1>3, <1>5, <1>6

\* The properties of a name, as places among a node's.
Called(i, name) == {k \in DOMAIN Props(dt, i) : Props(dt, i)[k].name = name}

LEMMA LookupIs ==
  ASSUME Kept(dt), NEW i \in DOMAIN dt.nodes, NEW name
  PROVE  /\ Called(i, name) = {} => Lookup(Tree[i], name) = {}
         /\ Called(i, name) # {} =>
               \E k \in Called(i, name) :
                  /\ \A j \in Called(i, name) : k <= j
                  /\ Lookup(Tree[i], name) = {Kernels(Props(dt, i)[k]).value}
<1> DEFINE s == Tree[i].properties
           S == {k \in DOMAIN s : s[k].name = name}
<1>1. /\ s = [k \in DOMAIN Props(dt, i) |-> Kernels(Props(dt, i)[k])]
      /\ DOMAIN Props(dt, i) \subseteq Nat \ {0}
      /\ \A k \in DOMAIN Props(dt, i) : Props(dt, i)[k] \in Property
  BY TreeParts
<1>2. DOMAIN s = DOMAIN Props(dt, i)
      /\ \A k \in DOMAIN s : s[k] = Kernels(Props(dt, i)[k])
  BY <1>1
<1>3. Lookup(Tree[i], name) = {p.value : p \in FirstOf(s, S)}
  BY DEF Lookup
<1> HIDE DEF s
<1>4. S = Called(i, name) /\ S \in SUBSET Nat
  BY <1>1, <1>2, KernelsAre DEF Called
<1>5. ASSUME S = {} PROVE Lookup(Tree[i], name) = {}
  <2> HIDE DEF S
  <2>1. FirstOf(s, S) = {}
    BY <1>5 DEF FirstOf
  <2> QED
    BY <1>3, <2>1
<1>6. ASSUME S # {}
      PROVE  \E k \in S : /\ \A j \in S : k <= j
                          /\ Lookup(Tree[i], name) = {Kernels(Props(dt, i)[k]).value}
  <2>1. \A k \in S : s[k] = Kernels(Props(dt, i)[k])
    BY <1>2
  <2> HIDE DEF S
  <2>2. PICK k \in S : \A j \in S : k <= j
    BY <1>4, <1>6, Least
  <2>3. FirstOf(s, S) = {s[k]}
    BY <1>4, <2>2, FirstIs
  <2>4. Lookup(Tree[i], name) = {s[k].value}
    BY <1>3, <2>3
  <2> QED
    BY <2>1, <2>2, <2>4
<1> QED
  BY <1>4, <1>5, <1>6

LEMMA LookupNamed ==
  ASSUME Kept(dt), NEW i, NEW value, NamedFirst(dt, i, value)
  PROVE  Lookup(Tree[i], NameProperty) = {value}
<1>1. i \in DOMAIN dt.nodes /\ 1 \in Called(i, NameProperty)
  BY DEF NamedFirst, Called
<1>2. PICK k \in Called(i, NameProperty) :
         /\ \A j \in Called(i, NameProperty) : k <= j
         /\ Lookup(Tree[i], NameProperty) = {Kernels(Props(dt, i)[k]).value}
  BY <1>1, LookupIs
<1>3. DOMAIN Props(dt, i) \subseteq Nat \ {0}
      /\ \A j \in DOMAIN Props(dt, i) : Props(dt, i)[j] \in Property
  BY <1>1, TreeParts
<1>4. k \in Nat \ {0} /\ k <= 1
  BY <1>1, <1>2, <1>3 DEF Called
<1>5. k = 1
  BY <1>4
<1>6. Kernels(Props(dt, i)[1]).value = value
  <2>1. Props(dt, i)[1] \in Property
    BY <1>3 DEF NamedFirst
  <2> QED
    BY <2>1, KernelsAre DEF NamedFirst
<1> QED
  BY <1>2, <1>5, <1>6

\* The children of a name, as places.
Answering(i, value) ==
    {k \in DOMAIN Kids(dt, i) : Lookup(Tree[Kids(dt, i)[k]], NameProperty) = {value}}

ChildrenNamed(i, value, F) ==
    /\ F = {} \/ \E k \in Answering(i, value) : F = {Tree[Kids(dt, i)[k]]}
    /\ \A k \in Answering(i, value) :
          (\A j \in Answering(i, value) : k <= j) => F = {Tree[Kids(dt, i)[k]]}

LEMMA ChildNamedIs ==
  ASSUME Kept(dt), NEW i \in DOMAIN dt.nodes, NEW value
  PROVE  ChildrenNamed(i, value, ChildNamed(Tree[i], value))
<1> DEFINE s == Tree[i].children
           S == {k \in DOMAIN s : Lookup(s[k], NameProperty) = {value}}
<1>1. /\ s = [k \in DOMAIN Kids(dt, i) |-> Tree[Kids(dt, i)[k]]]
      /\ DOMAIN Kids(dt, i) \subseteq Nat \ {0}
  BY TreeParts
<1>2. DOMAIN s = DOMAIN Kids(dt, i) /\ \A k \in DOMAIN s : s[k] = Tree[Kids(dt, i)[k]]
  BY <1>1
<1>3. ChildNamed(Tree[i], value) = FirstOf(s, S)
  BY DEF ChildNamed
<1> HIDE DEF s
<1>4. S = Answering(i, value) /\ S \in SUBSET Nat
  BY <1>1, <1>2 DEF Answering
<1>5. \A k \in S : s[k] = Tree[Kids(dt, i)[k]]
  BY <1>2
<1> HIDE DEF S
<1>6. FirstOf(s, S) = {} \/ \E k \in S : FirstOf(s, S) = {Tree[Kids(dt, i)[k]]}
  BY <1>4, <1>5, FirstIn
<1>7. ASSUME NEW k \in S, \A j \in S : k <= j PROVE FirstOf(s, S) = {Tree[Kids(dt, i)[k]]}
  BY <1>4, <1>5, <1>7, FirstIs
<1> QED
  BY <1>3, <1>4, <1>6, <1>7 DEF ChildrenNamed

\* With nothing refused, the way to the ramdisk is the loader's own.
LEMMA LookedUp ==
  ASSUME Kept(dt), NEW g, NEW m, Mapped(dt, g, m)
  PROVE  /\ ChildNamed(Tree[1], Chosen) = {Tree[g]}
         /\ ChildNamed(Tree[g], MemoryMap) = {Tree[m]}
<1>1. 1 \in DOMAIN dt.nodes /\ g \in DOMAIN dt.nodes
  BY MappedNodes DEF Kept, Linked
<1>2. DOMAIN Kids(dt, 1) \subseteq Nat \ {0}
  BY <1>1, TreeParts
<1>3. ChildNamed(Tree[1], Chosen) = {Tree[g]}
  <2>1. Lookup(Tree[Kids(dt, 1)[1]], NameProperty) = {Options}
        /\ Lookup(Tree[Kids(dt, 1)[2]], NameProperty) = {Chosen}
    BY LookupNamed DEF Mapped
  <2>2. 2 \in Answering(1, Chosen)
    BY <2>1 DEF Mapped, Answering
  <2>3. ASSUME NEW j \in Answering(1, Chosen) PROVE 2 <= j
    <3>1. j \in Nat \ {0} /\ Lookup(Tree[Kids(dt, 1)[j]], NameProperty) = {Chosen}
      BY <1>2 DEF Answering
    <3>2. j # 1
      <4>1. Options # Chosen
        BY DEF Options, Chosen
      <4> QED
        BY <2>1, <3>1, <4>1
    <3> QED
      BY <3>1, <3>2
  <2>4. ChildNamed(Tree[1], Chosen) = {Tree[Kids(dt, 1)[2]]}
    BY <1>1, <2>2, <2>3, ChildNamedIs DEF ChildrenNamed
  <2> QED
    BY <2>4 DEF Mapped
<1>4. ChildNamed(Tree[g], MemoryMap) = {Tree[m]}
  <2>1. Kids(dt, g) = <<m>>
    BY DEF Mapped
  <2>2. DOMAIN Kids(dt, g) = {1} /\ Kids(dt, g)[1] = m
    BY <2>1
  <2>3. Lookup(Tree[m], NameProperty) = {MemoryMap}
    BY LookupNamed DEF Mapped
  <2>4. 1 \in Answering(g, MemoryMap) /\ \A j \in Answering(g, MemoryMap) : 1 <= j
    BY <2>2, <2>3 DEF Answering
  <2>5. ChildNamed(Tree[g], MemoryMap) = {Tree[Kids(dt, g)[1]]}
    BY <1>1, <2>4, ChildNamedIs DEF ChildrenNamed
  <2> QED
    BY <2>2, <2>5
<1> QED
  BY <1>3, <1>4

\* Whatever is looked up is a node, and a value that was said of a ramdisk.
LEMMA ChildIsNode ==
  ASSUME Kept(dt), NEW i \in DOMAIN dt.nodes, NEW value, NEW c \in ChildNamed(Tree[i], value)
  PROVE  \E j \in DOMAIN dt.nodes : c = Tree[j]
<1>1. PICK k \in Answering(i, value) : c = Tree[Kids(dt, i)[k]]
  <2>1. ChildrenNamed(i, value, ChildNamed(Tree[i], value))
    BY ChildNamedIs
  <2> QED
    BY <2>1 DEF ChildrenNamed
<1>2. Kids(dt, i)[k] \in DOMAIN dt.nodes
  BY TreeParts DEF Answering
<1> QED
  BY <1>1, <1>2

LEMMA SaidIs ==
  ASSUME Kept(dt), Says(dt), NEW j \in DOMAIN dt.nodes, NEW v \in Lookup(Tree[j], RAMDisk)
  PROVE  v \in {Relocated, OtherValue, NULL}
<1>1. Called(j, RAMDisk) # {}
  BY LookupIs
<1>2. PICK k \in Called(j, RAMDisk) :
         Lookup(Tree[j], RAMDisk) = {Kernels(Props(dt, j)[k]).value}
  BY <1>1, LookupIs
<1>3. v = Kernels(Props(dt, j)[k]).value
  BY <1>2
<1>4. Props(dt, j)[k] \in Property
  BY TreeParts DEF Called
<1>5. Props(dt, j)[k].value \in {Relocated, OtherValue}
  BY DEF Says, Called
<1> QED
  BY <1>3, <1>4, <1>5, KernelsAre

LEMMA RamdiskFollows ==
  ASSUME StageInv, Laid, RamdiskInv
  PROVE  RamdiskAnnounced
<1> SUFFICES ASSUME pc = "done", NamesFit, gChosen # NULL
             PROVE  /\ NothingRefused => Announced = IF ramdisk THEN {Relocated} ELSE {}
                    /\ Announced \subseteq {Relocated, OtherValue, NULL}
  BY DEF RamdiskAnnounced
<1>1. Kept(dt) /\ dt.rootNode = 1 /\ 1 \in DOMAIN dt.nodes
  BY DEF StageInv, TreeInv, Kept, Linked
<1>2. Entry[0] = Tree[1]
  BY <1>1, ReadsBackFollows DEF StageInv, ReadsBack
<1>3. Announced = UNION {Lookup(map, RAMDisk) :
                           map \in UNION {ChildNamed(chosen, MemoryMap) :
                                            chosen \in ChildNamed(Tree[1], Chosen)}}
  BY <1>2 DEF Announced
<1>4. /\ Says(dt)
      /\ NothingRefused => Mapped(dt, gChosen, memory_map)
      /\ NothingRefused /\ ~ramdisk => Disks(dt, memory_map) = {}
      /\ NothingRefused /\ ramdisk => HasDisk(dt, memory_map)
  BY DEF RamdiskInv, Entered
<1>5. ASSUME NothingRefused PROVE Announced = IF ramdisk THEN {Relocated} ELSE {}
  <2>1. /\ ChildNamed(Tree[1], Chosen) = {Tree[gChosen]}
        /\ ChildNamed(Tree[gChosen], MemoryMap) = {Tree[memory_map]}
    BY <1>1, <1>4, <1>5, LookedUp
  <2>2. Announced = Lookup(Tree[memory_map], RAMDisk)
    BY <1>3, <2>1
  <2>3. memory_map \in DOMAIN dt.nodes
    BY <1>4, <1>5, MappedNodes
  <2>4. Called(memory_map, RAMDisk) = Disks(dt, memory_map)
    BY DEF Called, Disks
  <2>5. CASE ~ramdisk
    <3>1. Called(memory_map, RAMDisk) = {}
      BY <1>4, <1>5, <2>4, <2>5
    <3>2. Lookup(Tree[memory_map], RAMDisk) = {}
      BY <1>1, <2>3, <3>1, LookupIs
    <3> QED
      BY <2>2, <2>5, <3>2
  <2>6. CASE ramdisk
    <3>1. /\ Called(memory_map, RAMDisk) # {}
          /\ \A k \in Called(memory_map, RAMDisk) :
                Props(dt, memory_map)[k] = NewProperty(RAMDisk, 8, Relocated)
      BY <1>4, <1>5, <2>4, <2>6 DEF HasDisk
    <3>2. PICK k \in Called(memory_map, RAMDisk) :
             Lookup(Tree[memory_map], RAMDisk) = {Kernels(Props(dt, memory_map)[k]).value}
      BY <1>1, <2>3, <3>1, LookupIs
    <3>3. Props(dt, memory_map)[k] = NewProperty(RAMDisk, 8, Relocated)
      BY <3>1
    <3>4. Kernels(NewProperty(RAMDisk, 8, Relocated)).value = Relocated
      <4>1. NewProperty(RAMDisk, 8, Relocated) \in Property
            /\ NewProperty(RAMDisk, 8, Relocated).length = 8
            /\ NewProperty(RAMDisk, 8, Relocated).value = Relocated
        BY StageAssumption DEF NewProperty, Property, Relocated
      <4> QED
        BY <4>1, KernelsAre
    <3> QED
      BY <2>2, <2>6, <3>2, <3>3, <3>4
  <2> QED
    BY <2>5, <2>6
<1>6. ASSUME NEW v \in Announced PROVE v \in {Relocated, OtherValue, NULL}
  <2>1. PICK chosen \in ChildNamed(Tree[1], Chosen) :
           \E map \in ChildNamed(chosen, MemoryMap) : v \in Lookup(map, RAMDisk)
    BY <1>3
  <2>2. PICK map \in ChildNamed(chosen, MemoryMap) : v \in Lookup(map, RAMDisk)
    BY <2>1
  <2> DEFINE r == 1
  <2>3. r \in DOMAIN dt.nodes /\ chosen \in ChildNamed(Tree[r], Chosen)
    BY <1>1
  <2> HIDE DEF r
  <2>4. PICK i \in DOMAIN dt.nodes : chosen = Tree[i]
    BY <1>1, <2>3, ChildIsNode
  <2>5. PICK j \in DOMAIN dt.nodes : map = Tree[j]
    BY <1>1, <2>2, <2>4, ChildIsNode
  <2> QED
    BY <1>1, <1>4, <2>2, <2>5, SaidIs
<1> QED
  BY <1>5, <1>6

\* Of the ramdisk that was copied the kernel is told, and of no other, in the
\* tree as CreateMemoryMapNode and AllocateMemoryRange leave it (bootx.c) and
\* FlattenNodes writes it: for every tree that the XML may have given, one
\* with a /chosen of its own included, the kernel's lookups come to what the
\* loader has entered.  Where the heap was used up on the way, they come to
\* nothing that neither the loader nor the XML has said.
THEOREM RamdiskCorrect == StageSpec => []RamdiskAnnounced
<1>1. StageInit => ~Flattening
  BY DEF StageInit, Flattening
<1>2. StageInit => StageInv /\ Laid /\ RamdiskInv
  BY <1>1, StageInitHolds, StageInitAnnounces DEF Laid
<1>3. (StageInv /\ Laid /\ RamdiskInv) /\ [StageNext]_<<vars, stageVars>>
         => (StageInv /\ Laid /\ RamdiskInv)'
  BY StageNextKeeps, StageNextLays, StageNextAnnounces
<1>4. StageInv /\ Laid /\ RamdiskInv => RamdiskAnnounced
  BY RamdiskFollows
<1> QED
  BY <1>2, <1>3, <1>4, PTL DEF StageSpec
=============================================================================
