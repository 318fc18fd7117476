------------------------------ MODULE Induction ------------------------------
(***************************************************************************)
(* Induction on the natural numbers and definition by recursion, stated    *)
(* with sets and functions where the theorems of NaturalsInduction speak   *)
(* of operators.  Induction follows from the finite sets being well        *)
(* founded under strict inclusion: the least interval 0 .. n whose end is  *)
(* outside a set closed under successor would have a smaller one below it. *)
(***************************************************************************)
EXTENDS Integers, FiniteSetTheorems, TLAPS

\* A set that has 0 and, with a number, its successor, has every number.
LEMMA Induction ==
  ASSUME NEW S, 0 \in S, \A n \in Nat : n \in S => n + 1 \in S
  PROVE  \A n \in Nat : n \in S
<1> SUFFICES ASSUME NEW bad \in Nat, bad \notin S PROVE FALSE
  OBVIOUS
<1> DEFINE T == {0 .. n : n \in Nat \ S}
           R == StrictSubsetOrdering(Nat)
           F == FiniteSubsetsOf(Nat)
<1>1. IsWellFoundedOn(R, F)
  BY FS_StrictSubsetOrderingWellFounded
<1>2. T \subseteq F
  <2>1. \A n \in Nat : 0 .. n \in SUBSET Nat /\ IsFiniteSet(0 .. n)
    BY FS_Interval
  <2> QED
    BY <2>1 DEF FiniteSubsetsOf
<1>3. T # {}
  OBVIOUS
<1>4. PICK x \in T : \A y \in T : ~(<<y, x>> \in R)
  <2> HIDE DEF T, R, F
  <2> QED BY <1>1, <1>2, <1>3, WFMin
<1>5. PICK n \in Nat \ S : x = 0 .. n
  OBVIOUS
<1>6. n # 0 /\ n - 1 \in Nat /\ n - 1 \notin S
  <2>1. n # 0
   OBVIOUS
  <2>2. n - 1 \in Nat /\ (n - 1) + 1 = n
   BY <2>1
  <2> QED
   BY <2>1, <2>2
<1>7. /\ 0 .. (n - 1) \in T
      /\ 0 .. (n - 1) \subseteq 0 .. n
      /\ n \in 0 .. n /\ n \notin 0 .. (n - 1)
      /\ 0 .. (n - 1) \in SUBSET Nat /\ 0 .. n \in SUBSET Nat
  BY <1>6
<1>8. <<0 .. (n - 1), 0 .. n>> \in R
  BY <1>7 DEF StrictSubsetOrdering
<1> QED
  BY <1>4, <1>5, <1>7, <1>8

\* The same up to a bound.
LEMMA BoundedInduction ==
  ASSUME NEW S, NEW N \in Nat, 0 \in S,
         \A n \in 0 .. (N - 1) : n \in S => n + 1 \in S
  PROVE  \A n \in 0 .. N : n \in S
<1> DEFINE T == {n \in Nat : n <= N => n \in S}
<1>1. 0 \in T
  OBVIOUS
<1>2. ASSUME NEW n \in Nat, n \in T PROVE n + 1 \in T
  BY <1>2
<1>3. \A n \in Nat : n \in T
  <2> HIDE DEF T
  <2> QED
    BY <1>1, <1>2, Induction
<1> QED
  BY <1>3

\* A set of numbers that is not empty has a least one, and when it is bounded
\* a greatest one.
LEMMA Least ==
  ASSUME NEW S \in SUBSET Nat, S # {}
  PROVE  \E m \in S : \A n \in S : m <= n
<1> SUFFICES ASSUME \A m \in S : \E n \in S : n < m PROVE FALSE
  <2>1. \A m, n \in S : m <= n \/ n < m
    OBVIOUS
  <2> QED
    BY <2>1
<1> DEFINE T == {n \in Nat : \A k \in 0 .. n : k \notin S}
<1>1. 0 \in T
  OBVIOUS
<1>2. ASSUME NEW n \in Nat, n \in T PROVE n + 1 \in T
  <2>1. \A k \in 0 .. n : k \notin S
    BY <1>2
  <2>2. n + 1 \notin S
    <3>1. \A k \in Nat : k < n + 1 => k \in 0 .. n
      OBVIOUS
    <3> QED
      BY <2>1, <3>1
  <2>3. \A k \in 0 .. (n + 1) : k \in 0 .. n \/ k = n + 1
    OBVIOUS
  <2> QED
    BY <2>1, <2>2, <2>3
<1>3. \A n \in Nat : n \in T
  <2> HIDE DEF T
  <2> QED
    BY <1>1, <1>2, Induction
<1>4. PICK m \in S : m \in Nat
  OBVIOUS
<1>5. m \in T /\ m \in 0 .. m
  BY <1>3, <1>4
<1> QED
  BY <1>4, <1>5

LEMMA Greatest ==
  ASSUME NEW N \in Nat, NEW S \in SUBSET (0 .. N), S # {}
  PROVE  \E m \in S : \A n \in S : n <= m
<1> DEFINE T == {N - n : n \in S}
<1>1. T \in SUBSET Nat /\ T # {}
  <2>1. \A n \in 0 .. N : N - n \in Nat
    OBVIOUS
  <2>2. PICK n \in S : TRUE
    OBVIOUS
  <2> QED
    BY <2>1, <2>2
<1>2. PICK t \in T : \A u \in T : t <= u
  <2> HIDE DEF T
  <2> QED
    BY <1>1, Least
<1>3. PICK m \in S : t = N - m
  BY <1>2
<1>4. ASSUME NEW n \in S PROVE n <= m
  <2>0. n \in 0 .. N /\ m \in 0 .. N
    OBVIOUS
  <2>1. N - n \in T
    OBVIOUS
  <2>2. t <= N - n
    BY <1>2, <2>1
  <2> QED
    BY <1>3, <2>0, <2>2
<1> QED
  BY <1>4

\* f starts with t0, and each further value follows from the one before by F.
Follows(f, t0, F, N) ==
    /\ f[0] = t0
    /\ \A k \in 1 .. N : f[k] = F[k][f[k - 1]]

\* A function on 0 .. N can be defined by its value at 0 and how each further
\* value follows from the one before.
LEMMA Recursion ==
  ASSUME NEW N \in Nat, NEW T, NEW t0 \in T, 
         NEW F \in [1 .. N -> [T -> T]]
  PROVE  \E f \in [0 .. N -> T] : Follows(f, t0, F, N)
<1> DEFINE Upto(f, n) == /\ f[0] = t0
                         /\ \A k \in 1 .. n : f[k] = F[k][f[k - 1]]
           S == {n \in 0 .. N : \E f \in [0 .. N -> T] : Upto(f, n)}
<1>1. 0 \in S
  <2>1. [k \in 0 .. N |-> t0] \in [0 .. N -> T]
    OBVIOUS
  <2>2. Upto([k \in 0 .. N |-> t0], 0) /\ 0 \in 0 .. N
    OBVIOUS
  <2> HIDE DEF Upto
  <2> QED
    BY <2>1, <2>2
<1>2. ASSUME NEW n \in 0 .. (N - 1), n \in S PROVE n + 1 \in S
  <2>1. PICK f \in [0 .. N -> T] : Upto(f, n)
    BY <1>2
  <2> DEFINE g == [f EXCEPT ![n + 1] = F[n + 1][f[n]]]
  <2>2. n \in 0 .. N /\ n + 1 \in 1 .. N
    OBVIOUS
  <2>3. g \in [0 .. N -> T]
    BY <2>2
  <2>4. g[0] = t0
    BY <2>1, <2>2
  <2>5. ASSUME NEW k \in 1 .. (n + 1)
        PROVE  g[k] = F[k][g[k - 1]]
    <3>1. CASE k = n + 1
      BY <2>2, <3>1
    <3>2. CASE k # n + 1
      <4>1. k \in 1 .. n /\ k \in 0 .. N /\ k - 1 \in 0 .. N
            /\ k - 1 # n + 1
        BY <2>2, <3>2
      <4>2. g[k] = f[k] /\ g[k - 1] = f[k - 1]
        BY <3>2, <4>1
      <4> QED
        BY <2>1, <4>1, <4>2
    <3> QED
      BY <3>1, <3>2
  <2>6. Upto(g, n + 1)
    BY <2>4, <2>5
  <2>7. n + 1 \in 0 .. N
    BY <2>2
  <2> HIDE DEF g, Upto
  <2> QED
    BY <2>3, <2>6, <2>7
<1>3. N \in S
  <2> HIDE DEF S
  <2>1. \A n \in 0 .. N : n \in S
    BY <1>1, <1>2, BoundedInduction
  <2> QED
    BY <2>1
<1> QED
  BY <1>3 DEF Follows

\* A step of a set into itself can be repeated for ever.
LEMMA Iteration ==
  ASSUME NEW T, NEW t0 \in T, NEW F \in [T -> T]
  PROVE  \E f \in [Nat -> T] : f[0] = t0 /\ \A k \in Nat : f[k + 1] = F[f[k]]
<1> DEFINE Run(f, n) == f[0] = t0 /\ \A k \in 1 .. n : f[k] = F[f[k - 1]]
           g == [n \in Nat |-> CHOOSE f \in [0 .. n -> T] : Run(f, n)]
           h == [n \in Nat |-> g[n][n]]
<1>1. ASSUME NEW n \in Nat PROVE g[n] \in [0 .. n -> T] /\ Run(g[n], n)
  <2> DEFINE G == [k \in 1 .. n |-> F]
  <2>1. PICK f \in [0 .. n -> T] : Follows(f, t0, G, n)
    <3>1. G \in [1 .. n -> [T -> T]]
      OBVIOUS
    <3> HIDE DEF G
    <3> QED
      BY <3>1, Recursion
  <2>2. Run(f, n)
    BY <2>1 DEF Follows
  <2>3. g[n] = CHOOSE e \in [0 .. n -> T] : Run(e, n)
    OBVIOUS
  <2> HIDE DEF Run, g
  <2> QED
    BY <2>1, <2>2, <2>3
<1> HIDE DEF g
<1>2. ASSUME NEW n \in Nat PROVE g[n + 1][n] = g[n][n]
  <2> DEFINE S == {k \in 0 .. n : g[n + 1][k] = g[n][k]}
  <2>1. n + 1 \in Nat
    OBVIOUS
  <2>2. Run(g[n], n) /\ Run(g[n + 1], n + 1)
    BY <1>1, <2>1
  <2>3. 0 \in S
    BY <2>2
  <2>4. ASSUME NEW k \in 0 .. (n - 1), k \in S PROVE k + 1 \in S
    <3>1. /\ k + 1 \in 1 .. n /\ k + 1 \in 1 .. (n + 1) /\ (k + 1) - 1 = k
          /\ k + 1 \in 0 .. n
      OBVIOUS
    <3>2. g[n][k + 1] = F[g[n][k]] /\ g[n + 1][k + 1] = F[g[n + 1][k]]
      BY <2>2, <3>1
    <3> QED
      BY <2>4, <3>1, <3>2
  <2>5. \A k \in 0 .. n : k \in S
    <3> HIDE DEF S
    <3> QED
      BY <2>3, <2>4, BoundedInduction
  <2>6. n \in 0 .. n
    OBVIOUS
  <2> QED
    BY <2>5, <2>6
<1>3. ASSUME NEW n \in Nat PROVE h[n] \in T
  <2>1. n \in 0 .. n /\ g[n] \in [0 .. n -> T]
    BY <1>1
  <2> QED
    BY <2>1
<1>4. ASSUME NEW n \in Nat PROVE h[n + 1] = F[h[n]]
  <2>1. n + 1 \in Nat /\ n + 1 \in 1 .. (n + 1) /\ (n + 1) - 1 = n
    OBVIOUS
  <2>2. Run(g[n + 1], n + 1)
    BY <1>1, <2>1
  <2>3. g[n + 1][n + 1] = F[g[n + 1][n]]
    BY <2>1, <2>2
  <2> QED
    BY <1>2, <2>1, <2>3
<1>5. h[0] = t0
  <2>1. Run(g[0], 0)
    BY <1>1
  <2> QED
    BY <2>1
<1>6. h \in [Nat -> T]
  BY <1>3
<1> HIDE DEF h
<1> QED
  BY <1>4, <1>5, <1>6
=============================================================================
