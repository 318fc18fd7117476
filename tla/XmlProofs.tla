------------------------------ MODULE XmlProofs ------------------------------
(***************************************************************************)
(* What the parser's tags, symbols and free list are to each other, after  *)
(* any sequence of elements, refusals and errors: tags form trees that are *)
(* held by the activations' variables, each by one, and no variable is     *)
(* read that was not set.                                                  *)
(***************************************************************************)
EXTENDS Xml, Induction, SequenceTheorems

-----------------------------------------------------------------------------
(* Bags of symbols.                                                        *)

Copies(B, e) == IF e \in DOMAIN B THEN B[e] ELSE 0

\* Two bags are the same if they have as many copies of everything.
LEMMA SameBag ==
  ASSUME NEW A, NEW B, IsABag(A), IsABag(B),
         \A e : Copies(A, e) = Copies(B, e)
  PROVE  A = B
<1>1. \A e : e \in DOMAIN A => A[e] \in Nat /\ A[e] > 0
  BY DEF IsABag
<1>2. \A e : e \in DOMAIN B => B[e] \in Nat /\ B[e] > 0
  BY DEF IsABag
<1>3. \A e : e \in DOMAIN A <=> e \in DOMAIN B
  BY <1>1, <1>2 DEF Copies
<1>4. DOMAIN A = DOMAIN B
  BY <1>3
<1>5. \A e \in DOMAIN A : A[e] = B[e]
  BY <1>3 DEF Copies
<1>6. A = [e \in DOMAIN A |-> A[e]] /\ B = [e \in DOMAIN B |-> B[e]]
  BY DEF IsABag
<1> QED
  BY <1>4, <1>5, <1>6

\* The tags of those in X that have a string.
Named(s, X, e) == {t \in X : s.tags[t].string = e}

LEMMA NamedFinite ==
  ASSUME NEW s, NEW X, IsFiniteSet(X), NEW e
  PROVE  /\ IsFiniteSet(Named(s, X, e))
         /\ Cardinality(Named(s, X, e)) \in Nat
         /\ Cardinality(Named(s, X, e)) > 0 <=> \E t \in X : s.tags[t].string = e
<1>1. Named(s, X, e) \subseteq X
  BY DEF Named
<1>2. IsFiniteSet(Named(s, X, e))
  BY <1>1, FS_Subset
<1>3. Cardinality(Named(s, X, e)) \in Nat
  BY <1>2, FS_CardinalityType
<1>4. Cardinality(Named(s, X, e)) = 0 <=> Named(s, X, e) = {}
  BY <1>2, FS_EmptySet
<1>5. Named(s, X, e) # {} <=> \E t \in X : s.tags[t].string = e
  BY DEF Named
<1> QED
  BY <1>2, <1>3, <1>4, <1>5

LEMMA ReferencesAre ==
  ASSUME NEW s, NEW X, IsFiniteSet(X)
  PROVE  /\ IsABag(References(s, X))
         /\ Copies(References(s, X), <<>>) = 0
         /\ \A e : e # <<>> =>
               Copies(References(s, X), e) = Cardinality(Named(s, X, e))
<1> DEFINE named == {t \in X : s.tags[t].string # <<>>}
           D == {s.tags[t].string : t \in named}
           R == References(s, X)
<1>1. R = [e \in D |-> Cardinality({t \in named : s.tags[t].string = e})]
  BY DEF References
<1>2. ASSUME NEW e, e # <<>>
      PROVE  /\ {t \in named : s.tags[t].string = e} = Named(s, X, e)
             /\ e \in D <=> \E t \in X : s.tags[t].string = e
  BY <1>2 DEF Named
<1>3. <<>> \notin D
  OBVIOUS
<1> HIDE DEF named, D, R
<1>4. DOMAIN R = D
  BY <1>1
<1>5. \A e \in D : e # <<>> /\ R[e] = Cardinality(Named(s, X, e))
  BY <1>1, <1>2, <1>3
<1>6. \A e \in D : R[e] \in {n \in Nat : n > 0}
  BY <1>2, <1>5, NamedFinite
<1>7. R = [e \in DOMAIN R |-> R[e]]
  BY <1>1
<1>8. IsABag(R)
  BY <1>4, <1>6, <1>7 DEF IsABag
<1>9. ASSUME NEW e, e # <<>>
      PROVE  Copies(R, e) = Cardinality(Named(s, X, e))
  <2>1. CASE e \in D
    BY <1>4, <1>5, <2>1 DEF Copies
  <2>2. CASE e \notin D
    <3>1. Cardinality(Named(s, X, e)) = 0
      <4>1. ~\E t \in X : s.tags[t].string = e
        BY <1>2, <1>9, <2>2
      <4>2. /\ Cardinality(Named(s, X, e)) \in Nat
            /\ ~(Cardinality(Named(s, X, e)) > 0)
        BY <4>1, NamedFinite
      <4> QED
        BY <4>2
    <3> QED
      BY <1>4, <2>2, <3>1 DEF Copies
  <2> QED
    BY <2>1, <2>2
<1> QED
  BY <1>3, <1>4, <1>8, <1>9 DEF R, Copies

\* A bag is the references of X if it counts them.
LEMMA AreReferences ==
  ASSUME NEW s, NEW X, IsFiniteSet(X), NEW B, IsABag(B), Copies(B, <<>>) = 0,
         \A e : e # <<>> => Copies(B, e) = Cardinality(Named(s, X, e))
  PROVE  References(s, X) = B
<1>1. \A e : Copies(References(s, X), e) = Copies(B, e)
  BY ReferencesAre
<1> QED
  BY <1>1, ReferencesAre, SameBag

LEMMA SumOfBags ==
  ASSUME NEW A, NEW B, IsABag(A), IsABag(B)
  PROVE  /\ IsABag(A (+) B)
         /\ \A e : Copies(A (+) B, e) = Copies(A, e) + Copies(B, e)
<1>1. \A e \in DOMAIN A : A[e] \in Nat /\ A[e] > 0
  BY DEF IsABag
<1>2. \A e \in DOMAIN B : B[e] \in Nat /\ B[e] > 0
  BY DEF IsABag
<1> DEFINE C == A (+) B
<1>3. C = [e \in DOMAIN A \cup DOMAIN B |-> Copies(A, e) + Copies(B, e)]
  BY DEF Copies, (+)
<1> HIDE DEF C
<1>4. \A e \in DOMAIN A \cup DOMAIN B :
         C[e] = Copies(A, e) + Copies(B, e) /\ C[e] \in {n \in Nat : n > 0}
  BY <1>1, <1>2, <1>3 DEF Copies
<1>5. IsABag(C)
  BY <1>3, <1>4 DEF IsABag
<1>6. \A e : Copies(C, e) = Copies(A, e) + Copies(B, e)
  BY <1>3, <1>4 DEF Copies
<1> QED
  BY <1>5, <1>6 DEF C

LEMMA DifferenceOfBags ==
  ASSUME NEW A, NEW B, IsABag(A), IsABag(B)
  PROVE  /\ IsABag(A (-) B)
         /\ \A e : Copies(B, e) <= Copies(A, e) =>
               Copies(A (-) B, e) = Copies(A, e) - Copies(B, e)
<1>1. \A e \in DOMAIN A : A[e] \in Nat /\ A[e] > 0
  BY DEF IsABag
<1>2. \A e \in DOMAIN B : B[e] \in Nat /\ B[e] > 0
  BY DEF IsABag
<1> DEFINE C == A (-) B
           D == {d \in DOMAIN A : Copies(A, d) - Copies(B, d) > 0}
           L == [e \in DOMAIN A |-> IF e \in DOMAIN B THEN A[e] - B[e] ELSE A[e]]
<1>3. C = [e \in {d \in DOMAIN L : L[d] > 0} |-> L[e]]
  BY DEF (-)
<1>4. DOMAIN L = DOMAIN A /\ \A e \in DOMAIN A : L[e] = Copies(A, e) - Copies(B, e)
  BY <1>1, <1>2 DEF Copies
<1> HIDE DEF L
<1>5. {d \in DOMAIN L : L[d] > 0} = D
  BY <1>4
<1>6. C = [e \in D |-> L[e]] /\ D \subseteq DOMAIN A
  BY <1>3, <1>5
<1> HIDE DEF C
<1>7. \A e \in D : C[e] = Copies(A, e) - Copies(B, e) /\ C[e] \in {n \in Nat : n > 0}
  BY <1>1, <1>2, <1>4, <1>6 DEF Copies
<1>8. IsABag(C)
  BY <1>6, <1>7 DEF IsABag
<1>9. ASSUME NEW e, Copies(B, e) <= Copies(A, e)
      PROVE  Copies(C, e) = Copies(A, e) - Copies(B, e)
  <2>0. Copies(A, e) \in Nat /\ Copies(B, e) \in Nat
    BY <1>1, <1>2 DEF Copies
  <2>1. DOMAIN C = D
    BY <1>6
  <2>2. CASE e \in D
    BY <1>7, <2>1, <2>2 DEF Copies
  <2>3. CASE e \notin D
    <3>1. Copies(C, e) = 0
      BY <2>1, <2>3 DEF Copies
    <3>2. Copies(A, e) - Copies(B, e) = 0
      <4>1. CASE e \in DOMAIN A
        BY <1>9, <2>0, <2>3, <4>1
      <4>2. CASE e \notin DOMAIN A
        BY <1>9, <2>0, <4>2 DEF Copies
      <4> QED
        BY <4>1, <4>2
    <3> QED
      BY <3>1, <3>2
  <2> QED
    BY <2>2, <2>3
<1> QED
  BY <1>8, <1>9 DEF C

-----------------------------------------------------------------------------
(* The symbols that tags refer to.                                         *)

\* The tags of X have the same strings in r as in s.
Alike(s, r, X) == \A t \in X : r.tags[t].string = s.tags[t].string

LEMMA SameReferences ==
  ASSUME NEW s, NEW r, NEW X, IsFiniteSet(X), Alike(s, r, X)
  PROVE  References(r, X) = References(s, X)
<1>1. \A e : Named(r, X, e) = Named(s, X, e)
  BY DEF Named, Alike
<1> QED
  BY <1>1, ReferencesAre, AreReferences

\* A tag more, with the symbol made for it.
LEMMA OneReferenceMore ==
  ASSUME NEW s, NEW r, NEW X, IsFiniteSet(X), NEW n, n \notin X,
         Alike(s, r, X)
  PROVE  References(r, X \cup {n}) =
            IF r.tags[n].string = <<>> THEN References(s, X)
            ELSE References(s, X) (+) SetToBag({r.tags[n].string})
<1> DEFINE e0 == r.tags[n].string
           R == References(s, X)
           B == SetToBag({e0})
<1>1. IsFiniteSet(X \cup {n})
  BY FS_AddElement
<1>2. ASSUME NEW e
      PROVE  Cardinality(Named(r, X \cup {n}, e)) =
                Cardinality(Named(s, X, e)) + (IF e = e0 THEN 1 ELSE 0)
  <2>1. /\ IsFiniteSet(Named(s, X, e)) /\ n \notin Named(s, X, e)
        /\ Cardinality(Named(s, X, e)) \in Nat
    <3>1. n \notin Named(s, X, e)
      BY DEF Named
    <3> QED
      BY <3>1, NamedFinite
  <2>2. CASE e = e0
    <3>1. Named(r, X \cup {n}, e) = Named(s, X, e) \cup {n}
      BY <2>2 DEF Named, Alike
    <3>2. Cardinality(Named(s, X, e) \cup {n}) = Cardinality(Named(s, X, e)) + 1
      BY <2>1, FS_AddElement
    <3> QED
      BY <2>2, <3>1, <3>2
  <2>3. CASE e # e0
    <3>1. Named(r, X \cup {n}, e) = Named(s, X, e)
      BY <2>3 DEF Named, Alike
    <3> QED
      BY <2>1, <2>3, <3>1
  <2> QED
    BY <2>2, <2>3
<1>3. /\ IsABag(R) /\ Copies(R, <<>>) = 0
      /\ \A e : e # <<>> => Copies(R, e) = Cardinality(Named(s, X, e))
  BY ReferencesAre
<1>4. CASE e0 = <<>>
  <2>1. \A e : e # <<>> => Copies(R, e) = Cardinality(Named(r, X \cup {n}, e))
    <3> SUFFICES ASSUME NEW e, e # <<>>
                 PROVE  Copies(R, e) = Cardinality(Named(r, X \cup {n}, e))
      OBVIOUS
    <3>1. Cardinality(Named(s, X, e)) \in Nat
      BY NamedFinite
    <3>2. Cardinality(Named(r, X \cup {n}, e)) = Cardinality(Named(s, X, e)) + 0
      BY <1>2, <1>4
    <3>3. Copies(R, e) = Cardinality(Named(s, X, e))
      BY <1>3
    <3> QED
      BY <3>1, <3>2, <3>3
  <2>2. References(r, X \cup {n}) = R
    <3> HIDE DEF R
    <3> QED
      BY <1>1, <1>3, <2>1, AreReferences
  <2> QED
    BY <1>4, <2>2
<1>5. CASE e0 # <<>>
  <2>1. /\ IsABag(B)
        /\ \A e : Copies(B, e) = IF e = e0 THEN 1 ELSE 0
    BY DEF IsABag, SetToBag, Copies
  <2> HIDE DEF B, R
  <2>2. /\ IsABag(R (+) B)
        /\ \A e : Copies(R (+) B, e) = Copies(R, e) + Copies(B, e)
    BY <1>3, <2>1, SumOfBags
  <2>3. Copies(R (+) B, <<>>) = 0
    BY <1>3, <1>5, <2>1, <2>2
  <2>4. \A e : e # <<>> =>
           Copies(R (+) B, e) = Cardinality(Named(r, X \cup {n}, e))
    BY <1>2, <1>3, <2>1, <2>2
  <2>5. References(r, X \cup {n}) = R (+) B
    BY <1>1, <2>2, <2>3, <2>4, AreReferences
  <2> QED
    BY <1>5, <2>5 DEF R, B
<1> QED
  BY <1>4, <1>5

\* Some tags less, with the symbols given back for them.
LEMMA ReferencesLess ==
  ASSUME NEW s, NEW r, NEW X, IsFiniteSet(X), NEW G, G \subseteq X,
         Alike(s, r, X \ G)
  PROVE  References(s, X) (-) References(s, G) = References(r, X \ G)
<1>1. IsFiniteSet(G) /\ IsFiniteSet(X \ G)
  BY FS_Subset
<1> DEFINE A == References(s, X)
           B == References(s, G)
<1>2. /\ IsABag(A) /\ Copies(A, <<>>) = 0
      /\ \A e : e # <<>> => Copies(A, e) = Cardinality(Named(s, X, e))
  BY ReferencesAre
<1>3. /\ IsABag(B) /\ Copies(B, <<>>) = 0
      /\ \A e : e # <<>> => Copies(B, e) = Cardinality(Named(s, G, e))
  BY <1>1, ReferencesAre
<1> HIDE DEF A, B
<1>4. ASSUME NEW e
      PROVE  /\ Cardinality(Named(s, X, e)) =
                   Cardinality(Named(s, G, e)) + Cardinality(Named(r, X \ G, e))
             /\ Cardinality(Named(s, G, e)) \in Nat
             /\ Cardinality(Named(r, X \ G, e)) \in Nat
  <2> DEFINE P == Named(s, G, e)
             Q == Named(r, X \ G, e)
  <2>1. IsFiniteSet(P) /\ IsFiniteSet(Q)
    BY <1>1, NamedFinite
  <2>2. Named(s, X, e) = P \cup Q /\ P \cap Q = {}
    BY DEF Named, Alike
  <2>3. Cardinality(P) \in Nat /\ Cardinality(Q) \in Nat
    BY <2>1, FS_CardinalityType
  <2> HIDE DEF P, Q
  <2>4. Cardinality(P \cup Q) =
           Cardinality(P) + Cardinality(Q) - Cardinality(P \cap Q)
    BY <2>1, FS_Union
  <2>5. Cardinality(P \cap Q) = 0
    BY <2>2, FS_EmptySet
  <2> QED
    BY <2>2, <2>3, <2>4, <2>5 DEF P, Q
<1>5. \A e : Copies(B, e) <= Copies(A, e)
  <2>1. ASSUME NEW e, e # <<>> PROVE Copies(B, e) <= Copies(A, e)
    BY <1>2, <1>3, <1>4, <2>1
  <2> QED
    BY <1>2, <1>3, <2>1
<1>6. /\ IsABag(A (-) B)
      /\ \A e : Copies(A (-) B, e) = Copies(A, e) - Copies(B, e)
  BY <1>2, <1>3, <1>5, DifferenceOfBags
<1>7. ASSUME NEW e, e # <<>>
      PROVE  Copies(A (-) B, e) = Cardinality(Named(r, X \ G, e))
  <2>1. /\ Copies(A, e) = Cardinality(Named(s, X, e))
        /\ Copies(B, e) = Cardinality(Named(s, G, e))
    BY <1>2, <1>3, <1>7
  <2>2. Copies(A (-) B, e) = Copies(A, e) - Copies(B, e)
    BY <1>6
  <2>3. Cardinality(Named(s, X, e)) - Cardinality(Named(s, G, e))
           = Cardinality(Named(r, X \ G, e))
    <3> DEFINE x == Cardinality(Named(s, X, e))
               y == Cardinality(Named(s, G, e))
               z == Cardinality(Named(r, X \ G, e))
    <3>1. x = y + z /\ y \in Nat /\ z \in Nat
      BY <1>4
    <3> HIDE DEF x, y, z
    <3>2. x - y = z
      BY <3>1
    <3> QED
      BY <3>2 DEF x, y, z
  <2> QED
    BY <2>1, <2>2, <2>3, Zenon
<1>8. Copies(A (-) B, <<>>) = 0
  BY <1>2, <1>3, <1>6
<1>9. References(r, X \ G) = A (-) B
  BY <1>1, <1>6, <1>7, <1>8, AreReferences
<1> QED
  BY <1>9 DEF A, B

-----------------------------------------------------------------------------
(* The invariant.                                                          *)

TagTypes == {"none", "key"} \cup Lists \cup Range(Whole) \cup DOMAIN EndTag

Strings == Seq(DOMAIN TextLen \cup STRING)

Tag == [type : TagTypes, string : Strings, tag : Nat, tagNext : Nat]

StoreFields == {"nodes", "rootNode", "freeNodes", "freeProperties", "room",
                "tags", "free", "symbols"}

\* The fields a store has, and what they are; the contents of the nodes do
\* not matter here.
Shaped(s) ==
    /\ StoreFields \subseteq DOMAIN s
    /\ {s.room, s.freeNodes, s.freeProperties} \subseteq Nat
    /\ s.nodes \in Seq(Range(s.nodes))
    /\ s.rootNode \in 0 .. Len(s.nodes)

Used(s) == DOMAIN s.tags \ Range(s.free)

Points(s, u, t) == t # NULL /\ (s.tags[u].tag = t \/ s.tags[u].tagNext = t)

\* No pointer leads beyond the tags that there are.
Inside(s) == \A t \in DOMAIN s.tags :
                {s.tags[t].tag, s.tags[t].tagNext} \subseteq 0 .. Len(s.tags)

\* Tags that are free are clear and once on the list.
Pooled(s) ==
    /\ s.tags \in Seq(Tag)
    /\ s.free \in Seq(DOMAIN s.tags)
    /\ IsInjective(s.free)
    /\ \A t \in Range(s.free) : s.tags[t] = ClearTag

\* The tags in use are trees, whose roots are T.
Owned(s, T) ==
    /\ T \subseteq Used(s)
    /\ \A u \in Used(s) :
          /\ {s.tags[u].tag, s.tags[u].tagNext} \subseteq Used(s) \cup {NULL}
          /\ s.tags[u].tag = s.tags[u].tagNext => s.tags[u].tag = NULL
          /\ \A t \in T : ~Points(s, u, t)
    /\ \A t, u, v \in Used(s) : Points(s, u, t) /\ Points(s, v, t) => u = v
    /\ \A t \in Used(s) \ T : \E u \in Used(s) : Points(s, u, t)

\* No tag is below itself: some number falls along the pointers.
Graded(s) ==
    \E N \in Nat : \E rank \in [DOMAIN s.tags -> 0 .. N] :
        \A u, t \in DOMAIN s.tags : Points(s, u, t) => rank[t] < rank[u]

Stored(s, T) ==
    Shaped(s) /\ Inside(s) /\ Pooled(s) /\ Graded(s) /\ Owned(s, T)

Counted(s) == s.symbols = References(s, Used(s))

Frames == [kind : {"loop", "list", "key", "entries", "members"},
           type : {"none"} \cup Lists, string : Strings, list : Nat,
           tag : Nat \cup {Unset}, node : Nat]

\* The lists that activations of ParseTagList have so far.
ListFrames(stk) == {k \in DOMAIN stk : stk[k].kind = "list"
                                         /\ stk[k].list # NULL}

ListRoots(stk) == {stk[k].list : k \in ListFrames(stk)}

\* Whether the tag that an activation has been given is not one that it, or
\* the parser, has already.
Fresh(f, s) ==
    /\ f.tag \notin {Unset, NULL}
    /\ f.kind = "list" => f.tag # f.list
    /\ f.kind = "loop" => f.tag \notin Range(s.free)

Results(status, stk, s) ==
    IF status = "populate" THEN {stk[1].tag}
    ELSE IF status = "returned" /\ Fresh(stk[Len(stk)], s)
    THEN {stk[Len(stk)].tag} ELSE {}

Roots(status, stk, s) == ListRoots(stk) \cup Results(status, stk, s)

\* The variables that are in use are different ones.
Apart(stk) ==
    \A j, k \in ListFrames(stk) : stk[j].list = stk[k].list => j = k

\* A variable that is not the caller's to read yet.
Waiting(f) ==
    /\ f.kind = "list" => f.tag \in {Unset, f.list}
    /\ f.kind = "key" => f.tag = Unset

\* The activations under the one on top wait for what it gets them.
Patient(stk) == \A k \in 1 .. (Len(stk) - 1) : Waiting(stk[k])

\* What the parser, and what the walk of a dictionary has on the stack.
Parsers(stk) ==
    \A k \in 2 .. Len(stk) :
        /\ stk[k].kind \in {"list", "key"}
        /\ stk[k].kind = "key" => stk[k].string # <<>>

Walkers(stk) ==
    /\ Len(stk) >= 2
    /\ \A k \in 2 .. Len(stk) : stk[k].kind \in {"entries", "members"}

Stacked(status, stk) ==
    /\ stk \in Seq(Frames) /\ Len(stk) >= 1 /\ stk[1].kind = "loop"
    /\ status \in {"start", "true", "false"} => Len(stk) = 1
    /\ status \in {"parse", "returned", "failed"} => Parsers(stk)
    /\ status = "populate" => Walkers(stk)

Pointers(stk, s) ==
    \A k \in DOMAIN stk :
        /\ stk[k].list \in 0 .. Len(s.tags)
        /\ stk[k].tag \in Unset .. Len(s.tags)
        /\ stk[k].node \in 0 .. Len(s.nodes)

\* What the variable on top is: not to be read, or a tag that is led to by
\* none and leads to no next one.
Held(status, stk, s) ==
    LET top == stk[Len(stk)] IN
    /\ status # "returned" => Waiting(top)
    /\ status = "parse" /\ Len(stk) = 1 =>
          top.tag \in {Unset, NULL} \cup Range(s.free)
    /\ status = "returned" /\ Fresh(top, s) => s.tags[top.tag].tagNext = NULL

Kept(status, stk, s) ==
    /\ Stacked(status, stk) /\ Pointers(stk, s)
    /\ Stored(s, Roots(status, stk, s)) /\ Counted(s)
    /\ Apart(stk) /\ ListRoots(stk) \cap Results(status, stk, s) = {}
    /\ Patient(stk) /\ Held(status, stk, s)

\* What is left of that when the loader has halted.
Typed(stk, s) ==
    /\ stk \in Seq(Frames) /\ Pointers(stk, s)
    /\ Shaped(s) /\ Inside(s) /\ Pooled(s) /\ IsABag(s.symbols)

\* Only headers have been read.
Quiet == \A j \in 1 .. (pos - 1) : doc.tokens[j].tag \notin Known \ {"plist"}

Behaved ==
    /\ pc = "start" => pos = 1 /\ stack[1].tag = Unset
    /\ pc \in {"parse", "returned"} /\ Quiet =>
          /\ Len(stack) = 1
          /\ stack[1].tag \in {Unset, NULL}
          /\ pos > 1 /\ doc.tokens[1].tag # "plist" => stack[1].tag = NULL
    /\ pc = "returned" /\ Headed => Top.tag = NULL \/ Fresh(Top, store)

Status == {"start", "parse", "returned", "failed", "populate", "true",
           "false", "halted", "undefined", "ring"}

Parsing ==
    /\ doc \in Documents
    /\ pc \in Status
    /\ pos \in 1 .. (Len(doc.tokens) + 1)
    /\ Typed(stack, store)
    /\ Running => Kept(pc, stack, store) /\ Behaved

-----------------------------------------------------------------------------
(* Induction along the pointers.                                           *)

LEMMA TagsAre ==
  ASSUME NEW s, s.tags \in Seq(Tag), Inside(s)
  PROVE  /\ Len(s.tags) \in Nat /\ DOMAIN s.tags = 1 .. Len(s.tags)
         /\ \A t \in DOMAIN s.tags :
               /\ s.tags[t] \in Tag
               /\ s.tags[t].tag \in 0 .. Len(s.tags)
               /\ s.tags[t].tagNext \in 0 .. Len(s.tags)
               /\ s.tags[t].tag # NULL => s.tags[t].tag \in DOMAIN s.tags
               /\ s.tags[t].tagNext # NULL => s.tags[t].tagNext \in DOMAIN s.tags
<1>1. Len(s.tags) \in Nat /\ DOMAIN s.tags = 1 .. Len(s.tags)
  BY LenProperties
<1>2. \A t \in DOMAIN s.tags : s.tags[t] \in Tag
  BY <1>1, ElementOfSeq
<1>3. \A t \in DOMAIN s.tags :
         /\ s.tags[t].tag \in 0 .. Len(s.tags)
         /\ s.tags[t].tagNext \in 0 .. Len(s.tags)
  BY DEF Inside
<1> QED
  BY <1>1, <1>2, <1>3 DEF NULL

\* A set that has a tag when it has those it points to has all of them.
LEMMA GradedInduction ==
  ASSUME NEW s, Graded(s), NEW S,
         \A t \in DOMAIN s.tags :
            (\A x \in DOMAIN s.tags : Points(s, t, x) => x \in S) => t \in S
  PROVE  \A t \in DOMAIN s.tags : t \in S
<1> DEFINE D == DOMAIN s.tags
<1>1. PICK N \in Nat : \E rank \in [D -> 0 .. N] :
         \A u, t \in D : Points(s, u, t) => rank[t] < rank[u]
  BY DEF Graded
<1>r. PICK rank \in [D -> 0 .. N] :
         \A u, t \in D : Points(s, u, t) => rank[t] < rank[u]
  BY <1>1
<1>2. \A t \in D : (\A x \in D : Points(s, t, x) => x \in S) => t \in S
  OBVIOUS
<1> HIDE DEF D
<1> DEFINE R == {n \in Nat : \A t \in D : rank[t] < n => t \in S}
<1>3. \A t \in D : rank[t] \in Nat /\ rank[t] <= N
  BY <1>r
<1>4. 0 \in R
  BY <1>3
<1>5. ASSUME NEW n \in Nat, n \in R PROVE n + 1 \in R
  <2>1. ASSUME NEW t \in D, rank[t] < n + 1 PROVE t \in S
    <3>1. ASSUME NEW x \in D, Points(s, t, x) PROVE x \in S
      <4>1. rank[x] < rank[t]
        BY <1>r, <3>1
      <4>2. rank[x] < n
        BY <1>3, <2>1, <4>1
      <4> QED
        BY <1>5, <4>2
    <3> QED
      BY <1>2, <3>1
  <2> QED
    BY <2>1
<1> HIDE DEF R
<1>6. N + 1 \in R
  BY <1>4, <1>5, Induction
<1>7. \A t \in D : t \in S
  BY <1>3, <1>6 DEF R
<1> QED
  BY <1>7 DEF D

\* What follows for a tag from what its two pointers lead to.
Along(s, f, z, G) ==
    /\ f[NULL] = z
    /\ \A t \in DOMAIN s.tags :
          f[t] = G[t][f[s.tags[t].tag]][f[s.tags[t].tagNext]]

LEMMA GradedRecursion ==
  ASSUME NEW s, s.tags \in Seq(Tag), Inside(s), Graded(s),
         NEW T, NEW z \in T, NEW G \in [DOMAIN s.tags -> [T -> [T -> T]]]
  PROVE  \E f \in [0 .. Len(s.tags) -> T] : Along(s, f, z, G)
<1> DEFINE D == DOMAIN s.tags
           L == 0 .. Len(s.tags)
           A(t) == s.tags[t].tag
           B(t) == s.tags[t].tagNext
<1>n. PICK N \in Nat : \E rank \in [D -> 0 .. N] :
         \A u, t \in D : Points(s, u, t) => rank[t] < rank[u]
  BY DEF Graded
<1>1. PICK rank \in [D -> 0 .. N] :
         \A u, t \in D : Points(s, u, t) => rank[t] < rank[u]
  BY <1>n
<1>2. /\ D \subseteq L /\ NULL \in L /\ NULL \notin D
      /\ L = D \cup {NULL}
  BY TagsAre DEF NULL
<1>3. \A t \in D : /\ A(t) \in L
                   /\ A(t) # NULL => A(t) \in D /\ rank[A(t)] < rank[t]
                   /\ B(t) \in L
                   /\ B(t) # NULL => B(t) \in D /\ rank[B(t)] < rank[t]
  BY <1>1, TagsAre DEF Points
<1>4. \A t \in D : rank[t] \in Nat /\ rank[t] <= N
  BY <1>1
<1>5. \A t \in D : \A x, y \in T : G[t][x][y] \in T
  OBVIOUS
<1> HIDE DEF D, L, A, B
<1> DEFINE Upto(f, n) == /\ f[NULL] = z
                         /\ \A t \in D : rank[t] < n =>
                               f[t] = G[t][f[A(t)]][f[B(t)]]
           R == {n \in Nat : \E f \in [L -> T] : Upto(f, n)}
<1>6. 0 \in R
  <2>1. [t \in L |-> z] \in [L -> T] /\ Upto([t \in L |-> z], 0)
    BY <1>2, <1>4
  <2> HIDE DEF Upto
  <2> QED
    BY <2>1
<1>7. ASSUME NEW n \in Nat, n \in R PROVE n + 1 \in R
  <2>1. PICK f \in [L -> T] : Upto(f, n)
    BY <1>7
  <2> DEFINE g == [t \in L |-> IF t \in D /\ rank[t] = n
                               THEN G[t][f[A(t)]][f[B(t)]] ELSE f[t]]
  <2>2. g \in [L -> T]
    <3>1. ASSUME NEW t \in D PROVE G[t][f[A(t)]][f[B(t)]] \in T
      <4>1. f[A(t)] \in T /\ f[B(t)] \in T
        BY <1>3, <2>1
      <4> QED
        BY <1>5, <4>1
    <3>2. \A t \in L : f[t] \in T
      BY <2>1
    <3> QED
      BY <3>1, <3>2
  <2>3. g[NULL] = z
    BY <1>2, <2>1
  <2>4. ASSUME NEW t \in D, rank[t] < n + 1
        PROVE  g[t] = G[t][g[A(t)]][g[B(t)]]
    <3>1. g[A(t)] = f[A(t)] /\ g[B(t)] = f[B(t)]
      <4>1. A(t) \in D => rank[A(t)] # n
        BY <1>2, <1>3, <1>4, <2>4
      <4>2. B(t) \in D => rank[B(t)] # n
        BY <1>2, <1>3, <1>4, <2>4
      <4>3. \A x \in L : (x \in D => rank[x] # n) => g[x] = f[x]
        OBVIOUS
      <4>4. A(t) \in L /\ B(t) \in L
        BY <1>3
      <4> HIDE DEF g
      <4> QED
        BY <4>1, <4>2, <4>3, <4>4
    <3>2. CASE rank[t] = n
      BY <1>2, <3>1, <3>2
    <3>3. CASE rank[t] # n
      <4>1. rank[t] < n
        BY <1>4, <2>4, <3>3
      <4>2. g[t] = f[t]
        BY <1>2, <3>3
      <4> QED
        BY <2>1, <3>1, <4>1, <4>2
    <3> QED
      BY <3>2, <3>3
  <2>5. Upto(g, n + 1)
    BY <2>3, <2>4
  <2> HIDE DEF Upto, g
  <2> QED
    BY <2>2, <2>5
<1>8. N + 1 \in R
  <2> HIDE DEF R
  <2> QED
    BY <1>6, <1>7, Induction
<1>9. PICK f \in [L -> T] : Upto(f, N + 1)
  BY <1>8
<1>10. \A t \in D : f[t] = G[t][f[A(t)]][f[B(t)]]
  <2>1. \A t \in D : rank[t] < N + 1
    BY <1>4
  <2> QED
    BY <1>9, <2>1
<1> QED
  BY <1>9, <1>10 DEF Along, D, L, A, B

LEMMA Single ==
  ASSUME NEW S, NEW e \in S
  PROVE  <<e>> \in Seq(S) /\ Len(<<e>>) = 1 /\ <<e>>[1] = e
  OBVIOUS

\* A tag and all that is below it.
LEMMA BelowIs ==
  ASSUME NEW s, s.tags \in Seq(Tag), Inside(s), Graded(s)
  PROVE  \E b \in [0 .. Len(s.tags) -> Seq(DOMAIN s.tags)] :
            /\ b[NULL] = <<>>
            /\ \A t \in DOMAIN s.tags :
                  b[t] = (b[s.tags[t].tag] \o b[s.tags[t].tagNext]) \o <<t>>
            /\ \A t \in 0 .. Len(s.tags) : Below(s, t) = b[t]
<1> DEFINE D == DOMAIN s.tags
           L == 0 .. Len(s.tags)
           T == Seq(D)
           G == [t \in D |-> [x \in T |-> [y \in T |-> (x \o y) \o <<t>>]]]
           P(f) == f = [t \in L |->
                          IF t = NULL THEN <<>>
                          ELSE (f[s.tags[t].tag] \o f[s.tags[t].tagNext]) \o <<t>>]
           b == CHOOSE f : P(f)
<1>1. /\ NULL \in L /\ NULL \notin D /\ D \subseteq L
      /\ \A t \in L : t # NULL => t \in D
      /\ \A t \in D : s.tags[t].tag \in L /\ s.tags[t].tagNext \in L
      /\ \A t \in D : /\ s.tags[t].tag # NULL => s.tags[t].tag \in D
                      /\ s.tags[t].tagNext # NULL => s.tags[t].tagNext \in D
  BY TagsAre DEF NULL
<1>2. <<>> \in T /\ \A t \in D : <<t>> \in T
  <2>1. ASSUME NEW t \in D PROVE <<t>> \in Seq(D)
    BY Single
  <2> QED
    BY <2>1, EmptySeq
<1>3. \A x, y \in T : \A t \in D : (x \o y) \o <<t>> \in T
  BY <1>2, ConcatProperties
<1>4. \A t \in L : Below(s, t) = b[t]
  BY DEF Below
<1>5. PICK f \in [L -> T] : Along(s, f, <<>>, G)
  <2>1. G \in [D -> [T -> [T -> T]]]
    BY <1>3
  <2>2. \E f \in [L -> T] : Along(s, f, <<>>, G)
    <3> HIDE DEF T, G
    <3> QED
      BY <1>2, <2>1, GradedRecursion
  <2> QED
    BY <2>2
<1> HIDE DEF D, L, T
<1>6. P(f)
  <2>1. f = [t \in L |-> f[t]] /\ \A t \in L : f[t] \in T
    OBVIOUS
  <2>2. ASSUME NEW t \in D
        PROVE  f[t] = (f[s.tags[t].tag] \o f[s.tags[t].tagNext]) \o <<t>>
    <3>1. f[t] = G[t][f[s.tags[t].tag]][f[s.tags[t].tagNext]]
      BY <1>5 DEF Along, D
    <3>2. f[s.tags[t].tag] \in T /\ f[s.tags[t].tagNext] \in T
      BY <1>1, <2>1
    <3> QED
      BY <3>1, <3>2
  <2>3. f[NULL] = <<>>
    BY <1>5 DEF Along
  <2> QED
    BY <1>1, <2>1, <2>2, <2>3
<1>7. P(b)
  <2> HIDE DEF P
  <2> QED
    BY <1>6
<1> HIDE DEF b
<1>8. /\ b = [t \in L |-> b[t]] /\ b[NULL] = <<>>
      /\ \A t \in D : b[t] = (b[s.tags[t].tag] \o b[s.tags[t].tagNext]) \o <<t>>
  BY <1>1, <1>7
<1> HIDE DEF P
<1> DEFINE S == {t \in D : b[t] \in T}
<1>9. ASSUME NEW t \in D, \A x \in D : Points(s, t, x) => x \in S
      PROVE  t \in S
  <2>1. b[s.tags[t].tag] \in T
    BY <1>1, <1>2, <1>8, <1>9 DEF Points
  <2>2. b[s.tags[t].tagNext] \in T
    BY <1>1, <1>2, <1>8, <1>9 DEF Points
  <2> QED
    BY <1>3, <1>8, <2>1, <2>2
<1>10. \A t \in D : b[t] \in T
  <2> HIDE DEF S
  <2>1. \A t \in D : t \in S
    BY <1>9, GradedInduction DEF D
  <2> QED
    BY <2>1 DEF S
<1>11. b \in [L -> T]
  BY <1>1, <1>2, <1>8, <1>10
<1> QED
  BY <1>4, <1>8, <1>11 DEF D, L, T

LEMMA SingleRange ==
  ASSUME NEW S, NEW e \in S
  PROVE  <<e>> \in Seq(S) /\ IsInjective(<<e>>) /\ Range(<<e>>) = {e}
<1>1. <<e>> \in Seq(S) /\ Len(<<e>>) = 1 /\ <<e>>[1] = e /\ 1 .. 1 = {1}
  BY Single
<1>2. DOMAIN <<e>> = {1}
  BY <1>1, LenProperties
<1> QED
  BY <1>1, <1>2 DEF Range, IsInjective

LEMMA RangeOfThree ==
  ASSUME NEW S, NEW x \in Seq(S), NEW y \in Seq(S), NEW e \in S
  PROVE  /\ (x \o y) \o <<e>> \in Seq(S)
         /\ Range((x \o y) \o <<e>>) = Range(x) \cup Range(y) \cup {e}
<1>1. <<e>> \in Seq(S) /\ x \o y \in Seq(S)
  BY Single, ConcatProperties
<1>2. (x \o y) \o <<e>> \in Seq(S)
  BY <1>1, ConcatProperties
<1>3. Range(<<e>>) = {e}
  <2>1. Range(<<e>>) = {<<e>>[i] : i \in 1 .. Len(<<e>>)}
    BY <1>1, RangeEquality
  <2>2. Len(<<e>>) = 1 /\ <<e>>[1] = e /\ 1 .. 1 = {1}
    BY Single
  <2> QED
    BY <2>1, <2>2
<1>4. Range(x \o y) = Range(x) \cup Range(y)
  BY RangeConcatenation
<1>5. Range((x \o y) \o <<e>>) = Range(x \o y) \cup Range(<<e>>)
  BY <1>1, RangeConcatenation
<1> QED
  BY <1>2, <1>3, <1>4, <1>5

\* Sequences that repeat nothing, and have nothing in common, one behind the
\* other.
LEMMA InjectiveConcat ==
  ASSUME NEW S, NEW x \in Seq(S), NEW y \in Seq(S),
         IsInjective(x), IsInjective(y), Range(x) \cap Range(y) = {}
  PROVE  IsInjective(x \o y)
<1> DEFINE z == x \o y
<1>1. /\ z \in Seq(S) /\ Len(z) = Len(x) + Len(y)
      /\ \A i \in 1 .. Len(x) + Len(y) :
            z[i] = IF i <= Len(x) THEN x[i] ELSE y[i - Len(x)]
  BY ConcatProperties
<1>2. /\ Len(x) \in Nat /\ Len(y) \in Nat
      /\ DOMAIN x = 1 .. Len(x) /\ DOMAIN y = 1 .. Len(y)
  BY LenProperties
<1>3. DOMAIN z = 1 .. Len(x) + Len(y)
  BY <1>1, LenProperties
<1>4. \A i \in DOMAIN x, j \in DOMAIN y : x[i] # y[j]
  BY DEF Range
<1>5. /\ \A i, j \in 1 .. Len(x) : x[i] = x[j] => i = j
      /\ \A i, j \in 1 .. Len(y) : y[i] = y[j] => i = j
  BY <1>2 DEF IsInjective
<1> HIDE DEF z
<1>6. ASSUME NEW i \in 1 .. Len(x) + Len(y), NEW j \in 1 .. Len(x) + Len(y),
             z[i] = z[j], i <= j
      PROVE  i = j
  <2>1. CASE j <= Len(x)
    <3>1. i \in 1 .. Len(x) /\ j \in 1 .. Len(x)
      BY <1>2, <1>6, <2>1
    <3> QED
      BY <1>1, <1>5, <1>6, <2>1, <3>1
  <2>2. CASE i <= Len(x) /\ ~(j <= Len(x))
    <3>1. i \in DOMAIN x /\ j - Len(x) \in DOMAIN y
      BY <1>2, <2>2
    <3>2. z[i] = x[i] /\ z[j] = y[j - Len(x)]
      BY <1>1, <2>2
    <3> QED
      BY <1>4, <1>6, <3>1, <3>2
  <2>3. CASE ~(i <= Len(x))
    <3>1. i - Len(x) \in 1 .. Len(y) /\ j - Len(x) \in 1 .. Len(y)
          /\ ~(j <= Len(x))
      BY <1>2, <1>6, <2>3
    <3>2. z[i] = y[i - Len(x)] /\ z[j] = y[j - Len(x)]
      BY <1>1, <2>3, <3>1
    <3>3. i - Len(x) = j - Len(x)
      BY <1>5, <1>6, <3>1, <3>2
    <3> QED
      BY <1>2, <3>3
  <2> QED
    BY <1>2, <2>1, <2>2, <2>3
<1>7. ASSUME NEW i \in 1 .. Len(x) + Len(y), NEW j \in 1 .. Len(x) + Len(y),
             z[i] = z[j]
      PROVE  i = j
  <2>1. i <= j \/ j <= i
    BY <1>2
  <2> QED
    BY <1>6, <1>7, <2>1
<1> QED
  BY <1>3, <1>7 DEF IsInjective, z

LEMMA InjectiveReverse ==
  ASSUME NEW S, NEW x \in Seq(S)
  PROVE  /\ Reverse(x) \in Seq(S)
         /\ Range(Reverse(x)) = Range(x)
         /\ IsInjective(x) => IsInjective(Reverse(x))
<1> DEFINE z == Reverse(x)
           n == Len(x)
<1>1. n \in Nat /\ DOMAIN x = 1 .. n /\ \A i \in 1 .. n : x[i] \in S
  BY LenProperties, ElementOfSeq
<1>2. z = [i \in 1 .. n |-> x[(n - i) + 1]]
  BY DEF Reverse
<1>3. \A i \in 1 .. n : (n - i) + 1 \in 1 .. n /\ (n - ((n - i) + 1)) + 1 = i
  BY <1>1
<1> HIDE DEF n, z
<1>4. z \in [1 .. n -> S]
  BY <1>1, <1>2, <1>3
<1>5. z \in Seq(S) /\ DOMAIN z = 1 .. n
  BY <1>1, <1>4
<1>6. \A i \in 1 .. n : z[i] = x[(n - i) + 1] /\ x[i] = z[(n - i) + 1]
  BY <1>2, <1>3
<1>7. Range(z) = Range(x)
  <2>1. DOMAIN z = 1 .. n /\ DOMAIN x = 1 .. n
    BY <1>1, <1>5
  <2>2. \A i \in 1 .. n : \E j \in 1 .. n : z[i] = x[j]
    BY <1>3, <1>6
  <2>3. \A i \in 1 .. n : \E j \in 1 .. n : x[i] = z[j]
    BY <1>3, <1>6
  <2>4. \A e : e \in Range(z) <=> \E i \in 1 .. n : e = z[i]
    BY <2>1 DEF Range
  <2>5. \A e : e \in Range(x) <=> \E i \in 1 .. n : e = x[i]
    BY <2>1 DEF Range
  <2>6. \A e : e \in Range(z) <=> e \in Range(x)
    BY <2>2, <2>3, <2>4, <2>5, Zenon
  <2> QED
    BY <2>6
<1>8. ASSUME IsInjective(x), NEW i \in 1 .. n, NEW j \in 1 .. n, z[i] = z[j]
      PROVE  i = j
  <2>1. (n - i) + 1 = (n - j) + 1
    BY <1>1, <1>3, <1>6, <1>8 DEF IsInjective
  <2> QED
    BY <1>1, <2>1
<1>9. IsInjective(x) => IsInjective(z)
  BY <1>5, <1>8 DEF IsInjective
<1> QED
  BY <1>5, <1>7, <1>9 DEF z

-----------------------------------------------------------------------------
(* The tree below a tag in use: what XMLFreeTag gives back.                *)

\* A set of tags that has with a tag those it points to, and with each but
\* its root one that points to it.
Entire(s, root, G) ==
    /\ root \in G /\ G \subseteq Used(s)
    /\ \A u \in G : {s.tags[u].tag, s.tags[u].tagNext} \subseteq G \cup {NULL}
    /\ \A t \in G \ {root} : \E u \in G : Points(s, u, t)

LEMMA UsedAre ==
  ASSUME NEW s, NEW T, Pooled(s), Inside(s), Owned(s, T)
  PROVE  /\ Used(s) \subseteq DOMAIN s.tags /\ NULL \notin Used(s)
         /\ NULL \notin DOMAIN s.tags
         /\ IsFiniteSet(Used(s))
         /\ \A u \in Used(s) :
               /\ s.tags[u].tag # NULL => s.tags[u].tag \in Used(s)
               /\ s.tags[u].tagNext # NULL => s.tags[u].tagNext \in Used(s)
<1>1. Len(s.tags) \in Nat /\ DOMAIN s.tags = 1 .. Len(s.tags)
  BY TagsAre DEF Pooled
<1>2. IsFiniteSet(DOMAIN s.tags)
  BY <1>1, FS_Interval
<1>3. Used(s) \subseteq DOMAIN s.tags
  BY DEF Used
<1>4. IsFiniteSet(Used(s))
  BY <1>2, <1>3, FS_Subset
<1> QED
  BY <1>1, <1>3, <1>4 DEF Owned, NULL

LEMMA BelowWhole ==
  ASSUME NEW s, NEW T, Pooled(s), Inside(s), Graded(s), Owned(s, T)
  PROVE  \A t \in Used(s) :
            /\ Below(s, t) \in Seq(DOMAIN s.tags)
            /\ IsInjective(Below(s, t))
            /\ Entire(s, t, Range(Below(s, t)))
<1> DEFINE D == DOMAIN s.tags
           L == 0 .. Len(s.tags)
           U == Used(s)
           A(t) == s.tags[t].tag
           B(t) == s.tags[t].tagNext
<1>n. PICK N \in Nat : \E rank \in [D -> 0 .. N] :
         \A u, t \in D : Points(s, u, t) => rank[t] < rank[u]
  BY DEF Graded
<1>r. PICK rank \in [D -> 0 .. N] :
         \A u, t \in D : Points(s, u, t) => rank[t] < rank[u]
  BY <1>n
<1>1. PICK b \in [L -> Seq(D)] :
         /\ b[NULL] = <<>>
         /\ \A t \in D : b[t] = (b[A(t)] \o b[B(t)]) \o <<t>>
         /\ \A t \in L : Below(s, t) = b[t]
  BY BelowIs DEF Pooled
<1>2. /\ U \subseteq D /\ NULL \notin U /\ NULL \notin D /\ D \subseteq L
      /\ \A t \in D : A(t) \in L /\ B(t) \in L
      /\ \A u \in U : /\ A(u) # NULL => A(u) \in U
                      /\ B(u) # NULL => B(u) \in U
                      /\ A(u) = B(u) => A(u) = NULL
  <2>1. U \subseteq D /\ NULL \notin U /\ NULL \notin D
    BY UsedAre
  <2>2. D \subseteq L /\ \A t \in D : A(t) \in L /\ B(t) \in L
    BY TagsAre DEF Pooled
  <2>3. \A u \in U : /\ A(u) # NULL => A(u) \in U
                     /\ B(u) # NULL => B(u) \in U
    BY UsedAre
  <2>4. \A u \in U : A(u) = B(u) => A(u) = NULL
    BY DEF Owned
  <2> QED
    BY <2>1, <2>2, <2>3, <2>4
<1>3. \A t, u, v \in U : Points(s, u, t) /\ Points(s, v, t) => u = v
  BY DEF Owned
<1>4. \A u : /\ A(u) # NULL => Points(s, u, A(u))
             /\ B(u) # NULL => Points(s, u, B(u))
  BY DEF Points
<1>5. \A t \in D : rank[t] \in 0 .. N /\ rank[t] \in Nat
  OBVIOUS
<1> DEFINE R(t) == Range(b[t])
           Good(t) == /\ IsInjective(b[t])
                      /\ Entire(s, t, R(t))
                      /\ \A x \in R(t) : rank[x] <= rank[t]
           S == {t \in D : t \in U => Good(t)}
<1>6. R(NULL) = {} /\ IsInjective(b[NULL])
  BY <1>1 DEF Range, IsInjective
<1>7. ASSUME NEW t \in U
      PROVE  /\ b[t] \in Seq(D) /\ b[A(t)] \in Seq(D) /\ b[B(t)] \in Seq(D)
             /\ b[t] = (b[A(t)] \o b[B(t)]) \o <<t>>
             /\ R(t) = R(A(t)) \cup R(B(t)) \cup {t}
  <2>1. b[t] \in Seq(D) /\ b[A(t)] \in Seq(D) /\ b[B(t)] \in Seq(D)
    BY <1>2
  <2>2. b[t] = (b[A(t)] \o b[B(t)]) \o <<t>>
    BY <1>1, <1>2
  <2>3. R(t) = R(A(t)) \cup R(B(t)) \cup {t}
    <3>1. t \in D
      BY <1>2
    <3> HIDE DEF A, B, D
    <3>2. Range((b[A(t)] \o b[B(t)]) \o <<t>>)
             = Range(b[A(t)]) \cup Range(b[B(t)]) \cup {t}
      BY <2>1, <3>1, RangeOfThree
    <3> QED
      BY <2>2, <3>2
  <2> QED
    BY <2>1, <2>2, <2>3
<1> HIDE DEF D, L, U, A, B, R
<1>8. ASSUME NEW t \in D, \A x \in D : Points(s, t, x) => x \in S, t \in U
      PROVE  Good(t)
  <2>1. /\ A(t) # NULL => A(t) \in U /\ Good(A(t)) /\ rank[A(t)] < rank[t]
                          /\ rank[A(t)] \in Nat
        /\ B(t) # NULL => B(t) \in U /\ Good(B(t)) /\ rank[B(t)] < rank[t]
                          /\ rank[B(t)] \in Nat
    <3>1. ASSUME A(t) # NULL
          PROVE  A(t) \in U /\ Good(A(t)) /\ rank[A(t)] < rank[t]
      BY <1>r, <1>2, <1>4, <1>8, <3>1
    <3>2. ASSUME B(t) # NULL
          PROVE  B(t) \in U /\ Good(B(t)) /\ rank[B(t)] < rank[t]
      BY <1>r, <1>2, <1>4, <1>8, <3>2
    <3> QED
      BY <1>2, <1>5, <3>1, <3>2
  <2>2. rank[t] \in Nat
    BY <1>5
  <2>t. t \in U
    BY <1>8
  <2>b. /\ b[A(t)] \in Seq(D) /\ b[B(t)] \in Seq(D)
        /\ b[t] = (b[A(t)] \o b[B(t)]) \o <<t>>
        /\ R(t) = R(A(t)) \cup R(B(t)) \cup {t}
    BY <1>7, <2>t
  <2> HIDE DEF S
  <2>3. /\ R(A(t)) \subseteq U /\ R(B(t)) \subseteq U
    BY <1>6, <2>1 DEF Entire, U
  <2>4. \A x \in R(t) : rank[x] <= rank[t] /\ (x # t => rank[x] < rank[t])
    <3>1. ASSUME NEW x \in R(A(t)) PROVE rank[x] < rank[t]
      <4>1. A(t) # NULL /\ rank[x] <= rank[A(t)] /\ rank[x] \in Nat
        BY <1>2, <1>5, <1>6, <2>1, <2>3
      <4> QED
        BY <2>1, <2>2, <4>1
    <3>2. ASSUME NEW x \in R(B(t)) PROVE rank[x] < rank[t]
      <4>1. B(t) # NULL /\ rank[x] <= rank[B(t)] /\ rank[x] \in Nat
        BY <1>2, <1>5, <1>6, <2>1, <2>3
      <4> QED
        BY <2>1, <2>2, <4>1
    <3>3. \A x \in R(t) : x \in R(A(t)) \/ x \in R(B(t)) \/ x = t
      BY <2>b
    <3>4. \A x \in R(t) : rank[x] \in Nat
      BY <1>2, <1>5, <1>8, <2>3, <3>3
    <3> QED
      BY <2>2, <3>1, <3>2, <3>3, <3>4
  <2>5. t \notin R(A(t)) /\ t \notin R(B(t))
    <3>1. A(t) # NULL => ~(rank[t] <= rank[A(t)])
      BY <2>1, <2>2
    <3>2. B(t) # NULL => ~(rank[t] <= rank[B(t)])
      BY <2>1, <2>2
    <3> QED
      BY <1>6, <2>1, <3>1, <3>2
  <2>6. R(A(t)) \cap R(B(t)) = {}
    <3> DEFINE I == R(A(t)) \cap R(B(t))
               M == {rank[x] : x \in I}
    <3> SUFFICES ASSUME I # {} PROVE FALSE
      OBVIOUS
    <3>0. A(t) # NULL /\ B(t) # NULL /\ A(t) # B(t)
      BY <1>2, <1>6, <1>8
    <3>1. I \subseteq D
      BY <1>2, <2>3
    <3>2. M \in SUBSET (0 .. N) /\ M # {}
      BY <1>5, <3>1
    <3>3. PICK m \in M : \A n \in M : n <= m
      <4> HIDE DEF M
      <4> QED
        BY <3>2, Greatest
    <3>4. PICK u \in I : m = rank[u]
      BY <3>3
    <3>5. ASSUME NEW x \in I PROVE ~(rank[u] < rank[x])
      <4>1. rank[x] \in M
        OBVIOUS
      <4>2. rank[x] <= rank[u]
        BY <3>3, <3>4, <4>1
      <4>3. rank[x] \in Nat /\ rank[u] \in Nat
        BY <1>5, <3>1, <3>4
      <4> QED
        BY <4>2, <4>3
    <3>6. CASE u = A(t)
      <4>1. PICK v \in R(B(t)) : Points(s, v, u)
        BY <2>1, <3>0, <3>4, <3>6 DEF Entire
      <4>2. v = t
        BY <1>2, <1>3, <1>4, <1>8, <2>3, <3>0, <3>4, <3>6, <4>1
      <4> QED
        BY <2>5, <4>1, <4>2
    <3>7. CASE u = B(t)
      <4>1. PICK v \in R(A(t)) : Points(s, v, u)
        BY <2>1, <3>0, <3>4, <3>7 DEF Entire
      <4>2. v = t
        BY <1>2, <1>3, <1>4, <1>8, <2>3, <3>0, <3>4, <3>7, <4>1
      <4> QED
        BY <2>5, <4>1, <4>2
    <3>8. CASE u # A(t) /\ u # B(t)
      <4>1. PICK v \in R(A(t)) : Points(s, v, u)
        BY <2>1, <3>0, <3>4, <3>8 DEF Entire
      <4>2. PICK w \in R(B(t)) : Points(s, w, u)
        BY <2>1, <3>0, <3>4, <3>8 DEF Entire
      <4>3. v = w
        BY <1>3, <2>3, <3>4, <4>1, <4>2
      <4>4. v \in I /\ rank[u] < rank[v]
        BY <1>r, <1>2, <2>3, <3>4, <4>1, <4>2, <4>3
      <4> QED
        BY <3>5, <4>4
    <3> QED
      BY <3>6, <3>7, <3>8
  <2>7. IsInjective(b[t])
    <3>1. IsInjective(b[A(t)]) /\ IsInjective(b[B(t)])
      BY <1>6, <2>1
    <3>2. IsInjective(b[A(t)] \o b[B(t)])
      BY <1>7, <1>8, <2>6, <3>1, InjectiveConcat DEF R
    <3>3. /\ b[A(t)] \o b[B(t)] \in Seq(D)
          /\ Range(b[A(t)] \o b[B(t)]) = R(A(t)) \cup R(B(t))
      BY <2>b, ConcatProperties, RangeConcatenation DEF R
    <3>4. <<t>> \in Seq(D) /\ IsInjective(<<t>>) /\ Range(<<t>>) = {t}
      BY SingleRange
    <3>5. Range(b[A(t)] \o b[B(t)]) \cap Range(<<t>>) = {}
      BY <2>5, <3>3, <3>4
    <3>6. IsInjective((b[A(t)] \o b[B(t)]) \o <<t>>)
      BY <3>2, <3>3, <3>4, <3>5, InjectiveConcat
    <3> QED
      BY <1>7, <1>8, <3>6
  <2>8. Entire(s, t, R(t))
    <3>0. R(t) = R(A(t)) \cup R(B(t)) \cup {t}
      BY <1>7, <1>8
    <3>1. t \in R(t) /\ R(t) \subseteq Used(s)
      BY <1>8, <2>3, <3>0 DEF U
    <3>2. /\ A(t) # NULL => A(t) \in R(A(t))
          /\ B(t) # NULL => B(t) \in R(B(t))
      BY <2>1 DEF Entire
    <3>3. ASSUME NEW u \in R(t)
          PROVE  {s.tags[u].tag, s.tags[u].tagNext} \subseteq R(t) \cup {NULL}
      <4>1. CASE u = t
        BY <3>0, <3>2, <4>1 DEF A, B
      <4>2. CASE u \in R(A(t))
        BY <1>6, <2>1, <3>0, <4>2 DEF Entire
      <4>3. CASE u \in R(B(t))
        BY <1>6, <2>1, <3>0, <4>3 DEF Entire
      <4> QED
        BY <3>0, <4>1, <4>2, <4>3
    <3>4. ASSUME NEW x \in R(t) \ {t}
          PROVE  \E u \in R(t) : Points(s, u, x)
      <4>1. CASE x = A(t)
        <5>1. A(t) # NULL
          BY <1>2, <3>1, <3>4, <4>1 DEF U
        <5> QED
          BY <1>4, <3>1, <4>1, <5>1
      <4>2. CASE x = B(t)
        <5>1. B(t) # NULL
          BY <1>2, <3>1, <3>4, <4>2 DEF U
        <5> QED
          BY <1>4, <3>1, <4>2, <5>1
      <4>3. CASE x \in R(A(t)) /\ x # A(t)
        BY <1>6, <2>1, <3>0, <4>3 DEF Entire
      <4>4. CASE x \in R(B(t)) /\ x # B(t)
        BY <1>6, <2>1, <3>0, <4>4 DEF Entire
      <4> QED
        BY <3>0, <3>4, <4>1, <4>2, <4>3, <4>4
    <3> QED
      BY <3>1, <3>3, <3>4 DEF Entire
  <2> QED
    BY <2>4, <2>7, <2>8
<1>9. \A t \in D : t \in S
  <2>1. \A t \in D : (\A x \in D : Points(s, t, x) => x \in S) => t \in S
    <3> SUFFICES ASSUME NEW t \in D, \A x \in D : Points(s, t, x) => x \in S,
                        t \in U
                 PROVE  Good(t)
      OBVIOUS
    <3> HIDE DEF Good, S
    <3> QED
      BY <1>8
  <2> HIDE DEF S
  <2> QED
    BY <2>1, GradedInduction DEF D
<1>10. ASSUME NEW t \in U
       PROVE  /\ Below(s, t) = b[t] /\ b[t] \in Seq(D) /\ IsInjective(b[t])
              /\ Entire(s, t, Range(b[t]))
  <2>1. t \in D /\ t \in L
    BY <1>2
  <2>2. Good(t)
    BY <1>9, <2>1
  <2> QED
    BY <1>1, <1>7, <2>1, <2>2 DEF R
<1> QED
  BY <1>10 DEF D, L, U

-----------------------------------------------------------------------------
(* The operations on tags and symbols.                                     *)

LEMMA ClearTagType == ClearTag \in Tag /\ ClearTag.tag = NULL /\ ClearTag.tagNext = NULL
  BY EmptySeq DEF ClearTag, Tag, TagTypes, Strings, NULL

\* The fields that an operation may change, and those it leaves.
GivenBack(s, symbols, tags, free) ==
    [s EXCEPT !.symbols = symbols, !.tags = tags, !.free = free]

LEMMA GivenBackFields ==
  ASSUME NEW s, Shaped(s), NEW symbols, NEW tags, NEW free
  PROVE  /\ Shaped(GivenBack(s, symbols, tags, free))
         /\ GivenBack(s, symbols, tags, free).tags = tags
         /\ GivenBack(s, symbols, tags, free).free = free
         /\ GivenBack(s, symbols, tags, free).symbols = symbols
         /\ GivenBack(s, symbols, tags, free).room = s.room
         /\ GivenBack(s, symbols, tags, free).nodes = s.nodes
<1> DEFINE r == GivenBack(s, symbols, tags, free)
<1>1. StoreFields \subseteq DOMAIN s
  BY DEF Shaped
<1>2. /\ DOMAIN r = DOMAIN s /\ r.tags = tags /\ r.free = free
      /\ r.symbols = symbols /\ r.room = s.room /\ r.nodes = s.nodes
      /\ r.rootNode = s.rootNode /\ r.freeNodes = s.freeNodes
      /\ r.freeProperties = s.freeProperties
  BY <1>1 DEF GivenBack, StoreFields
<1> HIDE DEF r
<1>3. Shaped(r)
  BY <1>2 DEF Shaped
<1> QED
  BY <1>2, <1>3 DEF r

Stock(s, room, tags, free) ==
    [s EXCEPT !.room = room, !.tags = tags, !.free = free]

LEMMA StockFields ==
  ASSUME NEW s, Shaped(s), NEW room \in Nat, NEW tags, NEW free
  PROVE  /\ Shaped(Stock(s, room, tags, free))
         /\ Stock(s, room, tags, free).tags = tags
         /\ Stock(s, room, tags, free).free = free
         /\ Stock(s, room, tags, free).symbols = s.symbols
         /\ Stock(s, room, tags, free).room = room
         /\ Stock(s, room, tags, free).nodes = s.nodes
<1> DEFINE r == Stock(s, room, tags, free)
<1>1. StoreFields \subseteq DOMAIN s
  BY DEF Shaped
<1>2. /\ DOMAIN r = DOMAIN s /\ r.tags = tags /\ r.free = free
      /\ r.symbols = s.symbols /\ r.room = room /\ r.nodes = s.nodes
      /\ r.rootNode = s.rootNode /\ r.freeNodes = s.freeNodes
      /\ r.freeProperties = s.freeProperties
  BY <1>1 DEF Stock, StoreFields
<1> HIDE DEF r
<1>3. Shaped(r)
  BY <1>2 DEF Shaped
<1> QED
  BY <1>2, <1>3 DEF r

Taken(s, tags, free) ==
    [s EXCEPT !.tags = tags, !.free = free]

LEMMA TakenFields ==
  ASSUME NEW s, Shaped(s), NEW tags, NEW free
  PROVE  /\ Shaped(Taken(s, tags, free))
         /\ Taken(s, tags, free).tags = tags
         /\ Taken(s, tags, free).free = free
         /\ Taken(s, tags, free).symbols = s.symbols
         /\ Taken(s, tags, free).room = s.room
         /\ Taken(s, tags, free).nodes = s.nodes
<1> DEFINE r == Taken(s, tags, free)
<1>1. StoreFields \subseteq DOMAIN s
  BY DEF Shaped
<1>2. /\ DOMAIN r = DOMAIN s /\ r.tags = tags /\ r.free = free
      /\ r.symbols = s.symbols /\ r.room = s.room /\ r.nodes = s.nodes
      /\ r.rootNode = s.rootNode /\ r.freeNodes = s.freeNodes
      /\ r.freeProperties = s.freeProperties
  BY <1>1 DEF Taken, StoreFields
<1> HIDE DEF r
<1>3. Shaped(r)
  BY <1>2 DEF Shaped
<1> QED
  BY <1>2, <1>3 DEF r

Symboled(s, room, symbols) ==
    [s EXCEPT !.room = room, !.symbols = symbols]

LEMMA SymboledFields ==
  ASSUME NEW s, Shaped(s), NEW room \in Nat, NEW symbols
  PROVE  /\ Shaped(Symboled(s, room, symbols))
         /\ Symboled(s, room, symbols).tags = s.tags
         /\ Symboled(s, room, symbols).free = s.free
         /\ Symboled(s, room, symbols).symbols = symbols
         /\ Symboled(s, room, symbols).room = room
         /\ Symboled(s, room, symbols).nodes = s.nodes
<1> DEFINE r == Symboled(s, room, symbols)
<1>1. StoreFields \subseteq DOMAIN s
  BY DEF Shaped
<1>2. /\ DOMAIN r = DOMAIN s /\ r.tags = s.tags /\ r.free = s.free
      /\ r.symbols = symbols /\ r.room = room /\ r.nodes = s.nodes
      /\ r.rootNode = s.rootNode /\ r.freeNodes = s.freeNodes
      /\ r.freeProperties = s.freeProperties
  BY <1>1 DEF Symboled, StoreFields
<1> HIDE DEF r
<1>3. Shaped(r)
  BY <1>2 DEF Shaped
<1> QED
  BY <1>2, <1>3 DEF r

Retagged(s, tags) ==
    [s EXCEPT !.tags = tags]

LEMMA RetaggedFields ==
  ASSUME NEW s, Shaped(s), NEW tags
  PROVE  /\ Shaped(Retagged(s, tags))
         /\ Retagged(s, tags).tags = tags
         /\ Retagged(s, tags).free = s.free
         /\ Retagged(s, tags).symbols = s.symbols
         /\ Retagged(s, tags).room = s.room
         /\ Retagged(s, tags).nodes = s.nodes
<1> DEFINE r == Retagged(s, tags)
<1>1. StoreFields \subseteq DOMAIN s
  BY DEF Shaped
<1>2. /\ DOMAIN r = DOMAIN s /\ r.tags = tags /\ r.free = s.free
      /\ r.symbols = s.symbols /\ r.room = s.room /\ r.nodes = s.nodes
      /\ r.rootNode = s.rootNode /\ r.freeNodes = s.freeNodes
      /\ r.freeProperties = s.freeProperties
  BY <1>1 DEF Retagged, StoreFields
<1> HIDE DEF r
<1>3. Shaped(r)
  BY <1>2 DEF Shaped
<1> QED
  BY <1>2, <1>3 DEF r

\* Nothing points into G from outside, or out of it, and T has t of it.
Severed(s, T, t, G) ==
    /\ G \subseteq Used(s)
    /\ \A u \in G : {s.tags[u].tag, s.tags[u].tagNext} \subseteq G \cup {NULL}
    /\ \A u \in Used(s) \ G, x \in G : ~Points(s, u, x)
    /\ T \cap G = T \cap {t}

\* What XMLFreeTag does with the tags it gives back.
Without(s, gone) ==
    [s EXCEPT
        !.symbols = FreeSymbols(s, Range(gone)),
        !.tags = [x \in DOMAIN @ |-> IF x \in Range(gone) THEN ClearTag ELSE @[x]],
        !.free = Reverse(gone) \o @]

\* What has not changed.
Remains(s, r) ==
    /\ Len(r.tags) = Len(s.tags) /\ r.nodes = s.nodes /\ r.room = s.room
    /\ \A x \in Used(r) : r.tags[x] = s.tags[x]

FreeAlso(s, r, G) == Range(r.free) = Range(s.free) \cup G

LEMMA GiveBack ==
  ASSUME NEW s, NEW T, NEW t, Stored(s, T), Counted(s),
         NEW gone \in Seq(DOMAIN s.tags), IsInjective(gone),
         Severed(s, T, t, Range(gone)), NEW r, r = Without(s, gone)
  PROVE  /\ Stored(r, T \ {t}) /\ Counted(r)
         /\ Remains(s, r) /\ FreeAlso(s, r, Range(gone))
<1> DEFINE G == Range(gone)
           D == DOMAIN s.tags
           tags == [x \in D |-> IF x \in G THEN ClearTag ELSE s.tags[x]]
           free == Reverse(gone) \o s.free
<1>1. Shaped(s) /\ Inside(s) /\ Pooled(s) /\ Graded(s) /\ Owned(s, T)
  BY DEF Stored
<1>s. /\ G \subseteq Used(s)
      /\ \A u \in G : {s.tags[u].tag, s.tags[u].tagNext} \subseteq G \cup {NULL}
      /\ \A u \in Used(s) \ G, x \in G : ~Points(s, u, x)
      /\ T \cap G = T \cap {t}
  BY DEF Severed
<1>2. /\ Shaped(r) /\ r.tags = tags /\ r.free = free
      /\ r.symbols = FreeSymbols(s, G) /\ r.room = s.room /\ r.nodes = s.nodes
  <2>1. r = [s EXCEPT !.symbols = FreeSymbols(s, G), !.tags = tags, !.free = free]
    BY DEF Without
  <2> HIDE DEF tags, free
  <2> DEFINE symbols == FreeSymbols(s, G)
  <2>2. r = GivenBack(s, symbols, tags, free) /\ Shaped(s)
    BY <1>1, <2>1 DEF GivenBack
  <2> HIDE DEF symbols
  <2> DEFINE q == GivenBack(s, symbols, tags, free)
  <2>3. /\ Shaped(q) /\ q.tags = tags /\ q.free = free
        /\ q.symbols = symbols /\ q.room = s.room /\ q.nodes = s.nodes
    BY <1>1, GivenBackFields
  <2> QED
    BY <2>2, <2>3 DEF symbols
<1>3. Len(s.tags) \in Nat /\ D = 1 .. Len(s.tags) /\ \A x \in D : s.tags[x] \in Tag
  BY <1>1, TagsAre DEF Pooled
<1>4. /\ tags \in Seq(Tag) /\ Len(tags) = Len(s.tags) /\ DOMAIN tags = D
      /\ \A x \in D : tags[x] = IF x \in G THEN ClearTag ELSE s.tags[x]
  <2>1. tags \in [1 .. Len(s.tags) -> Tag]
    BY <1>3, ClearTagType
  <2> QED
    BY <1>3, <2>1
<1>5. G \subseteq D /\ G \subseteq Used(s) /\ G \cap Range(s.free) = {}
  BY <1>s DEF Used
<1>6. /\ free \in Seq(D) /\ IsInjective(free)
      /\ Range(free) = Range(s.free) \cup G
  <2>1. /\ Reverse(gone) \in Seq(D) /\ Range(Reverse(gone)) = G
        /\ IsInjective(Reverse(gone))
    BY InjectiveReverse
  <2>2. s.free \in Seq(D) /\ IsInjective(s.free)
    BY <1>1 DEF Pooled
  <2> HIDE DEF D, G
  <2> QED
    BY <1>5, <2>1, <2>2, InjectiveConcat, RangeConcatenation, ConcatProperties
<1> HIDE DEF tags, free
<1>7. Used(r) = Used(s) \ G
  BY <1>2, <1>4, <1>6 DEF Used
<1>8. \A x \in Used(r) : r.tags[x] = s.tags[x]
  BY <1>2, <1>4, <1>7 DEF Used
<1>9. Inside(r)
  BY <1>1, <1>2, <1>3, <1>4, ClearTagType DEF Inside, NULL
<1>10. Pooled(r)
  <2>0. /\ \A x \in Range(s.free) : s.tags[x] = ClearTag
        /\ Range(s.free) \subseteq D
    BY <1>1, RangeEquality DEF Pooled, Range
  <2>1. \A x \in Range(free) : tags[x] = ClearTag
    BY <1>4, <1>5, <1>6, <2>0
  <2> QED
    BY <1>2, <1>4, <1>6, <2>1 DEF Pooled
<1>11. Graded(r)
  <2>n. PICK N \in Nat : \E rank \in [D -> 0 .. N] :
           \A u, x \in D : Points(s, u, x) => rank[x] < rank[u]
    BY <1>1 DEF Graded
  <2>r. PICK rank \in [D -> 0 .. N] :
           \A u, x \in D : Points(s, u, x) => rank[x] < rank[u]
    BY <2>n
  <2>1. \A u, x \in D : Points(r, u, x) => Points(s, u, x)
    BY <1>2, <1>4, ClearTagType DEF Points
  <2>2. DOMAIN r.tags = D
    BY <1>2, <1>4
  <2> QED
    BY <2>r, <2>1, <2>2 DEF Graded
<1>12. Owned(r, T \ {t})
  <2>0. \A u \in Used(r) : \A x : Points(r, u, x) <=> Points(s, u, x)
    BY <1>8 DEF Points
  <2>1. T \ {t} \subseteq Used(r)
    BY <1>s, <1>1, <1>7 DEF Owned
  <2>2. ASSUME NEW u \in Used(r)
        PROVE  /\ {r.tags[u].tag, r.tags[u].tagNext} \subseteq Used(r) \cup {NULL}
               /\ r.tags[u].tag = r.tags[u].tagNext => r.tags[u].tag = NULL
               /\ \A x \in T \ {t} : ~Points(r, u, x)
    <3>1. u \in Used(s) /\ u \notin G /\ r.tags[u] = s.tags[u]
      BY <1>7, <1>8
    <3>2. /\ {s.tags[u].tag, s.tags[u].tagNext} \subseteq Used(s) \cup {NULL}
          /\ s.tags[u].tag = s.tags[u].tagNext => s.tags[u].tag = NULL
          /\ \A x \in T : ~Points(s, u, x)
      BY <1>1, <3>1 DEF Owned
    <3>3. /\ s.tags[u].tag # NULL => s.tags[u].tag \notin G
          /\ s.tags[u].tagNext # NULL => s.tags[u].tagNext \notin G
      BY <1>s, <3>1 DEF Points
    <3>4. {r.tags[u].tag, r.tags[u].tagNext} \subseteq Used(r) \cup {NULL}
      BY <1>7, <3>1, <3>2, <3>3
    <3>5. \A x \in T \ {t} : ~Points(r, u, x)
      BY <2>0, <3>2
    <3> QED
      BY <3>1, <3>2, <3>4, <3>5
  <2>3. ASSUME NEW x \in Used(r), NEW u \in Used(r), NEW v \in Used(r),
               Points(r, u, x), Points(r, v, x)
        PROVE  u = v
    <3>1. x \in Used(s) /\ u \in Used(s) /\ v \in Used(s)
      BY <1>7
    <3>2. Points(s, u, x) /\ Points(s, v, x)
      BY <2>0, <2>3
    <3> QED
      BY <1>1, <3>1, <3>2 DEF Owned
  <2>4. ASSUME NEW x \in Used(r) \ (T \ {t})
        PROVE  \E u \in Used(r) : Points(r, u, x)
    <3>1. x \in Used(s) \ T
      BY <1>s, <1>7
    <3>2. PICK u \in Used(s) : Points(s, u, x)
      BY <1>1, <3>1 DEF Owned
    <3>3. u \notin G
      <4>1. x # NULL /\ x \notin G
        BY <1>7, <3>2 DEF Points
      <4> QED
        BY <1>s, <3>2, <4>1 DEF Points
    <3> QED
      BY <1>7, <2>0, <3>2, <3>3
  <2> QED
    BY <2>1, <2>2, <2>3, <2>4 DEF Owned
<1>13. Counted(r)
  <2>1. IsFiniteSet(Used(s))
    BY <1>1, UsedAre
  <2>2. References(s, Used(s)) (-) References(s, G) = References(r, Used(s) \ G)
    <3>1. Alike(s, r, Used(s) \ G)
      BY <1>7, <1>8 DEF Alike
    <3>2. G \subseteq Used(s)
      BY <1>5
    <3> HIDE DEF G
    <3> QED
      BY <2>1, <3>1, <3>2, ReferencesLess
  <2>3. r.symbols = s.symbols (-) References(s, G)
    BY <1>2 DEF FreeSymbols
  <2>4. s.symbols = References(s, Used(s))
    BY DEF Counted
  <2> QED
    BY <1>7, <2>2, <2>3, <2>4 DEF Counted
<1>14. Range(r.free) = Range(s.free) \cup G /\ Len(r.tags) = Len(s.tags)
  BY <1>2, <1>4, <1>6
<1> QED
  BY <1>2, <1>8, <1>9, <1>10, <1>11, <1>12, <1>13, <1>14
     DEF Stored, Remains, FreeAlso

\* Giving back a tag that nothing points to, and what is below it.
LEMMA FreeTagKeeps ==
  ASSUME NEW s, NEW T, NEW t, Stored(s, T), Counted(s), t \in T \/ t = NULL,
         NEW r, r = XMLFreeTag(s, t)
  PROVE  /\ Stored(r, T \ {t}) /\ Counted(r)
         /\ Remains(s, r) /\ Range(s.free) \subseteq Range(r.free)
         /\ t # NULL => t \in Range(r.free)
<1> DEFINE gone == Below(s, t)
           G == Range(gone)
           D == DOMAIN s.tags
<1>1. Shaped(s) /\ Inside(s) /\ Pooled(s) /\ Graded(s) /\ Owned(s, T)
  BY DEF Stored
<1>2. /\ Used(s) \subseteq D /\ NULL \notin Used(s) /\ T \subseteq Used(s)
  BY <1>1, UsedAre DEF Owned
<1>3. /\ gone \in Seq(D) /\ IsInjective(gone) /\ G \subseteq Used(s)
      /\ \A u \in G : {s.tags[u].tag, s.tags[u].tagNext} \subseteq G \cup {NULL}
      /\ \A u \in Used(s) \ G, x \in G : ~Points(s, u, x)
      /\ T \cap G = T \cap {t}
      /\ t # NULL => t \in G
  <2>1. CASE t = NULL
    <3>1. gone = <<>>
      <4>1. PICK b \in [0 .. Len(s.tags) -> Seq(D)] :
               /\ b[NULL] = <<>>
               /\ \A x \in D :
                     b[x] = (b[s.tags[x].tag] \o b[s.tags[x].tagNext]) \o <<x>>
               /\ \A x \in 0 .. Len(s.tags) : Below(s, x) = b[x]
        BY <1>1, BelowIs DEF Pooled
      <4>2. NULL \in 0 .. Len(s.tags)
        BY <1>1, TagsAre DEF NULL, Pooled
      <4> QED
        BY <2>1, <4>1, <4>2
    <3>2. gone \in Seq(D) /\ IsInjective(gone) /\ G = {}
      BY <3>1, EmptySeq DEF IsInjective, Range
    <3> QED
      BY <1>2, <2>1, <3>2
  <2>2. CASE t # NULL
    <3>0. t \in T /\ t \in Used(s)
      BY <1>2, <2>2
    <3>1. gone \in Seq(D) /\ IsInjective(gone) /\ Entire(s, t, G)
      BY <1>1, <3>0, BelowWhole
    <3> HIDE DEF G, gone
    <3>2. /\ t \in G /\ G \subseteq Used(s)
          /\ \A u \in G : {s.tags[u].tag, s.tags[u].tagNext} \subseteq G \cup {NULL}
          /\ \A x \in G \ {t} : \E u \in G : Points(s, u, x)
      BY <3>1 DEF Entire
    <3>3. \A u \in Used(s), x \in T : ~Points(s, u, x)
      BY <1>1 DEF Owned
    <3>4. T \cap G = T \cap {t}
      BY <3>0, <3>2, <3>3
    <3>5. ASSUME NEW u \in Used(s) \ G, NEW x \in G, Points(s, u, x)
          PROVE  FALSE
      <4>1. x # t
        BY <3>0, <3>3, <3>5
      <4>2. PICK v \in G : Points(s, v, x)
        BY <3>2, <4>1
      <4>3. u = v
        BY <1>1, <3>2, <3>5, <4>2 DEF Owned
      <4> QED
        BY <3>5, <4>2, <4>3
    <3> QED
      BY <3>1, <3>2, <3>4, <3>5
  <2> QED
    BY <2>1, <2>2
<1>4. r = Without(s, gone)
  BY DEF XMLFreeTag, Without
<1>5. Severed(s, T, t, Range(gone))
  BY <1>3 DEF Severed
<1> HIDE DEF gone
<1>6. /\ Stored(r, T \ {t}) /\ Counted(r)
      /\ Remains(s, r) /\ FreeAlso(s, r, Range(gone))
  <2>1. gone \in Seq(DOMAIN s.tags) /\ IsInjective(gone)
    BY <1>3
  <2> QED
    BY <2>1, <1>4, <1>5, GiveBack
<1> QED
  BY <1>3, <1>6 DEF FreeAlso

\* What there was is still there, and in use if it was.
Extended(s, r) ==
    /\ Used(r) = Used(s) /\ Len(s.tags) <= Len(r.tags)
    /\ \A x \in Used(s) : r.tags[x] = s.tags[x]
    /\ r.nodes = s.nodes /\ r.symbols = s.symbols

\* A block of tags, if none is free.
LEMMA StockedKeeps ==
  ASSUME NEW s, NEW T, Stored(s, T), Counted(s), ~NewTagRefused(s),
         NEW r, r = Stocked(s)
  PROVE  /\ Stored(r, T) /\ Counted(r) /\ Extended(s, r)
         /\ r.free # <<>>
<1>1. Shaped(s) /\ Inside(s) /\ Pooled(s) /\ Graded(s) /\ Owned(s, T)
  BY DEF Stored
<1> DEFINE n == Len(s.tags)
           D == DOMAIN s.tags
<1>2. n \in Nat /\ D = 1 .. n /\ Used(s) \subseteq D /\ NULL \notin Used(s)
  BY <1>1, TagsAre, UsedAre DEF Pooled
<1>3. CASE s.free # <<>>
  <2>1. r = s
    BY <1>3 DEF Stocked
  <2> QED
    BY <1>1, <1>2, <1>3, <2>1 DEF Extended
<1>4. CASE s.free = <<>>
  <2> DEFINE K == PerBlock
             block == [i \in 1 .. K |-> ClearTag]
             tags == s.tags \o block
             free == [i \in 1 .. K |-> n + i]
             room == s.room - 1
  <2>1. K \in Nat /\ K >= 1 /\ n + K \in Nat
    BY <1>2, XmlAssumption
  <2>2. room \in Nat
    BY <1>1, <1>4 DEF NewTagRefused, Shaped
  <2>3. /\ tags \in Seq(Tag) /\ Len(tags) = n + K
        /\ \A x \in 1 .. n + K : tags[x] = IF x <= n THEN s.tags[x] ELSE ClearTag
    <3>1. block \in Seq(Tag) /\ Len(block) = K /\ \A i \in 1 .. K : block[i] = ClearTag
      <4>1. block \in [1 .. K -> Tag]
        BY ClearTagType
      <4> QED
        BY <2>1, <4>1
    <3>2. s.tags \in Seq(Tag)
      BY <1>1 DEF Pooled
    <3> HIDE DEF block, K
    <3>3. /\ tags \in Seq(Tag) /\ Len(tags) = n + K
          /\ \A x \in 1 .. n + K : tags[x] = IF x <= n THEN s.tags[x] ELSE block[x - n]
      BY <3>1, <3>2, ConcatProperties
    <3>4. \A x \in 1 .. n + K : ~(x <= n) => x - n \in 1 .. K
      BY <1>2, <2>1
    <3> QED
      BY <3>1, <3>3, <3>4
  <2>4. /\ free \in Seq(1 .. n + K) /\ Len(free) = K /\ IsInjective(free)
        /\ Range(free) = (n + 1) .. (n + K) /\ free # <<>>
    <3>1. free \in [1 .. K -> 1 .. n + K]
      BY <1>2, <2>1
    <3>2. free \in Seq(1 .. n + K) /\ Len(free) = K /\ DOMAIN free = 1 .. K
      BY <2>1, <3>1
    <3>3. \A i \in 1 .. K : free[i] = n + i
      OBVIOUS
    <3> HIDE DEF free
    <3>4. \A i, j \in 1 .. K : free[i] = free[j] => i = j
      BY <1>2, <2>1, <3>3
    <3>5. \A x \in (n + 1) .. (n + K) : x - n \in 1 .. K /\ x = n + (x - n)
      BY <1>2, <2>1
    <3>6. Range(free) = (n + 1) .. (n + K)
      <4>1. Range(free) = {n + i : i \in 1 .. K}
        BY <3>2, <3>3 DEF Range
      <4>2. \A i \in 1 .. K : n + i \in (n + 1) .. (n + K)
        BY <1>2, <2>1
      <4> QED
        BY <3>5, <4>1, <4>2
    <3> QED
      BY <2>1, <3>2, <3>4, <3>6, EmptySeq DEF IsInjective
  <2>5. r = Stock(s, room, tags, free)
    BY <1>4 DEF Stocked, Stock
  <2> HIDE DEF tags, free, room, K
  <2>6. /\ Shaped(r) /\ r.tags = tags /\ r.free = free
        /\ r.symbols = s.symbols /\ r.room = room /\ r.nodes = s.nodes
    BY <1>1, <2>2, <2>5, StockFields
  <2>7. DOMAIN r.tags = 1 .. n + K
    BY <2>3, <2>6, LenProperties
  <2>8. Range(s.free) = {} /\ Used(s) = D
    BY <1>4 DEF Range, Used
  <2>9. Used(r) = D
    BY <1>2, <2>1, <2>4, <2>6, <2>7 DEF Used
  <2>10. \A x \in D : r.tags[x] = s.tags[x]
    BY <1>2, <2>1, <2>3, <2>6
  <2>11. \A x \in 1 .. n + K : x \notin D => r.tags[x] = ClearTag
    BY <1>2, <2>1, <2>3, <2>6
  <2>12. Inside(r)
    <3>1. \A x \in D : {s.tags[x].tag, s.tags[x].tagNext} \subseteq 0 .. n
      BY <1>1 DEF Inside
    <3>2. \A x \in 1 .. n + K :
             {r.tags[x].tag, r.tags[x].tagNext} \subseteq 0 .. n + K
      BY <1>2, <2>1, <2>10, <2>11, <3>1, ClearTagType DEF NULL
    <3> QED
      BY <2>3, <2>6, <2>7, <3>2 DEF Inside
  <2>13. Pooled(r)
    <3>1. \A x \in (n + 1) .. (n + K) : x \in 1 .. n + K /\ x \notin D
      BY <1>2, <2>1
    <3> QED
      BY <2>3, <2>4, <2>6, <2>7, <2>11, <3>1 DEF Pooled
  <2>14. \A u, x \in 1 .. n + K : Points(r, u, x) =>
            u \in D /\ x \in D /\ Points(s, u, x)
    <3> SUFFICES ASSUME NEW u \in 1 .. n + K, NEW x \in 1 .. n + K, Points(r, u, x)
                 PROVE  u \in D /\ x \in D /\ Points(s, u, x)
      OBVIOUS
    <3>1. u \in D
      BY <2>11, ClearTagType DEF Points
    <3>2. Points(s, u, x)
      BY <2>10, <3>1 DEF Points
    <3>3. s.tags[u].tag \in 0 .. n /\ s.tags[u].tagNext \in 0 .. n
      BY <1>1, <3>1 DEF Inside
    <3> QED
      BY <1>2, <3>1, <3>2, <3>3 DEF Points, NULL
  <2>15. Graded(r)
    <3>n. PICK N \in Nat : \E rank \in [D -> 0 .. N] :
             \A u, x \in D : Points(s, u, x) => rank[x] < rank[u]
      BY <1>1 DEF Graded
    <3>r. PICK rank \in [D -> 0 .. N] :
             \A u, x \in D : Points(s, u, x) => rank[x] < rank[u]
      BY <3>n
    <3> DEFINE more == [x \in 1 .. n + K |-> IF x \in D THEN rank[x] ELSE 0]
    <3>1. more \in [1 .. n + K -> 0 .. N]
      BY <3>r
    <3>2. \A u, x \in 1 .. n + K : Points(r, u, x) => more[x] < more[u]
      BY <2>14, <3>r
    <3> HIDE DEF more
    <3> QED
      BY <2>7, <3>1, <3>2 DEF Graded
  <2>16. Owned(r, T)
    <3>1. \A u, x \in D : Points(r, u, x) <=> Points(s, u, x)
      BY <2>10 DEF Points
    <3>2. T \subseteq D
      BY <1>1, <2>8 DEF Owned
    <3>3. \A u \in D :
             /\ {s.tags[u].tag, s.tags[u].tagNext} \subseteq D \cup {NULL}
             /\ s.tags[u].tag = s.tags[u].tagNext => s.tags[u].tag = NULL
             /\ \A t \in T : ~Points(s, u, t)
      BY <1>1, <2>8 DEF Owned
    <3>4. \A t, u, v \in D : Points(s, u, t) /\ Points(s, v, t) => u = v
      BY <1>1, <2>8 DEF Owned
    <3>5. \A t \in D \ T : \E u \in D : Points(s, u, t)
      BY <1>1, <2>8 DEF Owned
    <3>6. \A u \in D : \A t \in T : ~Points(r, u, t)
      BY <3>1, <3>2, <3>3
    <3>7. \A t, u, v \in D : Points(r, u, t) /\ Points(r, v, t) => u = v
      BY <3>1, <3>4
    <3>8. \A t \in D \ T : \E u \in D : Points(r, u, t)
      BY <3>1, <3>5
    <3> HIDE DEF D
    <3> QED
      BY <2>9, <2>10, <3>2, <3>3, <3>6, <3>7, <3>8 DEF Owned
  <2>17. Counted(r)
    <3>1. Alike(s, r, Used(s))
      BY <2>8, <2>10 DEF Alike
    <3>2. IsFiniteSet(Used(s))
      BY <1>1, UsedAre
    <3>3. References(r, Used(s)) = References(s, Used(s))
      BY <3>1, <3>2, SameReferences
    <3> QED
      BY <2>6, <2>8, <2>9, <3>3 DEF Counted
  <2>18. Extended(s, r)
    <3>1. Len(s.tags) <= Len(r.tags)
      BY <1>2, <2>1, <2>3, <2>6
    <3> QED
      BY <2>6, <2>8, <2>9, <2>10, <3>1 DEF Extended
  <2> QED
    BY <2>4, <2>6, <2>12, <2>13, <2>15, <2>16, <2>17, <2>18 DEF Stored
<1> QED
  BY <1>3, <1>4

\* Tags are what is stored, whatever becomes of the rest.
SamePool(s, r) == r.tags = s.tags /\ r.free = s.free

LEMMA StoredSame ==
  ASSUME NEW s, NEW r, NEW T, Stored(s, T), SamePool(s, r), Shaped(r)
  PROVE  Stored(r, T) /\ Used(r) = Used(s)
<1>1. r.tags = s.tags /\ r.free = s.free
  BY DEF SamePool
<1>2. Inside(s) /\ Pooled(s) /\ Graded(s) /\ Owned(s, T)
  BY DEF Stored
<1>3. Used(r) = Used(s)
  BY <1>1 DEF Used
<1>4. \A u, x : Points(r, u, x) <=> Points(s, u, x)
  BY <1>1 DEF Points
<1>5. Inside(r) /\ Pooled(r) /\ Graded(r)
  BY <1>1, <1>2, <1>4 DEF Inside, Pooled, Graded
<1>6. Owned(r, T)
  <2> DEFINE U == Used(s)
  <2>1. /\ T \subseteq U
        /\ \A u \in U :
              /\ {s.tags[u].tag, s.tags[u].tagNext} \subseteq U \cup {NULL}
              /\ s.tags[u].tag = s.tags[u].tagNext => s.tags[u].tag = NULL
              /\ \A t \in T : ~Points(s, u, t)
        /\ \A t, u, v \in U : Points(s, u, t) /\ Points(s, v, t) => u = v
        /\ \A t \in U \ T : \E u \in U : Points(s, u, t)
    BY <1>2 DEF Owned
  <2> HIDE DEF U
  <2>2. /\ T \subseteq U
        /\ \A u \in U :
              /\ {r.tags[u].tag, r.tags[u].tagNext} \subseteq U \cup {NULL}
              /\ r.tags[u].tag = r.tags[u].tagNext => r.tags[u].tag = NULL
              /\ \A t \in T : ~Points(r, u, t)
        /\ \A t, u, v \in U : Points(r, u, t) /\ Points(r, v, t) => u = v
        /\ \A t \in U \ T : \E u \in U : Points(r, u, t)
    BY <1>1, <1>4, <2>1
  <2>3. Used(r) = U
    BY <1>3 DEF U
  <2> QED
    BY <2>2, <2>3 DEF Owned
<1> QED
  BY <1>3, <1>5, <1>6 DEF Stored

LEMMA HeadAndTail ==
  ASSUME NEW S, NEW x \in Seq(S), x # <<>>, IsInjective(x)
  PROVE  /\ Head(x) \in S /\ Tail(x) \in Seq(S) /\ IsInjective(Tail(x))
         /\ Range(Tail(x)) = Range(x) \ {Head(x)} /\ Head(x) \in Range(x)
<1>1. /\ Len(x) \in Nat /\ Len(x) >= 1 /\ DOMAIN x = 1 .. Len(x)
      /\ \A i \in 1 .. Len(x) : x[i] \in S
  BY LenProperties, ElementOfSeq, EmptySeq
<1> DEFINE y == Tail(x)
           n == Len(x)
<1>2. /\ Head(x) = x[1] /\ y \in Seq(S) /\ Len(y) = n - 1
      /\ \A i \in 1 .. n - 1 : y[i] = x[i + 1]
  BY HeadTailProperties
<1>3. DOMAIN y = 1 .. n - 1
  BY <1>2, LenProperties
<1> HIDE DEF y, n
<1>4. n \in Nat /\ n >= 1 /\ DOMAIN x = 1 .. n
  BY <1>1 DEF n
<1>5. \A i, j \in 1 .. n : x[i] = x[j] => i = j
  BY <1>4 DEF IsInjective
<1>6. \A i \in 1 .. n - 1 : i + 1 \in 1 .. n /\ i + 1 # 1
  BY <1>4
<1>7. IsInjective(y)
  <2>1. ASSUME NEW i \in 1 .. n - 1, NEW j \in 1 .. n - 1, y[i] = y[j]
        PROVE  i = j
    <3>1. i + 1 = j + 1
      BY <1>2, <1>5, <1>6, <2>1
    <3> QED
      BY <1>4, <3>1
  <2> QED
    BY <1>3, <2>1 DEF IsInjective
<1>8. Range(x) = {x[i] : i \in 1 .. n} /\ Range(y) = {y[i] : i \in 1 .. n - 1}
  BY <1>3, <1>4 DEF Range
<1>9. \A i \in 1 .. n : i # 1 => i - 1 \in 1 .. n - 1 /\ (i - 1) + 1 = i
  BY <1>4
<1>10. 1 \in 1 .. n
  BY <1>4
<1>11. Range(y) \subseteq Range(x) \ {x[1]}
  BY <1>2, <1>5, <1>6, <1>8, <1>10
<1>12. Range(x) \ {x[1]} \subseteq Range(y)
  <2> SUFFICES ASSUME NEW i \in 1 .. n, x[i] # x[1] PROVE x[i] \in Range(y)
    BY <1>8
  <2>1. i # 1
    OBVIOUS
  <2>2. i - 1 \in 1 .. n - 1 /\ y[i - 1] = x[i]
    BY <1>2, <1>9, <2>1
  <2> QED
    BY <1>8, <2>2
<1> QED
  BY <1>1, <1>2, <1>4, <1>7, <1>8, <1>10, <1>11, <1>12 DEF y

\* n is a tag more in r than in s, and all else is as it was.
Joined(s, r, n) ==
    /\ n \in Range(s.free) /\ n \in DOMAIN r.tags /\ n # NULL
    /\ Used(r) = Used(s) \cup {n} /\ n \notin Used(s) /\ n \notin Range(r.free)
    /\ Len(r.tags) = Len(s.tags)
    /\ \A x \in Used(s) : r.tags[x] = s.tags[x]
    /\ r.nodes = s.nodes /\ r.symbols = s.symbols

Filled(r, n, type, string, tag) ==
    r.tags[n] = [type |-> type, string |-> string, tag |-> tag, tagNext |-> NULL]

\* A free tag taken, which leads to a tag that nothing pointed to, or to none.
LEMMA WithTagKeeps ==
  ASSUME NEW s, NEW T, Stored(s, T), s.free # <<>>, NEW type \in TagTypes,
         NEW string \in Strings, NEW tag, tag \in T \cup {NULL},
         NEW r, r = WithTag(s, type, string, tag)
  PROVE  /\ Stored(r, (T \ {tag}) \cup {NewTag(s)})
         /\ Joined(s, r, NewTag(s))
         /\ Filled(r, NewTag(s), type, string, tag)
<1>1. Shaped(s) /\ Inside(s) /\ Pooled(s) /\ Graded(s) /\ Owned(s, T)
  BY DEF Stored
<1> DEFINE n == NewTag(s)
           L == Len(s.tags)
           D == DOMAIN s.tags
           new == [type |-> type, string |-> string, tag |-> tag, tagNext |-> NULL]
           tags == [s.tags EXCEPT ![n] = new]
           free == Tail(s.free)
           U == Used(s)
           X == (T \ {tag}) \cup {n}
<1>2. L \in Nat /\ D = 1 .. L /\ Used(s) \subseteq D /\ NULL \notin Used(s)
      /\ NULL \notin D /\ T \subseteq Used(s)
  BY <1>1, TagsAre, UsedAre DEF Pooled, Owned
<1>3. n = Head(s.free)
  BY DEF NewTag, Stocked
<1>4. /\ n \in D /\ free \in Seq(D) /\ IsInjective(free)
      /\ Range(free) = Range(s.free) \ {n} /\ n \in Range(s.free)
      /\ n \notin Used(s)
  <2>1. /\ Head(s.free) \in D /\ Tail(s.free) \in Seq(D) /\ IsInjective(Tail(s.free))
        /\ Range(Tail(s.free)) = Range(s.free) \ {Head(s.free)}
        /\ Head(s.free) \in Range(s.free)
    BY <1>1, HeadAndTail DEF Pooled
  <2> QED
    BY <1>3, <2>1 DEF Used
<1>5. r = Taken(s, tags, free)
  BY DEF WithTag, Stocked, Taken
<1>6. /\ tags \in Seq(Tag) /\ Len(tags) = L /\ DOMAIN tags = D
      /\ tags[n] = new /\ \A x \in D : x # n => tags[x] = s.tags[x]
  <2>1. s.tags \in Seq(Tag)
    BY <1>1 DEF Pooled
  <2>2. new \in Tag
    BY <1>2 DEF Tag, NULL
  <2> HIDE DEF new, n, D
  <2>3. s.tags \in [1 .. L -> Tag]
    BY <2>1
  <2>4. tags \in [1 .. L -> Tag] /\ tags[n] = new
        /\ \A x \in D : x # n => tags[x] = s.tags[x]
    BY <1>2, <1>4, <2>2, <2>3
  <2> HIDE DEF tags
  <2> QED
    BY <1>2, <2>4
<1> HIDE DEF tags, free, n
<1>7. /\ Shaped(r) /\ r.tags = tags /\ r.free = free
      /\ r.symbols = s.symbols /\ r.room = s.room /\ r.nodes = s.nodes
  BY <1>1, <1>5, TakenFields
<1>8. Used(r) = U \cup {n}
  BY <1>4, <1>6, <1>7 DEF Used
<1>9. \A x \in D : x # n => r.tags[x] = s.tags[x]
  BY <1>6, <1>7
<1>10. r.tags[n].tag = tag /\ r.tags[n].tagNext = NULL /\ r.tags[n] = new
  BY <1>6, <1>7
<1> HIDE DEF new, D, U
<1>11. U \subseteq D /\ n \notin U
  BY <1>2, <1>4 DEF U
<1>12. \A u \in U : \A x : Points(r, u, x) <=> Points(s, u, x)
  BY <1>4, <1>9, <1>11 DEF Points
<1>13. \A x : Points(r, n, x) <=> x # NULL /\ x = tag
  BY <1>10 DEF Points
<1>14. /\ \A u \in U :
             /\ {s.tags[u].tag, s.tags[u].tagNext} \subseteq U \cup {NULL}
             /\ s.tags[u].tag = s.tags[u].tagNext => s.tags[u].tag = NULL
             /\ \A t \in T : ~Points(s, u, t)
       /\ \A t, u, v \in U : Points(s, u, t) /\ Points(s, v, t) => u = v
       /\ \A t \in U \ T : \E u \in U : Points(s, u, t)
       /\ T \subseteq U
  BY <1>1 DEF Owned, U
<1>15. tag \in U \cup {NULL} /\ (tag # NULL => tag \in T)
  BY <1>14
<1>16. \A u \in U : ~Points(s, u, n)
  BY <1>11, <1>14 DEF Points
<1>17. Inside(r)
  <2>1. tag \in 0 .. L
    BY <1>2, <1>11, <1>15 DEF NULL, D
  <2>2. ASSUME NEW x \in D
        PROVE  {r.tags[x].tag, r.tags[x].tagNext} \subseteq 0 .. L
    <3>1. CASE x = n
      BY <1>2, <1>10, <2>1, <3>1 DEF NULL
    <3>2. CASE x # n
      BY <1>1, <1>9, <3>2 DEF Inside, D
    <3> QED
      BY <3>1, <3>2
  <2> QED
    BY <1>6, <1>7, <2>2 DEF Inside
<1>18. Pooled(r)
  <2>1. \A x \in Range(free) : tags[x] = ClearTag
    <3>1. \A x \in Range(s.free) : s.tags[x] = ClearTag
      BY <1>1 DEF Pooled
    <3>2. Range(s.free) \subseteq D
      BY <1>1, RangeEquality DEF Pooled, Range, D
    <3> QED
      BY <1>4, <1>6, <3>1, <3>2
  <2> QED
    BY <1>4, <1>6, <1>7, <2>1 DEF Pooled
<1>19. Graded(r)
  <2>n. PICK N \in Nat : \E rank \in [D -> 0 .. N] :
           \A u, x \in D : Points(s, u, x) => rank[x] < rank[u]
    BY <1>1 DEF Graded, D
  <2>r. PICK rank \in [D -> 0 .. N] :
           \A u, x \in D : Points(s, u, x) => rank[x] < rank[u]
    BY <2>n
  <2> DEFINE more == [x \in D |-> IF x = n THEN N + 1 ELSE rank[x]]
  <2>1. more \in [D -> 0 .. N + 1]
    BY <2>r
  <2>2. ASSUME NEW u \in D, NEW x \in D, Points(r, u, x)
        PROVE  more[x] < more[u]
    <3>1. rank[x] \in 0 .. N /\ rank[u] \in 0 .. N
      BY <2>r
    <3>2. x # n
      <4>1. CASE u = n
        BY <1>11, <1>13, <1>15, <2>2, <4>1
      <4>2. CASE u # n /\ u \in U
        BY <1>12, <1>16, <2>2, <4>2
      <4>3. CASE u # n /\ u \notin U
        <5>1. s.tags[u] = ClearTag
          BY <1>1, <4>3 DEF Pooled, U, Used, D
        <5> QED
          BY <1>9, <2>2, <4>3, <5>1, ClearTagType DEF Points
      <4> QED
        BY <4>1, <4>2, <4>3
    <3>3. CASE u = n
      BY <3>1, <3>2, <3>3
    <3>4. CASE u # n
      <4>1. Points(s, u, x)
        BY <1>9, <2>2, <3>4 DEF Points
      <4> QED
        BY <2>r, <3>2, <3>4, <4>1
    <3> QED
      BY <3>3, <3>4
  <2> HIDE DEF more
  <2>3. DOMAIN r.tags = D /\ N + 1 \in Nat
    BY <1>6, <1>7
  <2> QED
    BY <2>1, <2>2, <2>3 DEF Graded
<1>20. Owned(r, X)
  <2> DEFINE V == U \cup {n}
  <2>1. X \subseteq V
    BY <1>14
  <2>2. ASSUME NEW u \in V
        PROVE  /\ {r.tags[u].tag, r.tags[u].tagNext} \subseteq V \cup {NULL}
               /\ r.tags[u].tag = r.tags[u].tagNext => r.tags[u].tag = NULL
               /\ \A t \in X : ~Points(r, u, t)
    <3>1. CASE u = n
      <4>1. \A t \in X : ~Points(r, u, t)
        BY <1>11, <1>13, <1>15, <3>1
      <4> QED
        BY <1>10, <1>15, <3>1, <4>1
    <3>2. CASE u \in U
      <4>1. r.tags[u] = s.tags[u]
        BY <1>9, <1>11, <3>2
      <4>2. \A t \in X : ~Points(r, u, t)
        BY <1>12, <1>14, <1>16, <3>2
      <4> QED
        BY <1>14, <3>2, <4>1, <4>2
    <3> QED
      BY <3>1, <3>2
  <2>3. ASSUME NEW t \in V, NEW u \in V, NEW v \in V, Points(r, u, t), Points(r, v, t)
        PROVE  u = v
    <3>1. t \in U
      BY <1>11, <1>12, <1>13, <1>15, <1>16, <2>3
    <3>2. \A x \in U : ~(Points(r, n, t) /\ Points(r, x, t))
      <4>1. SUFFICES ASSUME NEW x \in U, Points(r, n, t), Points(r, x, t)
                     PROVE  FALSE
        OBVIOUS
      <4>2. t \in T /\ Points(s, x, t)
        BY <1>12, <1>13, <1>15, <4>1
      <4> QED
        BY <1>14, <4>2
    <3>3. CASE u \in U /\ v \in U
      BY <1>12, <1>14, <2>3, <3>1, <3>3
    <3> QED
      BY <2>3, <3>2, <3>3
  <2>4. ASSUME NEW t \in V \ X
        PROVE  \E u \in V : Points(r, u, t)
    <3>1. CASE t = tag
      <4>1. t # NULL
        BY <1>2, <1>4, <2>4, <3>1 DEF U, D
      <4> QED
        BY <1>13, <3>1, <4>1
    <3>2. CASE t # tag
      <4>1. t \in U \ T
        BY <2>4, <3>2
      <4> QED
        BY <1>12, <1>14, <4>1
    <3> QED
      BY <3>1, <3>2
  <2> HIDE DEF X, V
  <2>5. Used(r) = V
    BY <1>8 DEF V
  <2> QED
    BY <2>1, <2>2, <2>3, <2>4, <2>5 DEF Owned
<1>21. Joined(s, r, n)
  <2>1. n # NULL
    BY <1>2, <1>4 DEF D
  <2>2. \A x \in U : r.tags[x] = s.tags[x]
    BY <1>9, <1>11
  <2> QED
    BY <1>4, <1>6, <1>7, <1>8, <2>1, <2>2 DEF Joined, U
<1> QED
  BY <1>7, <1>10, <1>17, <1>18, <1>19, <1>20, <1>21 DEF Stored, Filled, n, new

\* What making a tag does to the rest, n being the tag.
Made(s, r, n) ==
    /\ n \in DOMAIN r.tags /\ n # NULL /\ n \notin Used(s)
    /\ Used(r) = Used(s) \cup {n} /\ n \notin Range(r.free)
    /\ r.tags[n].tagNext = NULL
    /\ Len(s.tags) <= Len(r.tags)
    /\ \A x \in Used(s) : r.tags[x] = s.tags[x]
    /\ r.nodes = s.nodes

\* The symbol for a tag, made before the tag.
Symbol(s, string) ==
    IF string = <<>> THEN s ELSE NewSymbol(Stocked(s), string)

LEMMA MakeTag ==
  ASSUME NEW s, NEW T, Stored(s, T), Counted(s), ~NewTagRefused(s),
         NEW type \in TagTypes, NEW string \in Strings,
         string # <<>> => ~NewSymbolRefused(Stocked(s), string),
         NEW tag, tag \in T \cup {NULL},
         NEW n, n = NewTag(Symbol(s, string)),
         NEW r, r = WithTag(Symbol(s, string), type, string, tag)
  PROVE  Stored(r, (T \ {tag}) \cup {n}) /\ Counted(r) /\ Made(s, r, n)
<1> DEFINE p == Stocked(s)
           q == IF string = <<>> THEN p ELSE NewSymbol(p, string)
<1>1. Stored(p, T) /\ Counted(p) /\ Extended(s, p) /\ p.free # <<>>
  BY StockedKeeps
<1> HIDE DEF p
<1>2. /\ Stored(q, T) /\ q.tags = p.tags /\ q.free = p.free /\ q.nodes = p.nodes
      /\ q.symbols = IF string = <<>> THEN p.symbols
                     ELSE p.symbols (+) SetToBag({string})
  <2>1. CASE string = <<>>
    BY <1>1, <2>1
  <2>2. CASE string # <<>>
    <3> DEFINE room == IF BagIn(string, p.symbols) THEN p.room ELSE p.room - 1
               symbols == p.symbols (+) SetToBag({string})
    <3>1. q = Symboled(p, room, symbols)
      BY <2>2 DEF NewSymbol, Symboled
    <3>2. room \in Nat
      BY <1>1, <2>2 DEF NewSymbolRefused, Stored, Shaped, p
    <3> HIDE DEF room, q
    <3>3. Shaped(p)
      BY <1>1 DEF Stored
    <3>4. /\ Shaped(q) /\ q.tags = p.tags /\ q.free = p.free
          /\ q.symbols = symbols /\ q.room = room /\ q.nodes = p.nodes
      <4> HIDE DEF symbols
      <4> QED
        BY <3>1, <3>2, <3>3, SymboledFields
    <3>5. Stored(q, T)
      BY <1>1, <3>4, StoredSame DEF SamePool
    <3> QED
      BY <2>2, <3>4, <3>5
  <2> QED
    BY <2>1, <2>2
<1>3. q.free # <<>>
  BY <1>1, <1>2
<1>4. n = NewTag(q) /\ r = WithTag(q, type, string, tag)
  <2>1. CASE string = <<>>
    BY <1>1, <2>1 DEF Symbol, NewTag, WithTag, Stocked, p
  <2>2. CASE string # <<>>
    BY <2>2 DEF Symbol, p
  <2> QED
    BY <2>1, <2>2
<1> HIDE DEF q
<1>5. /\ Stored(r, (T \ {tag}) \cup {n}) /\ Joined(q, r, n)
      /\ Filled(r, n, type, string, tag)
  <2>1. Stored(q, T) /\ q.free # <<>> /\ r = WithTag(q, type, string, tag)
    BY <1>2, <1>3, <1>4
  <2>2. /\ Stored(r, (T \ {tag}) \cup {NewTag(q)}) /\ Joined(q, r, NewTag(q))
        /\ Filled(r, NewTag(q), type, string, tag)
    BY <2>1, WithTagKeeps
  <2> QED
    BY <1>4, <2>2
<1>6. Used(q) = Used(p) /\ Used(p) = Used(s)
  BY <1>1, <1>2 DEF Extended, Used
<1>7. Alike(p, r, Used(p)) /\ r.tags[n].string = string /\ n \notin Used(p)
      /\ Used(r) = Used(p) \cup {n}
  BY <1>2, <1>5, <1>6 DEF Alike, Joined, Filled
<1>8. Counted(r)
  <2>1. IsFiniteSet(Used(p))
    <3>1. Pooled(p) /\ Inside(p) /\ Owned(p, T)
      BY <1>1 DEF Stored
    <3> QED
      BY <3>1, UsedAre
  <2> DEFINE U == Used(p)
  <2>2. IsFiniteSet(U) /\ n \notin U /\ Alike(p, r, U)
    BY <1>7, <2>1
  <2> HIDE DEF U
  <2>3. References(r, U \cup {n}) =
           IF r.tags[n].string = <<>> THEN References(p, U)
           ELSE References(p, U) (+) SetToBag({r.tags[n].string})
    BY <2>2, OneReferenceMore
  <2>4. p.symbols = References(p, U)
    BY <1>1 DEF Counted, U
  <2>5. r.symbols = IF string = <<>> THEN p.symbols
                    ELSE p.symbols (+) SetToBag({string})
    BY <1>2, <1>5 DEF Joined
  <2>6. r.symbols = References(r, U \cup {n})
    BY <1>7, <2>3, <2>4, <2>5
  <2> QED
    BY <1>7, <2>6 DEF Counted, U
<1>9. Made(s, r, n)
  <2>1. r.tags[n].tagNext = NULL
    BY <1>5 DEF Filled
  <2>2. Len(s.tags) <= Len(r.tags)
    BY <1>1, <1>2, <1>5 DEF Extended, Joined
  <2>3. \A x \in Used(s) : r.tags[x] = s.tags[x]
    BY <1>1, <1>2, <1>5, <1>6 DEF Extended, Joined
  <2>4. r.nodes = s.nodes
    BY <1>1, <1>2, <1>5 DEF Extended, Joined
  <2>5. /\ n \in DOMAIN r.tags /\ n # NULL /\ n \notin Used(s)
        /\ Used(r) = Used(s) \cup {n} /\ n \notin Range(r.free)
    BY <1>5, <1>6 DEF Joined
  <2> QED
    BY <2>1, <2>2, <2>3, <2>4, <2>5 DEF Made
<1> QED
  BY <1>5, <1>8, <1>9

\* One of the tags that nothing points to led to another, or to none.
Chained(s, r) ==
    /\ Len(r.tags) = Len(s.tags) /\ Used(r) = Used(s) /\ r.free = s.free
    /\ r.nodes = s.nodes

LEMMA LinkKeeps ==
  ASSUME NEW s, NEW T, Stored(s, T), Counted(s), NEW tag \in T,
         NEW list, list \in T \cup {NULL}, list # tag, s.tags[tag].tagNext = NULL,
         NEW r, r = Linked(s, list, tag)[1]
  PROVE  Stored(r, T \ {list}) /\ Counted(r) /\ Chained(s, r)
<1>1. Shaped(s) /\ Inside(s) /\ Pooled(s) /\ Graded(s) /\ Owned(s, T)
  BY DEF Stored
<1> DEFINE L == Len(s.tags)
           D == DOMAIN s.tags
           U == Used(s)
           X == T \ {list}
           tags == [s.tags EXCEPT ![tag].tagNext = list]
<1>2. L \in Nat /\ D = 1 .. L /\ U \subseteq D /\ NULL \notin D
      /\ \A x \in D : s.tags[x] \in Tag
  BY <1>1, TagsAre, UsedAre DEF Pooled
<1>3. /\ \A u \in U :
            /\ {s.tags[u].tag, s.tags[u].tagNext} \subseteq U \cup {NULL}
            /\ s.tags[u].tag = s.tags[u].tagNext => s.tags[u].tag = NULL
            /\ \A t \in T : ~Points(s, u, t)
      /\ \A t, u, v \in U : Points(s, u, t) /\ Points(s, v, t) => u = v
      /\ \A t \in U \ T : \E u \in U : Points(s, u, t)
      /\ T \subseteq U
  BY <1>1 DEF Owned
<1>4. tag \in U /\ tag \in D /\ tag # NULL /\ list \in U \cup {NULL}
      /\ list \in 0 .. L /\ list \in Nat
  <2>1. tag \in U /\ tag \in D /\ tag # NULL /\ list \in U \cup {NULL}
    BY <1>2, <1>3
  <2> QED
    BY <1>2, <2>1 DEF NULL
<1>5. /\ tags \in Seq(Tag) /\ Len(tags) = L /\ DOMAIN tags = D
      /\ \A x \in D : x # tag => tags[x] = s.tags[x]
      /\ tags[tag].tag = s.tags[tag].tag /\ tags[tag].tagNext = list
      /\ tags[tag].string = s.tags[tag].string
  <2>1. s.tags \in Seq(Tag) /\ s.tags[tag] \in Tag
    BY <1>1, <1>2, <1>4 DEF Pooled
  <2> DEFINE new == [s.tags[tag] EXCEPT !.tagNext = list]
  <2>2. /\ new \in Tag /\ new.tag = s.tags[tag].tag /\ new.tagNext = list
        /\ new.string = s.tags[tag].string
    BY <1>4, <2>1 DEF Tag
  <2>3. tags = [s.tags EXCEPT ![tag] = new]
    OBVIOUS
  <2> HIDE DEF new, D, tags
  <2>4. s.tags \in [1 .. L -> Tag]
    BY <2>1
  <2>5. tags \in [1 .. L -> Tag] /\ tags[tag] = new
        /\ \A x \in D : x # tag => tags[x] = s.tags[x]
    BY <1>2, <1>4, <2>2, <2>3, <2>4
  <2>6. tags \in Seq(Tag) /\ Len(tags) = L /\ DOMAIN tags = D
    BY <1>2, <2>5
  <2> QED
    BY <2>2, <2>5, <2>6
<1>6. r = Retagged(s, tags)
  BY DEF Linked, Retagged
<1> HIDE DEF tags
<1>7. /\ Shaped(r) /\ r.tags = tags /\ r.free = s.free
      /\ r.symbols = s.symbols /\ r.room = s.room /\ r.nodes = s.nodes
  BY <1>1, <1>6, RetaggedFields
<1>8. Used(r) = U
  BY <1>5, <1>7 DEF Used
<1>9. /\ \A x \in D : x # tag => r.tags[x] = s.tags[x]
      /\ r.tags[tag].tag = s.tags[tag].tag /\ r.tags[tag].tagNext = list
      /\ r.tags[tag].string = s.tags[tag].string
  BY <1>5, <1>7
<1> HIDE DEF D, U
<1>10. \A u \in D : \A x : Points(r, u, x) <=>
          \/ Points(s, u, x)
          \/ u = tag /\ x = list /\ x # NULL
  <2> SUFFICES ASSUME NEW u \in D, NEW x
               PROVE  Points(r, u, x) <=>
                         \/ Points(s, u, x)
                         \/ u = tag /\ x = list /\ x # NULL
    OBVIOUS
  <2>1. CASE u = tag
    BY <1>9, <2>1 DEF Points
  <2>2. CASE u # tag
    BY <1>9, <2>2 DEF Points
  <2> QED
    BY <2>1, <2>2
<1>11. \A u \in D : ~Points(r, u, tag)
  <2> SUFFICES ASSUME NEW u \in D, Points(s, u, tag) PROVE FALSE
    BY <1>10
  <2>1. CASE u \in U
    BY <1>3, <2>1
  <2>2. CASE u \notin U
    <3>1. s.tags[u] = ClearTag
      BY <1>1, <2>2 DEF Pooled, U, Used, D
    <3> QED
      BY <3>1, ClearTagType DEF Points
  <2> QED
    BY <2>1, <2>2
<1>12. Inside(r)
  <2>1. \A x \in D : {s.tags[x].tag, s.tags[x].tagNext} \subseteq 0 .. L
    BY <1>1 DEF Inside, D
  <2>2. ASSUME NEW x \in D
        PROVE  {r.tags[x].tag, r.tags[x].tagNext} \subseteq 0 .. L
    <3>1. CASE x = tag
      BY <1>4, <1>9, <2>1, <3>1
    <3>2. CASE x # tag
      BY <1>9, <2>1, <3>2
    <3> QED
      BY <3>1, <3>2
  <2> QED
    BY <1>5, <1>7, <2>2 DEF Inside
<1>13. Pooled(r)
  <2>1. \A x \in Range(s.free) : x \in D /\ x # tag /\ s.tags[x] = ClearTag
    <3>1. Range(s.free) \subseteq D
      BY <1>1, RangeEquality DEF Pooled, Range, D
    <3>2. tag \notin Range(s.free)
      BY <1>4 DEF U, Used
    <3> QED
      BY <1>1, <3>1, <3>2 DEF Pooled
  <2>2. \A x \in Range(r.free) : r.tags[x] = ClearTag
    BY <1>7, <1>9, <2>1
  <2>3. s.free \in Seq(D) /\ IsInjective(s.free)
    BY <1>1 DEF Pooled, D
  <2> QED
    BY <1>5, <1>7, <2>2, <2>3 DEF Pooled
<1>14. Graded(r)
  <2>n. PICK N \in Nat : \E rank \in [D -> 0 .. N] :
           \A u, x \in D : Points(s, u, x) => rank[x] < rank[u]
    BY <1>1 DEF Graded, D
  <2>r. PICK rank \in [D -> 0 .. N] :
           \A u, x \in D : Points(s, u, x) => rank[x] < rank[u]
    BY <2>n
  <2> DEFINE more == [x \in D |-> IF x = tag THEN N + 1 ELSE rank[x]]
  <2>1. more \in [D -> 0 .. N + 1]
    BY <2>r
  <2>2. ASSUME NEW u \in D, NEW x \in D, Points(r, u, x)
        PROVE  more[x] < more[u]
    <3>1. rank[x] \in 0 .. N /\ rank[u] \in 0 .. N /\ x # tag
      BY <1>11, <2>2, <2>r
    <3>2. CASE u = tag
      BY <3>1, <3>2
    <3>3. CASE u # tag
      <4>1. Points(s, u, x)
        BY <1>10, <2>2, <3>3
      <4> QED
        BY <2>r, <3>1, <3>3, <4>1
    <3> QED
      BY <3>2, <3>3
  <2> HIDE DEF more
  <2>3. DOMAIN r.tags = D /\ N + 1 \in Nat
    BY <1>5, <1>7
  <2> QED
    BY <2>1, <2>2, <2>3 DEF Graded
<1>15. Owned(r, X)
  <2>0. \A u \in U : u \in D
    BY <1>2
  <2>1. X \subseteq U
    BY <1>3
  <2>2. ASSUME NEW u \in U
        PROVE  /\ {r.tags[u].tag, r.tags[u].tagNext} \subseteq U \cup {NULL}
               /\ r.tags[u].tag = r.tags[u].tagNext => r.tags[u].tag = NULL
               /\ \A t \in X : ~Points(r, u, t)
    <3>1. \A t \in X : ~Points(r, u, t)
      BY <1>3, <1>10, <2>0
    <3>2. CASE u = tag
      <4>1. s.tags[tag].tag = list => list = NULL
        BY <1>3, <1>4 DEF Points
      <4>2. s.tags[tag].tag \in U \cup {NULL}
        BY <1>3, <1>4
      <4> QED
        BY <1>4, <1>9, <3>1, <3>2, <4>1, <4>2
    <3>3. CASE u # tag
      <4>1. r.tags[u] = s.tags[u]
        BY <1>9, <2>0, <3>3
      <4>2. /\ {s.tags[u].tag, s.tags[u].tagNext} \subseteq U \cup {NULL}
            /\ s.tags[u].tag = s.tags[u].tagNext => s.tags[u].tag = NULL
        BY <1>3
      <4> QED
        BY <3>1, <4>1, <4>2
    <3> QED
      BY <3>2, <3>3
  <2>3. ASSUME NEW t \in U, NEW u \in U, NEW v \in U, Points(r, u, t), Points(r, v, t)
        PROVE  u = v
    <3>1. CASE t = list
      <4>1. t \in T
        BY <1>2, <2>0, <3>1
      <4> QED
        BY <1>3, <1>10, <2>0, <2>3, <4>1
    <3>2. CASE t # list
      <4>1. Points(s, u, t) /\ Points(s, v, t)
        BY <1>10, <2>0, <2>3, <3>2
      <4> QED
        BY <1>3, <4>1
    <3> QED
      BY <3>1, <3>2
  <2>4. ASSUME NEW t \in U \ X
        PROVE  \E u \in U : Points(r, u, t)
    <3>1. CASE t = list
      <4>1. t # NULL
        BY <1>2, <2>0
      <4>2. Points(r, tag, t)
        BY <1>4, <1>10, <3>1, <4>1
      <4> QED
        BY <1>4, <4>2
    <3>2. CASE t # list
      <4>1. t \in U \ T
        BY <2>4, <3>2
      <4>2. PICK u \in U : Points(s, u, t)
        BY <1>3, <4>1
      <4> QED
        BY <1>10, <2>0, <4>2
    <3> QED
      BY <3>1, <3>2
  <2> HIDE DEF X
  <2> QED
    BY <1>8, <2>1, <2>2, <2>3, <2>4 DEF Owned
<1>16. Counted(r)
  <2>1. Alike(s, r, U)
    BY <1>2, <1>9 DEF Alike
  <2>2. IsFiniteSet(U)
    BY <1>1, UsedAre DEF U
  <2>3. References(r, U) = References(s, U)
    BY <2>1, <2>2, SameReferences
  <2>4. s.symbols = References(s, U)
    BY DEF Counted, U
  <2> QED
    BY <1>7, <1>8, <2>3, <2>4 DEF Counted
<1>17. Chained(s, r)
  BY <1>5, <1>7, <1>8 DEF Chained, U
<1> QED
  BY <1>7, <1>12, <1>13, <1>14, <1>15, <1>16, <1>17 DEF Stored

-----------------------------------------------------------------------------
(* The tree of nodes grows, and the tags are left alone.                   *)

GrownTree(s, r) ==
    SamePool(s, r) /\ r.symbols = s.symbols /\ Len(s.nodes) <= Len(r.nodes)

LEMMA SeqShape ==
  ASSUME NEW n \in Nat, NEW f, f = [i \in 1 .. n |-> f[i]]
  PROVE  f \in Seq(Range(f)) /\ Len(f) = n
<1>1. DOMAIN f = 1 .. n /\ \A i \in 1 .. n : f[i] \in Range(f)
  BY DEF Range
<1>2. f \in [1 .. n -> Range(f)]
  BY <1>1
<1> QED
  BY <1>2

LEMMA NodesShape ==
  ASSUME NEW s, Shaped(s)
  PROVE  /\ Len(s.nodes) \in Nat /\ DOMAIN s.nodes = 1 .. Len(s.nodes)
         /\ s.nodes = [i \in 1 .. Len(s.nodes) |-> s.nodes[i]]
<1> DEFINE f == s.nodes
           R == Range(f)
<1>1. f \in Seq(R)
  BY DEF Shaped
<1> HIDE DEF f, R
<1>2. Len(f) \in Nat /\ DOMAIN f = 1 .. Len(f) /\ f = [i \in 1 .. Len(f) |-> f[i]]
  BY <1>1, LenProperties
<1> QED
  BY <1>2 DEF f

LEMMA PropertyKeeps ==
  ASSUME NEW d, Shaped(d), NEW node \in DOMAIN d.nodes, NEW name, NEW n, NEW value,
         NEW r, r = WithProperty(d, node, name, n, value)
  PROVE  Shaped(r) /\ GrownTree(d, r)
<1> DEFINE L == Len(d.nodes)
<1>1. L \in Nat /\ DOMAIN d.nodes = 1 .. L /\ d.nodes = [i \in 1 .. L |-> d.nodes[i]]
  BY NodesShape
<1>2. CASE PropertyRefused(d)
  <2>1. r = d
    BY <1>2 DEF WithProperty
  <2> QED
    BY <1>1, <2>1 DEF GrownTree, SamePool
<1>3. CASE ~PropertyRefused(d)
  <2> DEFINE p == [name |-> name, length |-> n, value |-> value]
             new == [d.nodes[node] EXCEPT !.properties = Append(@, p)]
             nodes == [d.nodes EXCEPT ![node] = new]
  <2>1. /\ StoreFields \subseteq DOMAIN d /\ d.rootNode \in 0 .. L
        /\ d.room \in Nat /\ d.freeNodes \in Nat /\ d.freeProperties \in Nat
    BY DEF Shaped
  <2>2. /\ DOMAIN r = DOMAIN d /\ r.tags = d.tags /\ r.free = d.free
        /\ r.symbols = d.symbols /\ r.rootNode = d.rootNode
        /\ r.freeNodes = d.freeNodes /\ r.nodes = nodes
        /\ r.freeProperties = Refilled(d.freeProperties) - 1
        /\ r.room = IF d.freeProperties = 0 THEN d.room - 1 ELSE d.room
    BY <1>3, <2>1 DEF WithProperty, StoreFields
  <2>3. r.room \in Nat
    BY <1>3, <2>1, <2>2 DEF PropertyRefused
  <2>4. r.freeProperties \in Nat
    BY <2>1, <2>2, PerBufferAssumption DEF Refilled
  <2> HIDE DEF new
  <2>5. nodes = [i \in 1 .. L |-> nodes[i]]
    BY <1>1
  <2> HIDE DEF nodes
  <2>6. nodes \in Seq(Range(nodes)) /\ Len(nodes) = L
    BY <1>1, <2>5, SeqShape
  <2>7. Shaped(r)
    BY <2>1, <2>2, <2>3, <2>4, <2>6 DEF Shaped
  <2> QED
    BY <1>1, <2>2, <2>6, <2>7 DEF GrownTree, SamePool
<1> QED
  BY <1>2, <1>3

LEMMA NodeKeeps ==
  ASSUME NEW d, Shaped(d), ~NodeRefused(d), NEW parent \in 0 .. Len(d.nodes),
         NEW r, r = WithNode(d, parent)
  PROVE  Shaped(r) /\ GrownTree(d, r) /\ Len(r.nodes) = Len(d.nodes) + 1
<1> DEFINE L == Len(d.nodes)
           new == [properties |-> <<>>, children |-> <<>>]
           more == Append(d.nodes, new)
           taken == [d EXCEPT
                    !.room = IF d.freeNodes = 0 THEN @ - 1 ELSE @,
                    !.freeNodes = Refilled(@) - 1,
                    !.nodes = Append(@, [properties |-> <<>>,
                                         children |-> <<>>]),
                    !.numNodes = @ + 1]
<1>1. L \in Nat /\ DOMAIN d.nodes = 1 .. L /\ d.nodes = [i \in 1 .. L |-> d.nodes[i]]
  BY NodesShape
<1>2. /\ StoreFields \subseteq DOMAIN d /\ d.rootNode \in 0 .. L
      /\ d.room \in Nat /\ d.freeNodes \in Nat /\ d.freeProperties \in Nat
  BY DEF Shaped
<1>3. /\ DOMAIN taken = DOMAIN d /\ taken.tags = d.tags /\ taken.free = d.free
      /\ taken.symbols = d.symbols /\ taken.rootNode = d.rootNode
      /\ taken.freeProperties = d.freeProperties /\ taken.nodes = more
      /\ taken.freeNodes = Refilled(d.freeNodes) - 1
      /\ taken.room = IF d.freeNodes = 0 THEN d.room - 1 ELSE d.room
  BY <1>2 DEF StoreFields
<1>4. taken.room \in Nat /\ taken.freeNodes \in Nat
  BY <1>2, <1>3, PerBufferAssumption DEF NodeRefused, Refilled
<1>5. more = [i \in 1 .. L + 1 |-> more[i]] /\ Len(more) = L + 1
  <2> HIDE DEF new
  <2>1. d.nodes \in Seq(Range(d.nodes))
    BY DEF Shaped
  <2> DEFINE f == d.nodes
             S == Range(d.nodes) \cup {new}
  <2>2. f \in Seq(S) /\ new \in S
    BY <1>1, <2>1 DEF Range
  <2> HIDE DEF f, S
  <2>3. Append(f, new) \in Seq(S) /\ Len(Append(f, new)) = Len(f) + 1
    BY <2>2, AppendProperties
  <2>4. Append(f, new) = [i \in 1 .. Len(f) + 1 |-> Append(f, new)[i]]
    BY <2>3, LenProperties
  <2> QED
    BY <2>3, <2>4 DEF f
<1>r. r = IF parent = NULL THEN [taken EXCEPT !.rootNode = L + 1]
          ELSE [taken EXCEPT !.nodes[parent].children = <<L + 1>> \o @]
  BY DEF WithNode
<1> HIDE DEF taken, more, L
<1>6. CASE parent = NULL
  <2>1. r = [taken EXCEPT !.rootNode = L + 1]
    BY <1>6, <1>r
  <2>2. /\ DOMAIN r = DOMAIN d /\ r.tags = d.tags /\ r.free = d.free
        /\ r.symbols = d.symbols /\ r.rootNode = L + 1
        /\ r.freeProperties = d.freeProperties /\ r.nodes = more
        /\ r.freeNodes = taken.freeNodes /\ r.room = taken.room
    BY <1>2, <1>3, <2>1 DEF StoreFields
  <2>3. more \in Seq(Range(more))
    BY <1>1, <1>5, SeqShape
  <2>4. Shaped(r)
    BY <1>1, <1>2, <1>4, <1>5, <2>2, <2>3 DEF Shaped
  <2> QED
    BY <1>1, <1>5, <2>2, <2>4 DEF GrownTree, SamePool, L
<1>7. CASE parent # NULL
  <2> DEFINE leaf == [more[parent] EXCEPT !.children = <<L + 1>> \o @]
             nodes == [more EXCEPT ![parent] = leaf]
  <2>1. r = [taken EXCEPT !.nodes[parent].children = <<L + 1>> \o @]
    BY <1>7, <1>r
  <2>2. /\ DOMAIN r = DOMAIN d /\ r.tags = d.tags /\ r.free = d.free
        /\ r.symbols = d.symbols /\ r.rootNode = d.rootNode
        /\ r.freeProperties = d.freeProperties /\ r.nodes = nodes
        /\ r.freeNodes = taken.freeNodes /\ r.room = taken.room
    BY <1>2, <1>3, <2>1 DEF StoreFields
  <2> HIDE DEF leaf
  <2>3. nodes = [i \in 1 .. L + 1 |-> nodes[i]]
    BY <1>1, <1>5
  <2> HIDE DEF nodes
  <2>4. L + 1 \in Nat
    BY <1>1
  <2>5. nodes \in Seq(Range(nodes)) /\ Len(nodes) = L + 1
    BY <2>3, <2>4, SeqShape
  <2>6. Shaped(r)
    BY <1>1, <1>2, <1>4, <2>2, <2>5 DEF Shaped
  <2> QED
    BY <1>1, <2>2, <2>5, <2>6 DEF GrownTree, SamePool, L
<1> QED
  BY <1>6, <1>7

-----------------------------------------------------------------------------
(* Stacks.                                                                 *)

LEMMA StackIs ==
  ASSUME NEW stk \in Seq(Frames), Len(stk) >= 1
  PROVE  /\ Len(stk) \in Nat /\ DOMAIN stk = 1 .. Len(stk)
         /\ 1 \in DOMAIN stk /\ Len(stk) \in DOMAIN stk
         /\ \A k \in DOMAIN stk : stk[k] \in Frames
         /\ \A k \in DOMAIN stk : k < Len(stk) => k \in 1 .. (Len(stk) - 1)
<1>1. Len(stk) \in Nat /\ DOMAIN stk = 1 .. Len(stk)
  BY LenProperties
<1> QED
  BY <1>1, ElementOfSeq

\* The frame on top replaced, put there, and taken away.
Retopped(stk, f) == [stk EXCEPT ![Len(stk)] = f]

Lower(stk, new) == \A k \in 1 .. (Len(stk) - 1) : new[k] = stk[k]

LEMMA RetoppedIs ==
  ASSUME NEW stk \in Seq(Frames), Len(stk) >= 1, NEW f \in Frames
  PROVE  /\ Retopped(stk, f) \in Seq(Frames)
         /\ Len(Retopped(stk, f)) = Len(stk)
         /\ Retopped(stk, f)[Len(stk)] = f
         /\ Lower(stk, Retopped(stk, f))
<1> DEFINE n == Len(stk)
           new == Retopped(stk, f)
<1>1. n \in Nat /\ DOMAIN stk = 1 .. n /\ n \in 1 .. n /\ stk \in [1 .. n -> Frames]
  BY StackIs
<1>2. /\ new \in [1 .. n -> Frames] /\ new[n] = f
      /\ \A k \in 1 .. n : k # n => new[k] = stk[k]
  BY <1>1 DEF Retopped
<1> HIDE DEF new, n
<1>3. new \in Seq(Frames) /\ Len(new) = n
  BY <1>1, <1>2
<1>4. \A k \in 1 .. (n - 1) : new[k] = stk[k]
  BY <1>1, <1>2
<1> QED
  BY <1>2, <1>3, <1>4 DEF Lower, new, n

LEMMA PushedIs ==
  ASSUME NEW stk \in Seq(Frames), Len(stk) >= 1, NEW f \in Frames
  PROVE  /\ Append(stk, f) \in Seq(Frames)
         /\ Len(Append(stk, f)) = Len(stk) + 1
         /\ Append(stk, f)[Len(stk) + 1] = f
         /\ \A k \in 1 .. Len(stk) : Append(stk, f)[k] = stk[k]
<1>1. Len(stk) \in Nat
  BY StackIs
<1> QED
  BY <1>1, AppendProperties

Popped(stk) == SubSeq(stk, 1, Len(stk) - 1)

LEMMA PoppedIs ==
  ASSUME NEW stk \in Seq(Frames), Len(stk) >= 2
  PROVE  /\ Popped(stk) \in Seq(Frames)
         /\ Len(Popped(stk)) = Len(stk) - 1
         /\ \A k \in 1 .. (Len(stk) - 1) : Popped(stk)[k] = stk[k]
<1> DEFINE n == Len(stk)
           m == n - 1
<1>1. n \in Nat /\ DOMAIN stk = 1 .. n /\ \A k \in 1 .. n : stk[k] \in Frames
  BY StackIs
<1>2. m \in Nat /\ 1 .. m \subseteq 1 .. n
  BY <1>1
<1>3. Popped(stk) = [k \in 1 .. m |-> stk[k]]
  <2>1. Popped(stk) = SubSeq(stk, 1, m)
    BY DEF Popped
  <2> HIDE DEF m, n
  <2>2. SubSeq(stk, 1, m) = [k \in 1 .. (1 + m) - 1 |-> stk[(1 + k) - 1]]
    BY <1>2, <2>1
  <2> QED
    BY <1>2, <2>1, <2>2
<1> HIDE DEF n, m
<1>4. Popped(stk) \in [1 .. m -> Frames]
  BY <1>1, <1>2, <1>3
<1>5. Popped(stk) \in Seq(Frames) /\ Len(Popped(stk)) = m
  BY <1>2, <1>4
<1> QED
  BY <1>3, <1>5 DEF m, n

\* The lists of the activations under the one on top.
LowerRoots(stk) == {stk[k].list : k \in ListFrames(stk) \ {Len(stk)}}

LEMMA RootsAre ==
  ASSUME NEW stk \in Seq(Frames), Len(stk) >= 1
  PROVE  LET top == stk[Len(stk)] IN
         /\ ListRoots(stk) = LowerRoots(stk) \cup
               (IF top.kind = "list" /\ top.list # NULL THEN {top.list} ELSE {})
         /\ Apart(stk) /\ top.kind = "list" => top.list \notin LowerRoots(stk)
         /\ NULL \notin ListRoots(stk) /\ NULL \notin LowerRoots(stk)
<1> DEFINE n == Len(stk)
           top == stk[n]
<1>1. n \in DOMAIN stk
  BY StackIs
<1>2. n \in ListFrames(stk) <=> top.kind = "list" /\ top.list # NULL
  BY <1>1 DEF ListFrames
<1>3. \A k \in ListFrames(stk) : stk[k].list # NULL
  BY DEF ListFrames
<1>4. ListRoots(stk) = LowerRoots(stk) \cup
         (IF top.kind = "list" /\ top.list # NULL THEN {top.list} ELSE {})
  <2> HIDE DEF n
  <2>1. ListRoots(stk) = {stk[k].list : k \in ListFrames(stk)}
    BY DEF ListRoots
  <2>2. LowerRoots(stk) = {stk[k].list : k \in ListFrames(stk) \ {n}}
    BY DEF LowerRoots, n
  <2>3. CASE n \in ListFrames(stk)
    BY <1>2, <2>1, <2>2, <2>3
  <2>4. CASE n \notin ListFrames(stk)
    BY <1>2, <2>1, <2>2, <2>4
  <2> QED
    BY <2>3, <2>4
<1>5. ASSUME Apart(stk), top.kind = "list", top.list \in LowerRoots(stk)
      PROVE  FALSE
  <2>1. PICK k \in ListFrames(stk) \ {n} : top.list = stk[k].list
    BY <1>5 DEF LowerRoots
  <2>2. n \in ListFrames(stk)
    BY <1>2, <1>3, <1>5, <2>1
  <2> QED
    BY <1>5, <2>1, <2>2 DEF Apart
<1>6. NULL \notin ListRoots(stk) /\ NULL \notin LowerRoots(stk)
  BY <1>3 DEF ListRoots, LowerRoots
<1> QED
  BY <1>4, <1>5, <1>6

\* Stacks with the same frames under the one on top.
LEMMA SameLower ==
  ASSUME NEW stk \in Seq(Frames), Len(stk) >= 1,
         NEW new \in Seq(Frames), Len(new) = Len(stk), Lower(stk, new)
  PROVE  /\ LowerRoots(new) = LowerRoots(stk)
         /\ Patient(stk) => Patient(new)
         /\ LET top == new[Len(new)] IN
            Apart(stk) /\ (top.kind = "list" => top.list \notin LowerRoots(stk))
               => Apart(new)
<1> DEFINE n == Len(stk)
<1>1. /\ n \in Nat /\ DOMAIN stk = 1 .. n /\ DOMAIN new = 1 .. n
      /\ n \in 1 .. n /\ \A k \in 1 .. n : k # n => k \in 1 .. (n - 1)
  BY StackIs
<1>2. \A k \in 1 .. (n - 1) : new[k] = stk[k]
  BY DEF Lower
<1>3. Patient(stk) => Patient(new)
  BY <1>2 DEF Patient
<1> HIDE DEF n
<1>4. ListFrames(new) \ {n} = ListFrames(stk) \ {n}
  BY <1>1, <1>2 DEF ListFrames
<1>5. \A k \in ListFrames(stk) \ {n} : new[k].list = stk[k].list
  BY <1>1, <1>2 DEF ListFrames
<1>6. LowerRoots(new) = LowerRoots(stk)
  BY <1>4, <1>5 DEF LowerRoots, n
<1>7. ASSUME Apart(stk),
             new[n].kind = "list" => new[n].list \notin LowerRoots(stk)
      PROVE  Apart(new)
  <2> SUFFICES ASSUME NEW j \in ListFrames(new), NEW k \in ListFrames(new),
                      new[j].list = new[k].list
               PROVE  j = k
    BY DEF Apart
  <2>1. CASE j # n /\ k # n
    BY <1>4, <1>5, <1>7, <2>1 DEF Apart
  <2>2. \A x \in ListFrames(new) : x # n => new[x].list \in LowerRoots(stk)
    BY <1>4, <1>5 DEF LowerRoots, n
  <2>3. n \in ListFrames(new) => new[n].list \notin LowerRoots(stk)
    BY <1>7 DEF ListFrames
  <2> QED
    BY <2>1, <2>2, <2>3
<1> QED
  BY <1>3, <1>6, <1>7 DEF n

-----------------------------------------------------------------------------
(* What is kept while the parser runs.                                     *)

Framed(stk) ==
    /\ stk \in Seq(Frames) /\ Len(stk) >= 1 /\ stk[1].kind = "loop"
    /\ Parsers(stk) /\ Apart(stk) /\ Patient(stk)

\* Neither an answer nor a list is in the variable on top that is not below.
Asking(stk, s) ==
    LET top == stk[Len(stk)] IN
    /\ Waiting(top)
    /\ Len(stk) = 1 => top.tag \in {Unset, NULL} \cup Range(s.free)

Answered(stk, s) ==
    LET top == stk[Len(stk)] IN
    /\ Fresh(top, s) /\ top.tag \notin ListRoots(stk)
    /\ s.tags[top.tag].tagNext = NULL

Settled(stk, s) == Framed(stk) /\ Pointers(stk, s) /\ Counted(s)

LEMMA KeptFailed ==
  ASSUME NEW stk, NEW s
  PROVE  Kept("failed", stk, s) <=>
            /\ Settled(stk, s) /\ Stored(s, ListRoots(stk))
            /\ Waiting(stk[Len(stk)])
  BY DEF Kept, Stacked, Roots, Results, Held, Settled, Framed

LEMMA KeptParse ==
  ASSUME NEW stk, NEW s
  PROVE  Kept("parse", stk, s) <=>
            /\ Settled(stk, s) /\ Stored(s, ListRoots(stk)) /\ Asking(stk, s)
  BY DEF Kept, Stacked, Roots, Results, Held, Settled, Framed, Asking

LEMMA KeptNothing ==
  ASSUME NEW stk, NEW s, ~Fresh(stk[Len(stk)], s)
  PROVE  Kept("returned", stk, s) <=>
            Settled(stk, s) /\ Stored(s, ListRoots(stk))
  BY DEF Kept, Stacked, Roots, Results, Held, Settled, Framed

LEMMA KeptAnswer ==
  ASSUME NEW stk, NEW s, Fresh(stk[Len(stk)], s)
  PROVE  Kept("returned", stk, s) <=>
            /\ Settled(stk, s) /\ Answered(stk, s)
            /\ Stored(s, ListRoots(stk) \cup {stk[Len(stk)].tag})
<1> DEFINE top == stk[Len(stk)]
<1>1. Results("returned", stk, s) = {top.tag}
  BY DEF Results
<1>2. Roots("returned", stk, s) = ListRoots(stk) \cup {top.tag}
  BY <1>1 DEF Roots
<1>3. Stacked("returned", stk) <=>
         /\ stk \in Seq(Frames) /\ Len(stk) >= 1 /\ stk[1].kind = "loop"
         /\ Parsers(stk)
  BY DEF Stacked
<1>4. Held("returned", stk, s) <=> s.tags[top.tag].tagNext = NULL
  BY DEF Held
<1>5. ListRoots(stk) \cap {top.tag} = {} <=> top.tag \notin ListRoots(stk)
  OBVIOUS
<1> HIDE DEF top
<1>6. Answered(stk, s) <=> top.tag \notin ListRoots(stk) /\ s.tags[top.tag].tagNext = NULL
  BY DEF Answered, top
<1> QED
  BY <1>1, <1>2, <1>3, <1>4, <1>5, <1>6 DEF Kept, Settled, Framed, top

LEMMA WaitingNotFresh ==
  ASSUME NEW stk, NEW s, Framed(stk), Asking(stk, s)
  PROVE  ~Fresh(stk[Len(stk)], s)
<1> DEFINE n == Len(stk)
           top == stk[n]
<1>1. n \in Nat /\ n >= 1
  BY StackIs DEF Framed
<1>2. CASE n = 1
  <2>1. top.kind = "loop"
    BY <1>2 DEF Framed
  <2>2. top.tag \in {Unset, NULL} \cup Range(s.free)
    BY <1>2 DEF Asking
  <2> QED
    BY <2>1, <2>2 DEF Fresh
<1>3. CASE n # 1
  <2>1. n \in 2 .. n
    <3> HIDE DEF n
    <3> QED
      BY <1>1, <1>3
  <2>2. top.kind \in {"list", "key"}
    BY <2>1 DEF Framed, Parsers
  <2>3. Waiting(top)
    BY DEF Asking
  <2> QED
    BY <2>2, <2>3 DEF Waiting, Fresh
<1> QED
  BY <1>2, <1>3

LEMMA LoopIs ==
  ASSUME NEW stk, Framed(stk)
  PROVE  stk[Len(stk)].kind = "loop" <=> Len(stk) = 1
<1> DEFINE n == Len(stk)
<1>1. n \in Nat /\ n >= 1
  BY StackIs DEF Framed
<1>2. n # 1 => n \in 2 .. n
  BY <1>1
<1>3. n # 1 => stk[n].kind \in {"list", "key"}
  BY <1>2 DEF Framed, Parsers
<1>4. n = 1 => stk[n].kind = "loop"
  BY DEF Framed
<1> QED
  BY <1>3, <1>4

\* Nothing changes with the store's tags.
LEMMA PointersLast ==
  ASSUME NEW stk \in Seq(Frames), NEW s, NEW r, Pointers(stk, s),
         Len(s.tags) \in Nat, Len(r.tags) \in Nat, Len(s.tags) <= Len(r.tags),
         Len(s.nodes) \in Nat, Len(r.nodes) \in Nat, Len(s.nodes) <= Len(r.nodes)
  PROVE  Pointers(stk, r)
<1> SUFFICES ASSUME NEW k \in DOMAIN stk
             PROVE  /\ stk[k].list \in 0 .. Len(r.tags)
                    /\ stk[k].tag \in Unset .. Len(r.tags)
                    /\ stk[k].node \in 0 .. Len(r.nodes)
  BY DEF Pointers
<1>1. /\ stk[k].list \in 0 .. Len(s.tags)
      /\ stk[k].tag \in Unset .. Len(s.tags)
      /\ stk[k].node \in 0 .. Len(s.nodes)
  BY DEF Pointers
<1> QED
  BY <1>1 DEF Unset

LEMMA StoreLens ==
  ASSUME NEW s, NEW T, Stored(s, T)
  PROVE  /\ Len(s.tags) \in Nat /\ DOMAIN s.tags = 1 .. Len(s.tags)
         /\ Len(s.nodes) \in Nat
         /\ T \subseteq Used(s) /\ Used(s) \subseteq DOMAIN s.tags
         /\ NULL \notin DOMAIN s.tags
<1>1. Shaped(s) /\ Inside(s) /\ Pooled(s) /\ Owned(s, T)
  BY DEF Stored
<1>2. Len(s.tags) \in Nat /\ DOMAIN s.tags = 1 .. Len(s.tags)
  BY <1>1, TagsAre DEF Pooled
<1>3. Len(s.nodes) \in Nat
  BY <1>1, NodesShape
<1> QED
  BY <1>1, <1>2, <1>3, UsedAre DEF Owned

\* Stacks that differ in the frame on top, by one frame more, by one less.
LEMMA FramedRetopped ==
  ASSUME NEW stk, Framed(stk), NEW f \in Frames,
         f.kind = stk[Len(stk)].kind, f.string = stk[Len(stk)].string,
         f.kind = "list" => f.list \notin LowerRoots(stk)
  PROVE  /\ Framed(Retopped(stk, f))
         /\ LowerRoots(Retopped(stk, f)) = LowerRoots(stk)
<1> DEFINE n == Len(stk)
           new == Retopped(stk, f)
<1>1. /\ stk \in Seq(Frames) /\ n >= 1 /\ stk[1].kind = "loop"
      /\ Parsers(stk) /\ Apart(stk) /\ Patient(stk)
  BY DEF Framed
<1>2. n \in Nat
  BY <1>1, StackIs
<1>3. new \in Seq(Frames) /\ Len(new) = n /\ new[n] = f /\ Lower(stk, new)
  BY <1>1, RetoppedIs
<1> HIDE DEF new
<1>4. /\ LowerRoots(new) = LowerRoots(stk) /\ Patient(new)
      /\ LET top == new[Len(new)] IN
         Apart(stk) /\ (top.kind = "list" => top.list \notin LowerRoots(stk))
            => Apart(new)
  BY <1>1, <1>3, SameLower
<1>5. Apart(new)
  BY <1>1, <1>3, <1>4
<1>6. \A k \in 1 .. n : new[k].kind = stk[k].kind /\ new[k].string = stk[k].string
  <2> SUFFICES ASSUME NEW k \in 1 .. n
               PROVE  new[k].kind = stk[k].kind /\ new[k].string = stk[k].string
    OBVIOUS
  <2>1. CASE k = n
    BY <1>3, <2>1
  <2>2. CASE k # n
    <3>1. k \in 1 .. (n - 1)
      BY <1>2, <2>2
    <3>2. new[k] = stk[k]
      BY <1>3, <3>1 DEF Lower
    <3> QED
      BY <3>2
  <2> QED
    BY <2>1, <2>2
<1> HIDE DEF n
<1>7. new[1].kind = "loop"
  BY <1>1, <1>2, <1>6
<1>8. Parsers(new)
  <2> SUFFICES ASSUME NEW k \in 2 .. n
               PROVE  /\ new[k].kind \in {"list", "key"}
                      /\ new[k].kind = "key" => new[k].string # <<>>
    BY <1>3 DEF Parsers
  <2>1. /\ stk[k].kind \in {"list", "key"}
        /\ stk[k].kind = "key" => stk[k].string # <<>>
    BY <1>1 DEF Parsers, n
  <2>2. new[k].kind = stk[k].kind /\ new[k].string = stk[k].string
    BY <1>2, <1>6
  <2> QED
    BY <2>1, <2>2
<1> QED
  BY <1>1, <1>3, <1>4, <1>5, <1>7, <1>8 DEF Framed, new, n

LEMMA FramedPushed ==
  ASSUME NEW stk, Framed(stk), Waiting(stk[Len(stk)]), NEW f \in Frames,
         f.kind \in {"list", "key"}, f.kind = "key" => f.string # <<>>,
         f.list = NULL
  PROVE  Framed(Append(stk, f)) /\ ListRoots(Append(stk, f)) = ListRoots(stk)
<1> DEFINE n == Len(stk)
           new == Append(stk, f)
<1>1. /\ stk \in Seq(Frames) /\ n >= 1 /\ stk[1].kind = "loop"
      /\ Parsers(stk) /\ Apart(stk) /\ Patient(stk)
  BY DEF Framed
<1>2. n \in Nat /\ DOMAIN stk = 1 .. n
  BY <1>1, StackIs
<1>3. /\ new \in Seq(Frames) /\ Len(new) = n + 1 /\ new[n + 1] = f
      /\ \A k \in 1 .. n : new[k] = stk[k]
  BY <1>1, PushedIs
<1>4. DOMAIN new = 1 .. (n + 1)
  BY <1>3, LenProperties
<1>5. Waiting(stk[n])
  OBVIOUS
<1> HIDE DEF new, n
<1>6. ListFrames(new) = ListFrames(stk)
  <2>1. ASSUME NEW k
        PROVE  k \in ListFrames(new) <=> k \in ListFrames(stk)
    <3>1. CASE k \in 1 .. n
      BY <1>2, <1>3, <1>4, <3>1 DEF ListFrames
    <3>2. CASE k = n + 1
      BY <1>2, <1>3, <3>2 DEF ListFrames
    <3>3. CASE k \notin 1 .. (n + 1)
      BY <1>2, <1>4, <3>3 DEF ListFrames
    <3> QED
      BY <1>2, <3>1, <3>2, <3>3
  <2> QED
    BY <2>1
<1>7. \A k \in ListFrames(stk) : new[k] = stk[k]
  BY <1>2, <1>3 DEF ListFrames
<1>8. ListRoots(new) = ListRoots(stk)
  BY <1>6, <1>7 DEF ListRoots
<1>9. Apart(new)
  BY <1>1, <1>6, <1>7 DEF Apart
<1>10. Patient(new)
  <2> SUFFICES ASSUME NEW k \in 1 .. n
               PROVE  Waiting(new[k])
    BY <1>2, <1>3 DEF Patient
  <2>1. new[k] = stk[k]
    BY <1>3
  <2>2. CASE k = n
    BY <1>5, <2>1, <2>2
  <2>3. CASE k # n
    <3>1. k \in 1 .. (n - 1)
      BY <1>2, <2>3
    <3> QED
      BY <1>1, <2>1, <3>1 DEF Patient, n
  <2> QED
    BY <2>2, <2>3
<1>11. new[1].kind = "loop"
  <2>1. 1 \in 1 .. n
    BY <1>1, <1>2
  <2> QED
    BY <1>1, <1>3, <2>1
<1>12. Parsers(new)
  <2> SUFFICES ASSUME NEW k \in 2 .. (n + 1)
               PROVE  /\ new[k].kind \in {"list", "key"}
                      /\ new[k].kind = "key" => new[k].string # <<>>
    BY <1>3 DEF Parsers
  <2>1. CASE k = n + 1
    BY <1>3, <2>1
  <2>2. CASE k # n + 1
    <3>1. k \in 2 .. n /\ k \in 1 .. n
      BY <1>2, <2>2
    <3>2. /\ stk[k].kind \in {"list", "key"}
          /\ stk[k].kind = "key" => stk[k].string # <<>>
      BY <1>1, <3>1 DEF Parsers, n
    <3> QED
      BY <1>3, <3>1, <3>2
  <2> QED
    BY <2>1, <2>2
<1>13. n + 1 >= 1
  BY <1>2
<1> QED
  BY <1>1, <1>3, <1>8, <1>9, <1>10, <1>11, <1>12, <1>13 DEF Framed, new

LEMMA FramedPopped ==
  ASSUME NEW stk, Framed(stk), Len(stk) >= 2
  PROVE  /\ Framed(Popped(stk)) /\ ListRoots(Popped(stk)) = LowerRoots(stk)
         /\ Waiting(Popped(stk)[Len(Popped(stk))])
<1> DEFINE n == Len(stk)
           new == Popped(stk)
<1>1. /\ stk \in Seq(Frames) /\ n >= 1 /\ stk[1].kind = "loop"
      /\ Parsers(stk) /\ Apart(stk) /\ Patient(stk)
  BY DEF Framed
<1>2. n \in Nat /\ DOMAIN stk = 1 .. n /\ n >= 2
  BY <1>1, StackIs
<1>3. /\ new \in Seq(Frames) /\ Len(new) = n - 1
      /\ \A k \in 1 .. (n - 1) : new[k] = stk[k]
  BY <1>1, PoppedIs
<1>4. DOMAIN new = 1 .. (n - 1)
  BY <1>3, LenProperties
<1>l. LowerRoots(stk) = {stk[k].list : k \in ListFrames(stk) \ {n}}
  BY DEF LowerRoots
<1>p. /\ \A k \in 1 .. (n - 1) : Waiting(stk[k])
      /\ \A k \in 2 .. n : /\ stk[k].kind \in {"list", "key"}
                           /\ stk[k].kind = "key" => stk[k].string # <<>>
  BY <1>1 DEF Patient, Parsers
<1> HIDE DEF new, n
<1>6. ListFrames(new) = ListFrames(stk) \ {n}
  <2>1. ASSUME NEW k
        PROVE  k \in ListFrames(new) <=> k \in ListFrames(stk) \ {n}
    <3>1. CASE k \in 1 .. (n - 1)
      BY <1>2, <1>3, <1>4, <3>1 DEF ListFrames
    <3>2. CASE k = n
      BY <1>2, <1>4, <3>2 DEF ListFrames
    <3>3. CASE k \notin 1 .. n
      BY <1>2, <1>4, <3>3 DEF ListFrames
    <3> QED
      BY <1>2, <3>1, <3>2, <3>3
  <2> QED
    BY <2>1
<1>7. \A k \in ListFrames(stk) \ {n} : new[k] = stk[k]
  <2>1. \A k \in ListFrames(stk) \ {n} : k \in 1 .. (n - 1)
    BY <1>2 DEF ListFrames
  <2> QED
    BY <1>3, <2>1
<1>8. ListRoots(new) = LowerRoots(stk)
  BY <1>6, <1>7, <1>l DEF ListRoots
<1>9. Apart(new)
  BY <1>1, <1>6, <1>7 DEF Apart
<1>10. Patient(new)
  <2> SUFFICES ASSUME NEW k \in 1 .. (n - 1 - 1)
               PROVE  Waiting(new[k])
    BY <1>3 DEF Patient
  <2>1. k \in 1 .. (n - 1)
    BY <1>2
  <2> QED
    BY <1>3, <1>p, <2>1
<1>11. new[1].kind = "loop"
  <2>1. 1 \in 1 .. (n - 1)
    BY <1>2
  <2> QED
    BY <1>1, <1>3, <2>1
<1>12. Parsers(new)
  <2> SUFFICES ASSUME NEW k \in 2 .. (n - 1)
               PROVE  /\ new[k].kind \in {"list", "key"}
                      /\ new[k].kind = "key" => new[k].string # <<>>
    BY <1>3 DEF Parsers
  <2>1. k \in 1 .. (n - 1) /\ k \in 2 .. n
    BY <1>2
  <2> QED
    BY <1>3, <1>p, <2>1
<1>13. n - 1 >= 1 /\ n - 1 \in 1 .. (n - 1)
  BY <1>2
<1>14. Waiting(new[n - 1])
  BY <1>3, <1>p, <1>13
<1> QED
  BY <1>1, <1>3, <1>8, <1>9, <1>10, <1>11, <1>12, <1>13, <1>14 DEF Framed, new

\* The pointers of one activation.
Led(f, s) ==
    /\ f.list \in 0 .. Len(s.tags)
    /\ f.tag \in Unset .. Len(s.tags)
    /\ f.node \in 0 .. Len(s.nodes)

LEMMA PointersTop ==
  ASSUME NEW stk \in Seq(Frames), Len(stk) >= 1, NEW s, Pointers(stk, s)
  PROVE  Led(stk[Len(stk)], s)
  BY StackIs DEF Pointers, Led

LEMMA PointersRetopped ==
  ASSUME NEW stk \in Seq(Frames), Len(stk) >= 1, NEW s, Pointers(stk, s),
         NEW f \in Frames, Led(f, s)
  PROVE  Pointers(Retopped(stk, f), s)
<1> DEFINE n == Len(stk)
           new == Retopped(stk, f)
<1>1. n \in Nat /\ DOMAIN stk = 1 .. n
  BY StackIs
<1>2. new \in Seq(Frames) /\ Len(new) = n /\ new[n] = f /\ Lower(stk, new)
  BY RetoppedIs
<1>3. DOMAIN new = 1 .. n
  BY <1>2, LenProperties
<1>4. \A k \in 1 .. (n - 1) : new[k] = stk[k]
  BY <1>2 DEF Lower
<1>5. \A k \in 1 .. n : Led(stk[k], s)
  BY <1>1 DEF Pointers, Led
<1> HIDE DEF n, new
<1>6. \A k \in 1 .. n : k # n => k \in 1 .. (n - 1)
  BY <1>1
<1>7. \A k \in 1 .. n : Led(new[k], s)
  BY <1>2, <1>4, <1>5, <1>6
<1> QED
  BY <1>3, <1>7 DEF Pointers, Led, new

LEMMA PointersPushed ==
  ASSUME NEW stk \in Seq(Frames), Len(stk) >= 1, NEW s, Pointers(stk, s),
         NEW f \in Frames, Led(f, s)
  PROVE  Pointers(Append(stk, f), s)
<1> DEFINE n == Len(stk)
           new == Append(stk, f)
<1>1. n \in Nat /\ DOMAIN stk = 1 .. n
  BY StackIs
<1>2. /\ new \in Seq(Frames) /\ Len(new) = n + 1 /\ new[n + 1] = f
      /\ \A k \in 1 .. n : new[k] = stk[k]
  BY PushedIs
<1>3. DOMAIN new = 1 .. (n + 1)
  BY <1>2, LenProperties
<1>5. \A k \in 1 .. n : Led(stk[k], s)
  BY <1>1 DEF Pointers, Led
<1> HIDE DEF n, new
<1>6. \A k \in 1 .. (n + 1) : k # n + 1 => k \in 1 .. n
  BY <1>1
<1>7. \A k \in 1 .. (n + 1) : Led(new[k], s)
  BY <1>2, <1>5, <1>6
<1> QED
  BY <1>3, <1>7 DEF Pointers, Led, new

LEMMA PointersPopped ==
  ASSUME NEW stk \in Seq(Frames), Len(stk) >= 2, NEW s, Pointers(stk, s)
  PROVE  Pointers(Popped(stk), s)
<1> DEFINE n == Len(stk)
           new == Popped(stk)
<1>1. n \in Nat /\ DOMAIN stk = 1 .. n
  BY StackIs
<1>2. /\ new \in Seq(Frames) /\ Len(new) = n - 1
      /\ \A k \in 1 .. (n - 1) : new[k] = stk[k]
  BY PoppedIs
<1>3. DOMAIN new = 1 .. (n - 1)
  BY <1>2, LenProperties
<1>5. \A k \in 1 .. n : Led(stk[k], s)
  BY <1>1 DEF Pointers, Led
<1> HIDE DEF n, new
<1>6. \A k \in 1 .. (n - 1) : k \in 1 .. n
  BY <1>1
<1>7. \A k \in 1 .. (n - 1) : Led(new[k], s)
  BY <1>2, <1>5, <1>6
<1> QED
  BY <1>3, <1>7 DEF Pointers, Led, new

\* What the top activation's variable is set to.
Retag(stk, tag) == [stk EXCEPT ![Len(stk)].tag = tag]

LEMMA RetagKeeps ==
  ASSUME NEW stk, Framed(stk), NEW s, Pointers(stk, s),
         NEW tag \in Unset .. Len(s.tags), Len(s.tags) \in Nat
  PROVE  /\ Framed(Retag(stk, tag)) /\ Pointers(Retag(stk, tag), s)
         /\ ListRoots(Retag(stk, tag)) = ListRoots(stk)
         /\ Len(Retag(stk, tag)) = Len(stk)
         /\ LET old == stk[Len(stk)]
                top == Retag(stk, tag)[Len(stk)] IN
            top.tag = tag /\ top.kind = old.kind /\ top.list = old.list
<1> DEFINE n == Len(stk)
           old == stk[n]
           f == [old EXCEPT !.tag = tag]
<1>1. stk \in Seq(Frames) /\ n >= 1 /\ Apart(stk)
  BY DEF Framed
<1>2. n \in Nat /\ n \in DOMAIN stk /\ old \in Frames
  BY <1>1, StackIs
<1>3. tag \in Nat \cup {Unset}
  BY DEF Unset
<1>4. /\ f \in Frames /\ f.tag = tag /\ f.kind = old.kind /\ f.list = old.list
      /\ f.string = old.string /\ f.node = old.node
  BY <1>2, <1>3 DEF Frames
<1>5. Retag(stk, tag) = Retopped(stk, f)
  BY <1>2 DEF Retag, Retopped
<1>6. Led(old, s)
  BY <1>1, PointersTop
<1>7. Led(f, s)
  BY <1>4, <1>6 DEF Led
<1> DEFINE new == Retopped(stk, f)
<1>8. Pointers(new, s)
  BY <1>1, <1>4, <1>7, PointersRetopped
<1>9. new \in Seq(Frames) /\ Len(new) = n /\ new[n] = f
  BY <1>1, <1>4, RetoppedIs
<1>r. /\ ListRoots(stk) = LowerRoots(stk) \cup
               (IF old.kind = "list" /\ old.list # NULL THEN {old.list} ELSE {})
      /\ Apart(stk) /\ old.kind = "list" => old.list \notin LowerRoots(stk)
  BY <1>1, RootsAre
<1>10. f.kind = "list" => f.list \notin LowerRoots(stk)
  BY <1>1, <1>4, <1>r
<1>11. Framed(new) /\ LowerRoots(new) = LowerRoots(stk)
  BY <1>4, <1>10, FramedRetopped
<1>12. LET top == new[Len(new)] IN
       ListRoots(new) = LowerRoots(new) \cup
               (IF top.kind = "list" /\ top.list # NULL THEN {top.list} ELSE {})
  BY <1>1, <1>9, RootsAre
<1> HIDE DEF new
<1>13. ListRoots(new) = LowerRoots(stk) \cup
               (IF f.kind = "list" /\ f.list # NULL THEN {f.list} ELSE {})
  BY <1>9, <1>11, <1>12
<1>14. ListRoots(new) = ListRoots(stk)
  BY <1>4, <1>13, <1>r
<1> QED
  BY <1>4, <1>5, <1>8, <1>9, <1>11, <1>14 DEF new

\* A tag is made and given to the caller; nothing else points to it.
LEMMA Delivered ==
  ASSUME NEW fr, NEW s, Framed(fr), Pointers(fr, s), NEW T, Stored(s, T), Counted(s),
         ~NewTagRefused(s), NEW type \in TagTypes, NEW string \in Strings,
         string # <<>> => ~NewSymbolRefused(Stocked(s), string),
         NEW tag, tag \in T \cup {NULL}, T \ {tag} = ListRoots(fr),
         NEW n, n = NewTag(Symbol(s, string)),
         NEW r, r = WithTag(Symbol(s, string), type, string, tag),
         NEW new, new = Retag(fr, n)
  PROVE  Kept("returned", new, r) /\ Fresh(new[Len(new)], r)
<1> DEFINE L == Len(fr)
           top == new[L]
<1>1. Stored(r, (T \ {tag}) \cup {n}) /\ Counted(r) /\ Made(s, r, n)
  BY MakeTag
<1>2. /\ n \in DOMAIN r.tags /\ n # NULL /\ n \notin Used(s) /\ n \notin Range(r.free)
      /\ r.tags[n].tagNext = NULL /\ Len(s.tags) <= Len(r.tags)
      /\ r.nodes = s.nodes
  BY <1>1 DEF Made
<1>3. /\ Len(s.tags) \in Nat /\ Len(s.nodes) \in Nat /\ T \subseteq Used(s)
  BY StoreLens
<1>4. Len(r.tags) \in Nat /\ DOMAIN r.tags = 1 .. Len(r.tags)
  BY <1>1, StoreLens
<1>5. fr \in Seq(Frames)
  BY DEF Framed
<1>6. Pointers(fr, r)
  BY <1>2, <1>3, <1>4, <1>5, PointersLast
<1>7. n \in Unset .. Len(r.tags) /\ n # Unset
  BY <1>2, <1>4 DEF Unset
<1>8. /\ Framed(new) /\ Pointers(new, r) /\ ListRoots(new) = ListRoots(fr)
      /\ Len(new) = L
      /\ LET old == fr[L] IN
         top.tag = n /\ top.kind = old.kind /\ top.list = old.list
  BY <1>4, <1>6, <1>7, RetagKeeps
<1>9. n \notin ListRoots(new)
  BY <1>2, <1>3, <1>8
<1>10. Len(fr) >= 1
  BY DEF Framed
<1>11. LET old == fr[L] IN
       ListRoots(fr) = LowerRoots(fr) \cup
               (IF old.kind = "list" /\ old.list # NULL THEN {old.list} ELSE {})
  BY <1>5, <1>10, RootsAre
<1> HIDE DEF L
<1>12. top.kind = "list" => top.list # n
  BY <1>2, <1>8, <1>9, <1>11
<1>13. Fresh(top, r)
  BY <1>2, <1>7, <1>8, <1>12 DEF Fresh
<1>14. Answered(new, r)
  BY <1>2, <1>8, <1>9, <1>13 DEF Answered
<1>15. Settled(new, r)
  BY <1>1, <1>8 DEF Settled
<1>16. Stored(r, ListRoots(new) \cup {top.tag})
  BY <1>1, <1>8
<1>17. Kept("returned", new, r)
  BY <1>8, <1>13, <1>14, <1>15, <1>16, KeptAnswer
<1> QED
  BY <1>8, <1>13, <1>17

-----------------------------------------------------------------------------
(* What each operation keeps.                                              *)

LEMMA SettledIs ==
  ASSUME NEW stk, NEW s, Settled(stk, s)
  PROVE  /\ Framed(stk) /\ Pointers(stk, s) /\ Counted(s)
         /\ stk \in Seq(Frames) /\ Len(stk) >= 1 /\ Len(stk) \in Nat
         /\ stk[Len(stk)] \in Frames /\ Led(stk[Len(stk)], s)
         /\ stk[Len(stk)].kind \in {"list", "key"} => Len(stk) >= 2
<1>1. Framed(stk) /\ Pointers(stk, s) /\ Counted(s)
  BY DEF Settled
<1>2. stk \in Seq(Frames) /\ Len(stk) >= 1
  BY <1>1 DEF Framed
<1>3. /\ Len(stk) \in Nat /\ Len(stk) \in DOMAIN stk
      /\ \A k \in DOMAIN stk : stk[k] \in Frames
  BY <1>2, StackIs
<1>4. Led(stk[Len(stk)], s)
  BY <1>1, <1>2, PointersTop
<1>5. stk[Len(stk)].kind = "loop" <=> Len(stk) = 1
  BY <1>1, LoopIs
<1>6. stk[Len(stk)].kind \in {"list", "key"} => Len(stk) >= 2
  <2> DEFINE n == Len(stk)
             kind == stk[n].kind
  <2>1. n \in Nat /\ n >= 1 /\ (kind = "loop" <=> n = 1)
    BY <1>2, <1>3, <1>5
  <2> HIDE DEF n, kind
  <2>2. kind \in {"list", "key"} => n >= 2
    BY <2>1
  <2> QED
    BY <2>2 DEF n, kind
<1> QED
  BY <1>1, <1>2, <1>3, <1>4, <1>6

LEMMA FailKeeps ==
  ASSUME NEW stk, NEW s, Kept("parse", stk, s)
  PROVE  Kept("failed", stk, s)
  BY KeptParse, KeptFailed DEF Asking

LEMMA NothingKeeps ==
  ASSUME NEW stk, NEW s, Kept("parse", stk, s)
  PROVE  Kept("returned", stk, s) /\ ~Fresh(stk[Len(stk)], s)
<1>1. Settled(stk, s) /\ Stored(s, ListRoots(stk)) /\ Asking(stk, s)
  BY KeptParse
<1>2. ~Fresh(stk[Len(stk)], s)
  BY <1>1, WaitingNotFresh DEF Settled
<1> QED
  BY <1>1, <1>2, KeptNothing

LEMMA ClearKeeps ==
  ASSUME NEW stk, NEW s, Kept("parse", stk, s), NEW new, new = Retag(stk, NULL)
  PROVE  Kept("returned", new, s) /\ new[Len(new)].tag = NULL
<1>1. Settled(stk, s) /\ Stored(s, ListRoots(stk)) /\ Asking(stk, s)
  BY KeptParse
<1>2. Framed(stk) /\ Pointers(stk, s) /\ Counted(s) /\ Len(s.tags) \in Nat
  BY <1>1, StoreLens DEF Settled
<1>3. NULL \in Unset .. Len(s.tags)
  BY <1>2 DEF NULL, Unset
<1>4. /\ Framed(new) /\ Pointers(new, s) /\ ListRoots(new) = ListRoots(stk)
      /\ Len(new) = Len(stk) /\ new[Len(stk)].tag = NULL
  BY <1>2, <1>3, RetagKeeps
<1>5. ~Fresh(new[Len(new)], s)
  BY <1>4 DEF Fresh
<1> QED
  BY <1>1, <1>2, <1>4, <1>5, KeptNothing DEF Settled

LEMMA MakeKeeps ==
  ASSUME NEW stk, NEW s, Kept("parse", stk, s),
         ~NewTagRefused(s), NEW type \in TagTypes, NEW string \in Strings,
         string # <<>> => ~NewSymbolRefused(Stocked(s), string),
         NEW n, n = NewTag(Symbol(s, string)),
         NEW r, r = WithTag(Symbol(s, string), type, string, NULL),
         NEW new, new = Retag(stk, n)
  PROVE  Kept("returned", new, r) /\ Fresh(new[Len(new)], r)
<1>1. Settled(stk, s) /\ Stored(s, ListRoots(stk))
  BY KeptParse
<1>2. Framed(stk) /\ Pointers(stk, s) /\ Counted(s)
  BY <1>1 DEF Settled
<1>3. ListRoots(stk) \ {NULL} = ListRoots(stk)
  BY DEF ListRoots, ListFrames
<1> QED
  BY <1>1, <1>2, <1>3, Delivered

LEMMA OpenKeeps ==
  ASSUME NEW stk, NEW s, Kept("parse", stk, s), NEW f \in Frames,
         f.kind \in {"list", "key"}, f.kind = "key" => f.string # <<>>,
         f.list = NULL, f.tag = Unset, f.node = NULL
  PROVE  Kept("parse", Append(stk, f), s)
<1> DEFINE new == Append(stk, f)
<1>1. Settled(stk, s) /\ Stored(s, ListRoots(stk)) /\ Asking(stk, s)
  BY KeptParse
<1>2. /\ Framed(stk) /\ Pointers(stk, s) /\ Counted(s)
      /\ stk \in Seq(Frames) /\ Len(stk) >= 1 /\ Len(stk) \in Nat
  BY <1>1, SettledIs
<1>3. Waiting(stk[Len(stk)])
  BY <1>1 DEF Asking
<1>4. Framed(new) /\ ListRoots(new) = ListRoots(stk)
  BY <1>2, <1>3, FramedPushed
<1>5. Len(s.tags) \in Nat /\ Len(s.nodes) \in Nat
  BY <1>1, StoreLens
<1>6. Led(f, s)
  BY <1>5 DEF Led, NULL, Unset
<1>7. Pointers(new, s)
  BY <1>2, <1>6, PointersPushed
<1>8. Len(new) = Len(stk) + 1 /\ new[Len(stk) + 1] = f
  BY <1>2, PushedIs
<1>9. Waiting(f)
  BY DEF Waiting
<1> HIDE DEF new
<1>10. Len(new) # 1 /\ new[Len(new)] = f
  BY <1>2, <1>8
<1>11. Asking(new, s)
  BY <1>9, <1>10 DEF Asking
<1>12. Kept("parse", new, s)
  BY <1>1, <1>2, <1>4, <1>7, <1>11, KeptParse DEF Settled
<1> QED
  BY <1>12 DEF new

\* The tags that the top activation of ParseTagList has apart from the others.
LEMMA ListTop ==
  ASSUME NEW stk, NEW s, Settled(stk, s), stk[Len(stk)].kind = "list"
  PROVE  LET list == stk[Len(stk)].list IN
         /\ list \in ListRoots(stk) \cup {NULL}
         /\ ListRoots(stk) \ {list} = LowerRoots(stk)
         /\ list \notin LowerRoots(stk) /\ NULL \notin ListRoots(stk)
         /\ Framed(Popped(stk)) /\ Pointers(Popped(stk), s)
         /\ ListRoots(Popped(stk)) = LowerRoots(stk)
         /\ Waiting(Popped(stk)[Len(Popped(stk))])
<1>1. /\ Framed(stk) /\ Pointers(stk, s)
      /\ stk \in Seq(Frames) /\ Len(stk) >= 2 /\ Len(stk) >= 1 /\ Apart(stk)
  BY SettledIs DEF Framed
<1>2. LET top == stk[Len(stk)] IN
      /\ ListRoots(stk) = LowerRoots(stk) \cup
            (IF top.kind = "list" /\ top.list # NULL THEN {top.list} ELSE {})
      /\ Apart(stk) /\ top.kind = "list" => top.list \notin LowerRoots(stk)
      /\ NULL \notin ListRoots(stk) /\ NULL \notin LowerRoots(stk)
  BY <1>1, RootsAre
<1>3. Pointers(Popped(stk), s)
  BY <1>1, PointersPopped
<1>4. /\ Framed(Popped(stk)) /\ ListRoots(Popped(stk)) = LowerRoots(stk)
      /\ Waiting(Popped(stk)[Len(Popped(stk))])
  BY <1>1, FramedPopped
<1> QED
  BY <1>1, <1>2, <1>3, <1>4

LEMMA KeyTop ==
  ASSUME NEW stk, NEW s, Settled(stk, s), stk[Len(stk)].kind = "key"
  PROVE  /\ ListRoots(stk) = LowerRoots(stk)
         /\ Framed(Popped(stk)) /\ Pointers(Popped(stk), s)
         /\ ListRoots(Popped(stk)) = ListRoots(stk)
         /\ Waiting(Popped(stk)[Len(Popped(stk))])
<1>1. /\ Framed(stk) /\ Pointers(stk, s)
      /\ stk \in Seq(Frames) /\ Len(stk) >= 2 /\ Len(stk) >= 1
  BY SettledIs
<1>2. LET top == stk[Len(stk)] IN
      /\ ListRoots(stk) = LowerRoots(stk) \cup
            (IF top.kind = "list" /\ top.list # NULL THEN {top.list} ELSE {})
  BY <1>1, RootsAre
<1>3. Pointers(Popped(stk), s)
  BY <1>1, PointersPopped
<1>4. /\ Framed(Popped(stk)) /\ ListRoots(Popped(stk)) = LowerRoots(stk)
      /\ Waiting(Popped(stk)[Len(Popped(stk))])
  BY <1>1, FramedPopped
<1> QED
  BY <1>1, <1>2, <1>3, <1>4

LEMMA ListLinkKeeps ==
  ASSUME NEW stk, NEW s, Kept("returned", stk, s), stk[Len(stk)].kind = "list",
         stk[Len(stk)].tag \notin {Unset, NULL, stk[Len(stk)].list},
         NEW r, r = Linked(s, stk[Len(stk)].list, stk[Len(stk)].tag)[1],
         NEW new, new = [stk EXCEPT ![Len(stk)].list = stk[Len(stk)].tag]
  PROVE  Kept("parse", new, r)
<1> DEFINE n == Len(stk)
           top == stk[n]
           tag == top.tag
           list == top.list
           T == ListRoots(stk) \cup {tag}
           f == [top EXCEPT !.list = tag]
<1>1. Fresh(top, s)
  BY DEF Fresh
<1>2. Settled(stk, s) /\ Answered(stk, s) /\ Stored(s, T)
  BY <1>1, KeptAnswer
<1>3. /\ Framed(stk) /\ Pointers(stk, s) /\ Counted(s)
      /\ stk \in Seq(Frames) /\ n >= 2 /\ n >= 1 /\ n \in Nat /\ top \in Frames
      /\ Led(top, s)
  BY <1>2, SettledIs
<1>4. /\ list \in ListRoots(stk) \cup {NULL}
      /\ ListRoots(stk) \ {list} = LowerRoots(stk)
      /\ list \notin LowerRoots(stk) /\ NULL \notin ListRoots(stk)
  BY <1>2, ListTop
<1>5. tag \notin ListRoots(stk) /\ s.tags[tag].tagNext = NULL
  BY <1>2 DEF Answered
<1>6. tag \in T /\ list \in T \cup {NULL} /\ list # tag
  BY <1>4
<1>7. Stored(r, T \ {list}) /\ Counted(r) /\ Chained(s, r)
  BY <1>2, <1>3, <1>5, <1>6, LinkKeeps
<1>8. /\ Len(s.tags) \in Nat /\ Len(s.nodes) \in Nat /\ Len(r.tags) \in Nat
      /\ Len(r.nodes) \in Nat
  BY <1>2, <1>7, StoreLens
<1>9. Len(r.tags) = Len(s.tags) /\ r.nodes = s.nodes
  BY <1>7 DEF Chained
<1>m. Len(s.tags) <= Len(r.tags) /\ Len(s.nodes) <= Len(r.nodes)
  BY <1>8, <1>9
<1>10. Pointers(stk, r)
  BY <1>3, <1>8, <1>m, PointersLast
<1>11. /\ f \in Frames /\ f.list = tag /\ f.tag = tag /\ f.kind = "list"
       /\ f.string = top.string /\ f.node = top.node
  <2>1. tag \in Nat
    BY <1>3 DEF Frames
  <2> QED
    BY <1>3, <2>1 DEF Frames
<1>12. Led(f, r)
  BY <1>3, <1>8, <1>9, <1>11 DEF Led, Unset, Frames
<1>13. new = Retopped(stk, f)
  BY <1>3 DEF Retopped
<1>14. Pointers(new, r)
  BY <1>3, <1>10, <1>11, <1>12, <1>13, PointersRetopped
<1>15. tag \notin LowerRoots(stk)
  BY <1>4, <1>5
<1>16. Framed(new) /\ LowerRoots(new) = LowerRoots(stk)
  BY <1>3, <1>11, <1>13, <1>15, FramedRetopped
<1>17. new \in Seq(Frames) /\ Len(new) = n /\ new[n] = f
  BY <1>3, <1>11, <1>13, RetoppedIs
<1>18. LET t == new[Len(new)] IN
       ListRoots(new) = LowerRoots(new) \cup
               (IF t.kind = "list" /\ t.list # NULL THEN {t.list} ELSE {})
  BY <1>3, <1>17, RootsAre
<1>t. tag # NULL
  OBVIOUS
<1> HIDE DEF n, f
<1>19. ListRoots(new) = LowerRoots(stk) \cup {tag}
  BY <1>11, <1>16, <1>17, <1>18, <1>t
<1>20. T \ {list} = ListRoots(new)
  BY <1>4, <1>6, <1>19
<1>21. Waiting(f)
  BY <1>11 DEF Waiting
<1>22. n # 1
  BY <1>3
<1>23. Asking(new, r)
  BY <1>17, <1>21, <1>22 DEF Asking
<1> QED
  BY <1>7, <1>14, <1>16, <1>20, <1>23, KeptParse DEF Settled

\* A tag given back, and the activation left or asking again.
LEMMA GivenUp ==
  ASSUME NEW fr, NEW s, NEW T, Framed(fr), Pointers(fr, s), Counted(s), Stored(s, T),
         NEW tag, tag \in T \cup {NULL}, T \ {tag} = ListRoots(fr),
         NEW r, r = XMLFreeTag(s, tag)
  PROVE  /\ Settled(fr, r) /\ Stored(r, ListRoots(fr))
         /\ tag # NULL => tag \in Range(r.free)
         /\ r.nodes = s.nodes
<1>1. /\ Stored(r, T \ {tag}) /\ Counted(r) /\ Remains(s, r)
      /\ tag # NULL => tag \in Range(r.free)
  BY FreeTagKeeps
<1>2. /\ Len(s.tags) \in Nat /\ Len(s.nodes) \in Nat /\ Len(r.tags) \in Nat
      /\ Len(r.nodes) \in Nat
  BY <1>1, StoreLens
<1>3. Len(r.tags) = Len(s.tags) /\ r.nodes = s.nodes
  BY <1>1 DEF Remains
<1>4. fr \in Seq(Frames)
  BY DEF Framed
<1>5. Pointers(fr, r)
  BY <1>2, <1>3, <1>4, PointersLast
<1> QED
  BY <1>1, <1>3, <1>5 DEF Settled

\* ParseTagList that has no more elements, or no tag for the list.
LEMMA ListBackKeeps ==
  ASSUME NEW status \in {"returned", "failed"}, NEW stk, NEW s,
         Kept(status, stk, s), stk[Len(stk)].kind = "list",
         status = "returned" => stk[Len(stk)].tag = NULL,
         NEW r, r = XMLFreeTag(s, stk[Len(stk)].list)
  PROVE  Kept("failed", Popped(stk), r)
<1> DEFINE list == stk[Len(stk)].list
<1>1. Settled(stk, s) /\ Stored(s, ListRoots(stk))
  <2>1. CASE status = "failed"
    BY <2>1, KeptFailed
  <2>2. CASE status = "returned"
    BY <2>2, KeptNothing DEF Fresh
  <2> QED
    BY <2>1, <2>2
<1>2. Counted(s)
  BY <1>1 DEF Settled
<1>3. /\ list \in ListRoots(stk) \cup {NULL}
      /\ ListRoots(stk) \ {list} = LowerRoots(stk)
      /\ Framed(Popped(stk)) /\ Pointers(Popped(stk), s)
      /\ ListRoots(Popped(stk)) = LowerRoots(stk)
      /\ Waiting(Popped(stk)[Len(Popped(stk))])
  BY <1>1, ListTop
<1>4. ListRoots(stk) \ {list} = ListRoots(Popped(stk))
  BY <1>3
<1>5. Settled(Popped(stk), r) /\ Stored(r, ListRoots(Popped(stk)))
  BY <1>1, <1>2, <1>3, <1>4, GivenUp
<1> QED
  BY <1>3, <1>5, KeptFailed

LEMMA ListMakeKeeps ==
  ASSUME NEW stk, NEW s, Kept("returned", stk, s), stk[Len(stk)].kind = "list",
         stk[Len(stk)].tag = NULL,
         ~NewTagRefused(s), NEW type \in TagTypes,
         NEW n, n = NewTag(Symbol(s, <<>>)),
         NEW r, r = WithTag(Symbol(s, <<>>), type, <<>>, stk[Len(stk)].list),
         NEW new, new = Retag(Popped(stk), n)
  PROVE  Kept("returned", new, r) /\ Fresh(new[Len(new)], r)
<1> DEFINE list == stk[Len(stk)].list
           fr == Popped(stk)
<1>1. Settled(stk, s) /\ Stored(s, ListRoots(stk))
  BY KeptNothing DEF Fresh
<1>2. Counted(s)
  BY <1>1 DEF Settled
<1>3. /\ list \in ListRoots(stk) \cup {NULL}
      /\ ListRoots(stk) \ {list} = LowerRoots(stk)
      /\ Framed(fr) /\ Pointers(fr, s) /\ ListRoots(fr) = LowerRoots(stk)
  BY <1>1, ListTop
<1>4. ListRoots(stk) \ {list} = ListRoots(fr)
  BY <1>3
<1>5. <<>> \in Strings
  BY EmptySeq DEF Strings
<1> HIDE DEF fr, list
<1>6. Kept("returned", Retag(fr, n), r) /\ Fresh(Retag(fr, n)[Len(Retag(fr, n))], r)
  BY <1>1, <1>2, <1>3, <1>4, <1>5, Delivered DEF list
<1> QED
  BY <1>6 DEF fr

\* The value that ParseTagKey has been given, apart from the others' lists.
LEMMA KeyAnswer ==
  ASSUME NEW stk, NEW s, Kept("returned", stk, s), stk[Len(stk)].kind = "key",
         stk[Len(stk)].tag # Unset
  PROVE  LET tag == stk[Len(stk)].tag
             fr == Popped(stk) IN
         /\ Settled(stk, s) /\ Framed(fr) /\ Pointers(fr, s)
         /\ Waiting(fr[Len(fr)])
         /\ \E T : /\ Stored(s, T) /\ tag \in T \cup {NULL}
                   /\ T \ {tag} = ListRoots(fr)
<1> DEFINE tag == stk[Len(stk)].tag
           fr == Popped(stk)
<1>1. CASE tag = NULL
  <2>1. Settled(stk, s) /\ Stored(s, ListRoots(stk))
    BY <1>1, KeptNothing DEF Fresh
  <2>2. /\ Framed(fr) /\ Pointers(fr, s) /\ ListRoots(fr) = ListRoots(stk)
        /\ Waiting(fr[Len(fr)])
    BY <2>1, KeyTop
  <2>3. ListRoots(stk) \ {tag} = ListRoots(stk)
    BY <1>1 DEF ListRoots, ListFrames
  <2> QED
    BY <1>1, <2>1, <2>2, <2>3
<1>2. CASE tag # NULL
  <2>1. Fresh(stk[Len(stk)], s)
    BY <1>2 DEF Fresh
  <2>2. Settled(stk, s) /\ Answered(stk, s) /\ Stored(s, ListRoots(stk) \cup {tag})
    BY <2>1, KeptAnswer
  <2>3. /\ Framed(fr) /\ Pointers(fr, s) /\ ListRoots(fr) = ListRoots(stk)
        /\ Waiting(fr[Len(fr)])
    BY <2>2, KeyTop
  <2>4. tag \notin ListRoots(stk)
    BY <2>2 DEF Answered
  <2>5. (ListRoots(stk) \cup {tag}) \ {tag} = ListRoots(fr)
    BY <2>3, <2>4
  <2> QED
    BY <2>2, <2>3, <2>5
<1> QED
  BY <1>1, <1>2

LEMMA KeyBackKeeps ==
  ASSUME NEW stk, NEW s, Kept("returned", stk, s), stk[Len(stk)].kind = "key",
         stk[Len(stk)].tag # Unset, NEW r, r = XMLFreeTag(s, stk[Len(stk)].tag)
  PROVE  Kept("failed", Popped(stk), r)
<1> DEFINE tag == stk[Len(stk)].tag
           fr == Popped(stk)
<1>1. /\ Settled(stk, s) /\ Framed(fr) /\ Pointers(fr, s) /\ Waiting(fr[Len(fr)])
      /\ \E T : /\ Stored(s, T) /\ tag \in T \cup {NULL}
                /\ T \ {tag} = ListRoots(fr)
  BY KeyAnswer
<1>2. PICK T : /\ Stored(s, T) /\ tag \in T \cup {NULL}
               /\ T \ {tag} = ListRoots(fr)
  BY <1>1
<1>3. Counted(s)
  BY <1>1 DEF Settled
<1> HIDE DEF fr
<1>4. Settled(fr, r) /\ Stored(r, ListRoots(fr))
  BY <1>1, <1>2, <1>3, GivenUp
<1>5. Kept("failed", fr, r)
  BY <1>1, <1>4, KeptFailed
<1> QED
  BY <1>5 DEF fr

LEMMA KeyMakeKeeps ==
  ASSUME NEW stk, NEW s, Kept("returned", stk, s), stk[Len(stk)].kind = "key",
         stk[Len(stk)].tag # Unset,
         ~NewTagRefused(s), NEW string \in Strings,
         string # <<>> => ~NewSymbolRefused(Stocked(s), string),
         NEW n, n = NewTag(Symbol(s, string)),
         NEW r, r = WithTag(Symbol(s, string), "key", string, stk[Len(stk)].tag),
         NEW new, new = Retag(Popped(stk), n)
  PROVE  Kept("returned", new, r) /\ Fresh(new[Len(new)], r)
<1> DEFINE tag == stk[Len(stk)].tag
           fr == Popped(stk)
<1>1. /\ Settled(stk, s) /\ Framed(fr) /\ Pointers(fr, s)
      /\ \E T : /\ Stored(s, T) /\ tag \in T \cup {NULL}
                /\ T \ {tag} = ListRoots(fr)
  BY KeyAnswer
<1>2. PICK T : /\ Stored(s, T) /\ tag \in T \cup {NULL}
               /\ T \ {tag} = ListRoots(fr)
  BY <1>1
<1>3. Counted(s) /\ "key" \in TagTypes
  BY <1>1 DEF Settled, TagTypes
<1> HIDE DEF fr, tag
<1>4. Kept("returned", Retag(fr, n), r) /\ Fresh(Retag(fr, n)[Len(Retag(fr, n))], r)
  BY <1>1, <1>2, <1>3, Delivered DEF tag
<1> QED
  BY <1>4 DEF fr

LEMMA KeyFailKeeps ==
  ASSUME NEW stk, NEW s, Kept("failed", stk, s), stk[Len(stk)].kind = "key"
  PROVE  Kept("failed", Popped(stk), s)
<1>1. Settled(stk, s) /\ Stored(s, ListRoots(stk))
  BY KeptFailed
<1>2. /\ Framed(Popped(stk)) /\ Pointers(Popped(stk), s)
      /\ ListRoots(Popped(stk)) = ListRoots(stk)
      /\ Waiting(Popped(stk)[Len(Popped(stk))])
  BY <1>1, KeyTop
<1> QED
  BY <1>1, <1>2, KeptFailed DEF Settled

-----------------------------------------------------------------------------
(* prepare_devicetree's loop, and the walk of the dictionary.              *)

LEMMA LoopTop ==
  ASSUME NEW stk, Framed(stk), stk[Len(stk)].kind = "loop"
  PROVE  Len(stk) = 1 /\ Waiting(stk[Len(stk)]) /\ ListRoots(stk) = {}
<1>1. Len(stk) = 1
  BY LoopIs
<1>2. stk \in Seq(Frames) /\ Len(stk) >= 1 /\ stk[1].kind = "loop"
  BY DEF Framed
<1>3. DOMAIN stk = 1 .. Len(stk)
  BY <1>2, StackIs
<1>4. ListFrames(stk) = {}
  BY <1>1, <1>2, <1>3 DEF ListFrames
<1>5. ListRoots(stk) = {}
  BY <1>4 DEF ListRoots
<1> QED
  BY <1>1, <1>5 DEF Waiting

LEMMA LoopSkipKeeps ==
  ASSUME NEW stk, NEW s, Kept("returned", stk, s), stk[Len(stk)].kind = "loop",
         stk[Len(stk)].tag = NULL
  PROVE  Kept("parse", stk, s)
<1>1. Settled(stk, s) /\ Stored(s, ListRoots(stk))
  BY KeptNothing DEF Fresh
<1>2. Waiting(stk[Len(stk)])
  BY DEF Waiting
<1>3. Asking(stk, s)
  BY <1>2 DEF Asking
<1> QED
  BY <1>1, <1>3, KeptParse

LEMMA LoopFreeKeeps ==
  ASSUME NEW stk, NEW s, Kept("returned", stk, s), stk[Len(stk)].kind = "loop",
         stk[Len(stk)].tag \notin {Unset, NULL} \cup Range(s.free),
         NEW r, r = XMLFreeTag(s, stk[Len(stk)].tag)
  PROVE  Kept("parse", stk, r)
<1> DEFINE tag == stk[Len(stk)].tag
<1>1. Fresh(stk[Len(stk)], s)
  BY DEF Fresh
<1>2. Settled(stk, s) /\ Answered(stk, s) /\ Stored(s, ListRoots(stk) \cup {tag})
  BY <1>1, KeptAnswer
<1>3. Framed(stk) /\ Pointers(stk, s) /\ Counted(s)
  BY <1>2 DEF Settled
<1>4. tag \notin ListRoots(stk)
  BY <1>2 DEF Answered
<1>5. (ListRoots(stk) \cup {tag}) \ {tag} = ListRoots(stk)
  BY <1>4
<1>6. /\ Settled(stk, r) /\ Stored(r, ListRoots(stk))
      /\ tag # NULL => tag \in Range(r.free)
  BY <1>2, <1>3, <1>5, GivenUp
<1>7. Waiting(stk[Len(stk)])
  BY DEF Waiting
<1>8. Asking(stk, r)
  BY <1>6, <1>7 DEF Asking
<1> QED
  BY <1>6, <1>8, KeptParse

LEMMA LoopFailKeeps ==
  ASSUME NEW stk, NEW s, Kept("failed", stk, s), stk[Len(stk)].kind = "loop"
  PROVE  Kept("false", stk, s)
<1>1. Settled(stk, s) /\ Stored(s, ListRoots(stk)) /\ Waiting(stk[Len(stk)])
  BY KeptFailed
<1>2. Framed(stk) /\ Len(stk) = 1
  BY <1>1, LoopTop DEF Settled
<1> QED
  BY <1>1, <1>2 DEF Kept, Stacked, Roots, Results, Held, Settled, Framed

LEMMA KeptStart ==
  ASSUME NEW stk, NEW s
  PROVE  Kept("start", stk, s) <=>
            /\ Settled(stk, s) /\ Stored(s, ListRoots(stk))
            /\ Waiting(stk[Len(stk)]) /\ Len(stk) = 1
<1>1. Len(stk) = 1 => Parsers(stk)
  BY DEF Parsers
<1> QED
  BY <1>1 DEF Kept, Stacked, Roots, Results, Held, Settled, Framed

Strolling(stk) == stk \in Seq(Frames) /\ stk[1].kind = "loop" /\ Walkers(stk)

LEMMA KeptWalk ==
  ASSUME NEW stk, NEW s
  PROVE  Kept("populate", stk, s) <=>
            /\ Strolling(stk) /\ Pointers(stk, s)
            /\ Stored(s, {stk[1].tag}) /\ Counted(s)
<1>1. Strolling(stk) <=> Stacked("populate", stk)
  BY DEF Strolling, Stacked, Walkers
<1>2. ASSUME Strolling(stk)
      PROVE  /\ ListRoots(stk) = {} /\ Apart(stk) /\ Patient(stk)
             /\ Waiting(stk[Len(stk)])
  <2> DEFINE n == Len(stk)
  <2>1. stk \in Seq(Frames) /\ n >= 2
    BY <1>2 DEF Strolling, Walkers
  <2>2. n \in Nat /\ DOMAIN stk = 1 .. n
    BY <2>1, LenProperties
  <2>3. stk[1].kind = "loop" /\ \A k \in 2 .. n : stk[k].kind \in {"entries", "members"}
    BY <1>2 DEF Strolling, Walkers
  <2> HIDE DEF n
  <2>4. \A k \in 1 .. n : k # 1 => k \in 2 .. n
    BY <2>2
  <2>5. \A k \in 1 .. n : stk[k].kind \in {"loop", "entries", "members"}
    BY <2>3, <2>4
  <2>6. ListFrames(stk) = {}
    BY <2>2, <2>5 DEF ListFrames
  <2>7. \A k \in 1 .. n : Waiting(stk[k])
    BY <2>5 DEF Waiting
  <2>8. \A k \in 1 .. (n - 1) : k \in 1 .. n
    BY <2>2
  <2>9. n \in 1 .. n
    BY <2>1, <2>2
  <2> QED
    BY <2>6, <2>7, <2>8, <2>9 DEF ListRoots, Apart, Patient, n
<1>3. Results("populate", stk, s) = {stk[1].tag}
  BY DEF Results
<1>4. Strolling(stk) => Roots("populate", stk, s) = {stk[1].tag}
  BY <1>2, <1>3 DEF Roots
<1>5. Held("populate", stk, s) <=> Waiting(stk[Len(stk)])
  BY DEF Held
<1>6. Strolling(stk) => ListRoots(stk) \cap Results("populate", stk, s) = {}
  BY <1>2
<1> QED
  BY <1>1, <1>2, <1>4, <1>5, <1>6 DEF Kept

LEMMA StrollIs ==
  ASSUME NEW stk, Strolling(stk)
  PROVE  /\ stk \in Seq(Frames) /\ Len(stk) >= 2 /\ Len(stk) >= 1
         /\ Len(stk) \in Nat /\ stk[1].kind = "loop" /\ stk[Len(stk)] \in Frames
         /\ \A k \in 2 .. Len(stk) : stk[k].kind \in {"entries", "members"}
         /\ stk[Len(stk)].kind \in {"entries", "members"}
<1>1. stk \in Seq(Frames) /\ Len(stk) >= 2
  BY DEF Strolling, Walkers
<1>2. Len(stk) \in Nat
  BY <1>1, LenProperties
<1>3. Len(stk) >= 1
  <2> DEFINE n == Len(stk)
  <2>1. n \in Nat /\ n >= 2
    BY <1>1, <1>2
  <2> HIDE DEF n
  <2>2. n >= 1
    BY <2>1
  <2> QED
    BY <2>2 DEF n
<1>4. stk[Len(stk)] \in Frames
  BY <1>1, <1>3, StackIs
<1>5. \A k \in 2 .. Len(stk) : stk[k].kind \in {"entries", "members"}
  BY DEF Strolling, Walkers
<1>6. Len(stk) \in 2 .. Len(stk)
  BY <1>1, <1>2
<1> QED
  BY <1>1, <1>2, <1>3, <1>4, <1>5, <1>6 DEF Strolling

\* The walk goes on to the next tag.
LEMMA StrollOn ==
  ASSUME NEW stk, Strolling(stk), NEW s, Pointers(stk, s), Len(s.tags) \in Nat,
         NEW next \in 0 .. Len(s.tags),
         NEW new, new = [stk EXCEPT ![Len(stk)].list = next]
  PROVE  Strolling(new) /\ Pointers(new, s) /\ new[1] = stk[1] /\ Len(new) = Len(stk)
<1> DEFINE n == Len(stk)
           top == stk[n]
           f == [top EXCEPT !.list = next]
<1>1. /\ stk \in Seq(Frames) /\ n >= 2 /\ n >= 1
      /\ n \in Nat /\ stk[1].kind = "loop" /\ top \in Frames
      /\ \A k \in 2 .. n : stk[k].kind \in {"entries", "members"}
      /\ top.kind \in {"entries", "members"}
  BY StrollIs
<1>2. /\ f \in Frames /\ f.list = next /\ f.kind = top.kind
      /\ f.tag = top.tag /\ f.node = top.node
  <2>1. next \in Nat
    OBVIOUS
  <2> QED
    BY <1>1, <2>1 DEF Frames
<1>3. Led(top, s)
  BY <1>1, PointersTop
<1>4. Led(f, s)
  BY <1>2, <1>3 DEF Led
<1>5. new = Retopped(stk, f)
  BY <1>1 DEF Retopped
<1>6. Pointers(new, s)
  BY <1>1, <1>2, <1>4, <1>5, PointersRetopped
<1>7. new \in Seq(Frames) /\ Len(new) = n /\ new[n] = f /\ Lower(stk, new)
  <2> HIDE DEF f
  <2>1. /\ Retopped(stk, f) \in Seq(Frames) /\ Len(Retopped(stk, f)) = n
        /\ Retopped(stk, f)[n] = f /\ Lower(stk, Retopped(stk, f))
    BY <1>1, <1>2, RetoppedIs
  <2> QED
    BY <1>5, <2>1
<1>8. \A k \in 1 .. (n - 1) : new[k] = stk[k]
  BY <1>7 DEF Lower
<1> HIDE DEF n, f
<1>9. 1 \in 1 .. (n - 1) /\ \A k \in 2 .. n : k # n => k \in 1 .. (n - 1)
  BY <1>1
<1>10. new[1] = stk[1]
  BY <1>8, <1>9
<1>11. \A k \in 2 .. n : new[k].kind \in {"entries", "members"}
  BY <1>1, <1>2, <1>7, <1>8, <1>9
<1>12. Strolling(new)
  BY <1>1, <1>7, <1>10, <1>11 DEF Strolling, Walkers
<1> QED
  BY <1>6, <1>7, <1>10, <1>12 DEF n

\* It goes into a list of nodes, or of entries.
LEMMA StrollDown ==
  ASSUME NEW stk, Strolling(stk), NEW s, Pointers(stk, s),
         NEW f \in Frames, f.kind \in {"entries", "members"}, Led(f, s)
  PROVE  /\ Strolling(Append(stk, f)) /\ Pointers(Append(stk, f), s)
         /\ Append(stk, f)[1] = stk[1]
<1> DEFINE n == Len(stk)
           new == Append(stk, f)
<1>1. /\ stk \in Seq(Frames) /\ n >= 2 /\ n >= 1
      /\ n \in Nat /\ stk[1].kind = "loop"
      /\ \A k \in 2 .. n : stk[k].kind \in {"entries", "members"}
  BY StrollIs
<1>2. Pointers(new, s)
  BY <1>1, PointersPushed
<1>3. /\ new \in Seq(Frames) /\ Len(new) = n + 1 /\ new[n + 1] = f
      /\ \A k \in 1 .. n : new[k] = stk[k]
  BY <1>1, PushedIs
<1> HIDE DEF n, new
<1>4. /\ 1 \in 1 .. n /\ n + 1 >= 2
      /\ \A k \in 2 .. (n + 1) : k # n + 1 => k \in 1 .. n /\ k \in 2 .. n
  BY <1>1
<1>5. new[1] = stk[1]
  BY <1>3, <1>4
<1>6. \A k \in 2 .. (n + 1) : new[k].kind \in {"entries", "members"}
  BY <1>1, <1>3, <1>4
<1>7. Strolling(new)
  BY <1>1, <1>3, <1>4, <1>5, <1>6 DEF Strolling, Walkers
<1> QED
  BY <1>2, <1>5, <1>7 DEF new

\* And comes back from it.
LEMMA StrollUp ==
  ASSUME NEW stk, Strolling(stk), NEW s, Pointers(stk, s), Len(stk) # 2,
         NEW new, new = Popped(stk)
  PROVE  Strolling(new) /\ Pointers(new, s) /\ new[1] = stk[1]
<1> DEFINE n == Len(stk)
<1>1. /\ stk \in Seq(Frames) /\ n >= 2 /\ n >= 1
      /\ n \in Nat /\ stk[1].kind = "loop"
      /\ \A k \in 2 .. n : stk[k].kind \in {"entries", "members"}
  BY StrollIs
<1>2. Pointers(new, s)
  BY <1>1, PointersPopped
<1>3. /\ new \in Seq(Frames) /\ Len(new) = n - 1
      /\ \A k \in 1 .. (n - 1) : new[k] = stk[k]
  BY <1>1, PoppedIs
<1>n. n # 2
  OBVIOUS
<1> HIDE DEF n
<1>4. /\ 1 \in 1 .. (n - 1) /\ n - 1 >= 2
      /\ \A k \in 2 .. (n - 1) : k \in 1 .. (n - 1) /\ k \in 2 .. n
  BY <1>1, <1>n
<1>5. new[1] = stk[1]
  BY <1>3, <1>4
<1>6. \A k \in 2 .. (n - 1) : new[k].kind \in {"entries", "members"}
  BY <1>1, <1>3, <1>4
<1>7. Strolling(new)
  BY <1>1, <1>3, <1>4, <1>5, <1>6 DEF Strolling, Walkers
<1> QED
  BY <1>2, <1>5, <1>7

\* What the walk does to the tree leaves the tags and the stack alone.
LEMMA GrownKeeps ==
  ASSUME NEW stk, NEW s, NEW T, stk \in Seq(Frames), Pointers(stk, s),
         Stored(s, T), Counted(s), NEW r, Shaped(r), GrownTree(s, r)
  PROVE  /\ Pointers(stk, r) /\ Stored(r, T) /\ Counted(r) /\ Len(r.tags) = Len(s.tags)
         /\ Len(s.nodes) <= Len(r.nodes)
<1>1. SamePool(s, r) /\ r.symbols = s.symbols /\ Len(s.nodes) <= Len(r.nodes)
  BY DEF GrownTree
<1>2. Stored(r, T) /\ Used(r) = Used(s)
  BY <1>1, StoredSame
<1>3. r.tags = s.tags
  BY <1>1 DEF SamePool
<1>4. /\ Len(s.tags) \in Nat /\ Len(s.nodes) \in Nat /\ Len(r.tags) \in Nat
      /\ Len(r.nodes) \in Nat
  BY <1>2, StoreLens
<1>5. Len(s.tags) <= Len(r.tags)
  BY <1>3, <1>4
<1>6. Pointers(stk, r)
  BY <1>1, <1>4, <1>5, PointersLast
<1>7. References(r, Used(s)) = References(s, Used(s))
  BY <1>3 DEF References
<1>8. Counted(r)
  BY <1>1, <1>2, <1>7 DEF Counted
<1> QED
  BY <1>1, <1>2, <1>3, <1>6, <1>8

LEMMA WalkIs ==
  ASSUME NEW stk, NEW s, Kept("populate", stk, s)
  PROVE  /\ Strolling(stk) /\ Pointers(stk, s) /\ stk \in Seq(Frames)
         /\ Stored(s, {stk[1].tag}) /\ Counted(s) /\ Shaped(s)
         /\ Led(stk[Len(stk)], s) /\ Len(s.tags) \in Nat /\ Len(s.nodes) \in Nat
         /\ \A t \in DOMAIN s.tags :
               s.tags[t].tag \in 0 .. Len(s.tags) /\ s.tags[t].tagNext \in 0 .. Len(s.tags)
<1>1. /\ Strolling(stk) /\ Pointers(stk, s)
      /\ Stored(s, {stk[1].tag}) /\ Counted(s)
  BY KeptWalk
<1>2. stk \in Seq(Frames) /\ Len(stk) >= 1
  BY <1>1, StrollIs
<1>3. Led(stk[Len(stk)], s)
  BY <1>1, <1>2, PointersTop
<1>4. Shaped(s) /\ Inside(s) /\ Pooled(s)
  BY <1>1 DEF Stored
<1>5. Len(s.tags) \in Nat /\ Len(s.nodes) \in Nat
  BY <1>1, StoreLens
<1>6. \A t \in DOMAIN s.tags :
         s.tags[t].tag \in 0 .. Len(s.tags) /\ s.tags[t].tagNext \in 0 .. Len(s.tags)
  BY <1>4, TagsAre DEF Pooled
<1> QED
  BY <1>1, <1>2, <1>3, <1>4, <1>5, <1>6

\* A turn that only goes on, over a tree that may have grown.
LEMMA WalkOn ==
  ASSUME NEW stk, NEW s, Kept("populate", stk, s), NEW r, Shaped(r), GrownTree(s, r),
         NEW next \in 0 .. Len(s.tags),
         NEW new, new = [stk EXCEPT ![Len(stk)].list = next]
  PROVE  Kept("populate", new, r)
<1>1. /\ Strolling(stk) /\ Pointers(stk, s) /\ stk \in Seq(Frames)
      /\ Stored(s, {stk[1].tag}) /\ Counted(s) /\ Len(s.tags) \in Nat
  BY WalkIs
<1>2. /\ Pointers(stk, r) /\ Stored(r, {stk[1].tag}) /\ Counted(r)
      /\ Len(r.tags) = Len(s.tags)
  BY <1>1, GrownKeeps
<1>3. Strolling(new) /\ Pointers(new, r) /\ new[1] = stk[1]
  BY <1>1, <1>2, StrollOn
<1> QED
  BY <1>2, <1>3, KeptWalk

\* One that goes on, and into a list.
LEMMA WalkDown ==
  ASSUME NEW stk, NEW s, Kept("populate", stk, s), NEW r, Shaped(r), GrownTree(s, r),
         NEW next \in 0 .. Len(s.tags), NEW f \in Frames,
         f.kind \in {"entries", "members"}, Led(f, r),
         NEW on, on = [stk EXCEPT ![Len(stk)].list = next]
  PROVE  Kept("populate", Append(on, f), r)
<1>1. Kept("populate", on, r)
  BY WalkOn
<1>2. Strolling(on) /\ Pointers(on, r) /\ Stored(r, {on[1].tag}) /\ Counted(r)
  BY <1>1, WalkIs
<1>3. /\ Strolling(Append(on, f)) /\ Pointers(Append(on, f), r)
      /\ Append(on, f)[1] = on[1]
  BY <1>2, StrollDown
<1> QED
  BY <1>2, <1>3, KeptWalk

LEMMA WalkUp ==
  ASSUME NEW stk, NEW s, Kept("populate", stk, s), Len(stk) # 2
  PROVE  Kept("populate", Popped(stk), s)
<1>1. Strolling(stk) /\ Pointers(stk, s) /\ Stored(s, {stk[1].tag}) /\ Counted(s)
  BY WalkIs
<1>2. Strolling(Popped(stk)) /\ Pointers(Popped(stk), s) /\ Popped(stk)[1] = stk[1]
  BY <1>1, StrollUp
<1> QED
  BY <1>1, <1>2, KeptWalk

LEMMA WalkOut ==
  ASSUME NEW stk, NEW s, Kept("populate", stk, s), Len(stk) = 2,
         NEW r, r = XMLFreeTag(s, stk[1].tag)
  PROVE  Kept("true", Popped(stk), r)
<1> DEFINE new == Popped(stk)
           tag == stk[1].tag
<1>1. Strolling(stk) /\ Pointers(stk, s) /\ Stored(s, {tag}) /\ Counted(s)
  BY WalkIs
<1>2. stk \in Seq(Frames) /\ stk[1].kind = "loop"
  BY <1>1 DEF Strolling
<1>3. /\ new \in Seq(Frames) /\ Len(new) = 1 /\ new[1] = stk[1]
  <2>1. Len(stk) >= 2
    OBVIOUS
  <2>2. /\ new \in Seq(Frames) /\ Len(new) = Len(stk) - 1
        /\ \A k \in 1 .. (Len(stk) - 1) : new[k] = stk[k]
    BY <1>2, <2>1, PoppedIs
  <2> HIDE DEF new
  <2> QED
    BY <2>2
<1>l. Len(stk) >= 2
  OBVIOUS
<1>4. Pointers(new, s)
  BY <1>1, <1>2, <1>l, PointersPopped
<1> HIDE DEF new, tag
<1>5. DOMAIN new = 1 .. 1
  BY <1>3, LenProperties
<1>6. Framed(new)
  <2>1. Parsers(new)
    BY <1>3 DEF Parsers
  <2>2. Patient(new)
    BY <1>3 DEF Patient
  <2>3. ListFrames(new) = {}
    BY <1>2, <1>3, <1>5 DEF ListFrames
  <2> QED
    BY <1>2, <1>3, <2>1, <2>2, <2>3 DEF Framed, Apart
<1>7. ListRoots(new) = {} /\ Waiting(new[Len(new)])
  BY <1>2, <1>3, <1>6, LoopTop
<1>8. {tag} \ {tag} = ListRoots(new)
  BY <1>7
<1>r. r = XMLFreeTag(s, tag)
  BY DEF tag
<1>9. Settled(new, r) /\ Stored(r, ListRoots(new))
  BY <1>1, <1>4, <1>6, <1>8, <1>r, GivenUp
<1>10. Kept("true", new, r)
  BY <1>3, <1>7, <1>9 DEF Kept, Stacked, Roots, Results, Held, Settled, Framed
<1> QED
  BY <1>10 DEF new

-----------------------------------------------------------------------------
(* The operations of device_tree.c that the walk calls.                    *)

LEMMA GrownGrows ==
  ASSUME NEW s, NEW d, NEW r, GrownTree(s, d), GrownTree(d, r),
         Len(s.nodes) \in Nat, Len(d.nodes) \in Nat, Len(r.nodes) \in Nat
  PROVE  GrownTree(s, r)
<1>1. /\ d.tags = s.tags /\ d.free = s.free /\ d.symbols = s.symbols
      /\ Len(s.nodes) <= Len(d.nodes)
  BY DEF GrownTree, SamePool
<1>2. /\ r.tags = d.tags /\ r.free = d.free /\ r.symbols = d.symbols
      /\ Len(d.nodes) <= Len(r.nodes)
  BY DEF GrownTree, SamePool
<1>3. Len(s.nodes) <= Len(r.nodes)
  BY <1>1, <1>2
<1> QED
  BY <1>1, <1>2, <1>3 DEF GrownTree, SamePool

\* Memory for a value and for a name.
Paid(s) == [s EXCEPT !.room = @ - 2]

LEMMA PaidKeeps ==
  ASSUME NEW s, Shaped(s), s.room >= 2
  PROVE  Shaped(Paid(s)) /\ GrownTree(s, Paid(s)) /\ Paid(s).nodes = s.nodes
<1> DEFINE d == Paid(s)
<1>1. /\ StoreFields \subseteq DOMAIN s
      /\ {s.room, s.freeNodes, s.freeProperties} \subseteq Nat
      /\ s.nodes \in Seq(Range(s.nodes))
      /\ s.rootNode \in 0 .. Len(s.nodes)
  BY DEF Shaped
<1>2. /\ DOMAIN d = DOMAIN s /\ d.room = s.room - 2 /\ d.nodes = s.nodes
      /\ d.freeNodes = s.freeNodes /\ d.freeProperties = s.freeProperties
      /\ d.rootNode = s.rootNode /\ d.tags = s.tags /\ d.free = s.free
      /\ d.symbols = s.symbols
  BY <1>1 DEF Paid, StoreFields
<1>3. d.room \in Nat
  BY <1>1, <1>2
<1>4. Len(s.nodes) \in Nat
  BY NodesShape
<1> HIDE DEF d
<1>5. Shaped(d)
  BY <1>1, <1>2, <1>3 DEF Shaped
<1>6. GrownTree(s, d)
  BY <1>2, <1>4 DEF GrownTree, SamePool
<1> QED
  BY <1>2, <1>5, <1>6 DEF d

LEMMA EntryKeeps ==
  ASSUME NEW s, Shaped(s), s.room >= 2, NEW node \in 0 .. Len(s.nodes), node # NULL,
         NEW name, NEW n, NEW value,
         NEW r, r = WithProperty(Paid(s), node, name, n, value)
  PROVE  Shaped(r) /\ GrownTree(s, r)
<1> DEFINE d == Paid(s)
<1>1. Shaped(d) /\ GrownTree(s, d) /\ d.nodes = s.nodes
  BY PaidKeeps
<1> HIDE DEF d
<1>2. Len(s.nodes) \in Nat /\ Len(d.nodes) \in Nat /\ DOMAIN d.nodes = 1 .. Len(d.nodes)
  BY <1>1, NodesShape
<1>3. node \in DOMAIN d.nodes
  BY <1>1, <1>2 DEF NULL
<1>4. r = WithProperty(d, node, name, n, value)
  BY DEF d
<1>5. Shaped(r) /\ GrownTree(d, r)
  BY <1>1, <1>3, <1>4, PropertyKeeps
<1>6. Len(r.nodes) \in Nat
  BY <1>5, NodesShape
<1> QED
  BY <1>1, <1>2, <1>5, <1>6, GrownGrows

LEMMA ChildKeeps ==
  ASSUME NEW s, Shaped(s), NEW node \in 0 .. Len(s.nodes),
         NEW r, r = WithChild(s, node)
  PROVE  Shaped(r) /\ GrownTree(s, r) /\ Len(r.nodes) \in Nat
<1>0. Len(s.nodes) \in Nat
  BY NodesShape
<1>1. CASE NodeRefused(s)
  <2>1. r = s
    BY <1>1 DEF WithChild
  <2> QED
    BY <1>0, <2>1 DEF GrownTree, SamePool
<1>2. CASE ~NodeRefused(s)
  <2>1. r = WithNode(s, node)
    BY <1>2 DEF WithChild
  <2>2. Shaped(r) /\ GrownTree(s, r)
    BY <1>2, <2>1, NodeKeeps
  <2> QED
    BY <2>2, NodesShape
<1> QED
  BY <1>1, <1>2

LEMMA NamedKeeps ==
  ASSUME NEW s, Shaped(s), NEW name, NEW n, NEW value,
         NEW r, r = WithNamed(s, NULL, name, n, value)
  PROVE  Shaped(r) /\ GrownTree(s, r)
<1>0. Len(s.nodes) \in Nat
  BY NodesShape
<1>1. CASE NodeRefused(s)
  <2>1. r = s
    BY <1>1 DEF WithNamed
  <2> QED
    BY <1>0, <2>1 DEF GrownTree, SamePool
<1>2. CASE ~NodeRefused(s)
  <2> DEFINE e == WithNode(s, NULL)
  <2>1. r = WithProperty(e, Len(e.nodes), name, n, value)
    BY <1>2 DEF WithNamed
  <2>2. NULL \in 0 .. Len(s.nodes)
    BY <1>0 DEF NULL
  <2> HIDE DEF e
  <2>3. Shaped(e) /\ GrownTree(s, e) /\ Len(e.nodes) = Len(s.nodes) + 1
    BY <1>2, <2>2, NodeKeeps DEF e
  <2>4. DOMAIN e.nodes = 1 .. Len(e.nodes) /\ Len(e.nodes) \in Nat
    BY <2>3, NodesShape
  <2>5. Len(e.nodes) \in DOMAIN e.nodes
    BY <1>0, <2>3, <2>4
  <2>6. Shaped(r) /\ GrownTree(e, r)
    BY <2>1, <2>3, <2>5, PropertyKeeps
  <2>7. Len(r.nodes) \in Nat
    BY <2>6, NodesShape
  <2> QED
    BY <1>0, <2>3, <2>4, <2>6, <2>7, GrownGrows
<1> QED
  BY <1>1, <1>2

-----------------------------------------------------------------------------
(* The steps.                                                              *)

LEMMA KeptTyped ==
  ASSUME NEW status, NEW stk, NEW s, Kept(status, stk, s)
  PROVE  Typed(stk, s)
<1> DEFINE T == Roots(status, stk, s)
<1>1. stk \in Seq(Frames) /\ Pointers(stk, s) /\ Stored(s, T) /\ Counted(s)
  BY DEF Kept, Stacked
<1>2. Shaped(s) /\ Inside(s) /\ Pooled(s) /\ Owned(s, T)
  BY <1>1 DEF Stored
<1>3. IsFiniteSet(Used(s))
  BY <1>2, UsedAre
<1>4. IsABag(References(s, Used(s)))
  BY <1>3, ReferencesAre
<1> QED
  BY <1>1, <1>2, <1>4 DEF Typed, Counted

LEMMA TokenIs ==
  ASSUME Parsing, NEW k \in DOMAIN doc.tokens
  PROVE  doc.tokens[k] \in [tag : STRING, text : DOMAIN TextLen]
<1>1. doc.tokens \in Seq([tag : STRING, text : DOMAIN TextLen])
  BY XmlAssumption DEF Parsing
<1> QED
  BY <1>1, ElementOfSeq, LenProperties

LEMMA DocumentIs ==
  ASSUME Parsing
  PROVE  /\ Len(doc.tokens) \in Nat /\ DOMAIN doc.tokens = 1 .. Len(doc.tokens)
         /\ pos \in 1 .. (Len(doc.tokens) + 1) /\ pos \in Nat
         /\ pos <= Len(doc.tokens) => pos \in DOMAIN doc.tokens
<1>1. doc.tokens \in Seq([tag : STRING, text : DOMAIN TextLen])
  BY XmlAssumption DEF Parsing
<1>2. Len(doc.tokens) \in Nat /\ DOMAIN doc.tokens = 1 .. Len(doc.tokens)
  BY <1>1, LenProperties
<1>3. pos \in 1 .. (Len(doc.tokens) + 1)
  BY DEF Parsing
<1> QED
  BY <1>2, <1>3

\* The text of an element, and where the one behind it starts.
LEMMA TextIs ==
  ASSUME Parsing, pos <= Len(doc.tokens), EndTags # {}
  PROVE  /\ EndAt \in EndTags /\ EndAt \in Nat /\ EndAt > pos
         /\ EndAt + 1 \in 1 .. (Len(doc.tokens) + 1)
         /\ TextHere \in Strings /\ TextHere # <<>>
<1>1. /\ Len(doc.tokens) \in Nat /\ DOMAIN doc.tokens = 1 .. Len(doc.tokens)
      /\ pos \in Nat /\ pos \in DOMAIN doc.tokens /\ pos >= 1
  BY DocumentIs
<1>2. EndTags \in SUBSET Nat
  BY <1>1 DEF EndTags
<1>3. EndAt \in EndTags
  BY <1>2, Least DEF EndAt
<1>4. EndAt \in (pos + 1) .. Len(doc.tokens)
  BY <1>3 DEF EndTags
<1>5. /\ EndAt \in Nat /\ EndAt > pos /\ EndAt + 1 \in 1 .. (Len(doc.tokens) + 1)
      /\ pos + 1 \in DOMAIN doc.tokens
  BY <1>1, <1>4
<1>6. /\ doc.tokens[pos] \in [tag : STRING, text : DOMAIN TextLen]
      /\ doc.tokens[pos + 1] \in [tag : STRING, text : DOMAIN TextLen]
  BY <1>1, <1>5, TokenIs
<1>7. Token.text \in DOMAIN TextLen \cup STRING
  BY <1>6 DEF Token
<1>8. doc.tokens[pos + 1].tag \in DOMAIN TextLen \cup STRING
  BY <1>6
<1>9. TextHere \in Strings /\ TextHere # <<>>
  <2> DEFINE A == DOMAIN TextLen \cup STRING
             a == Token.text
             b == doc.tokens[pos + 1].tag
  <2>1. TextHere = <<a>> \/ TextHere = <<a, b>>
    BY DEF TextHere
  <2>2. a \in A /\ b \in A
    BY <1>7, <1>8
  <2> HIDE DEF a, b, A
  <2>3. <<a>> \in Seq(A) /\ <<a, b>> \in Seq(A) /\ <<a>> # <<>> /\ <<a, b>> # <<>>
    BY <2>2
  <2> QED
    BY <2>1, <2>3 DEF Strings, A
<1> QED
  BY <1>3, <1>5, <1>9

LEMMA Before ==
  ASSUME NEW a \in Nat, NEW b \in Nat
  PROVE  /\ a >= 1 /\ b > a => a \in 1 .. (b - 1)
         /\ b >= a => \A j \in 1 .. (a - 1) : j \in 1 .. (b - 1)
  OBVIOUS

\* A token that is not a header has been read.
LEMMA NotQuiet ==
  ASSUME Parsing, pos <= Len(doc.tokens), Token.tag \in Known \ {"plist"},
         doc' = doc, pos' \in Nat, pos' > pos
  PROVE  ~Quiet'
<1>1. pos \in Nat /\ pos >= 1
  BY DocumentIs
<1>2. pos \in 1 .. (pos' - 1)
  BY <1>1, Before
<1>3. doc'.tokens[pos].tag \in Known \ {"plist"}
  BY DEF Token
<1> QED
  BY <1>2, <1>3 DEF Quiet

LEMMA StillNotQuiet ==
  ASSUME ~Quiet, doc' = doc, pos' = pos
  PROVE  ~Quiet'
  BY DEF Quiet

LEMMA QuietBefore ==
  ASSUME Parsing, doc' = doc, pos' \in Nat, pos' >= pos, Quiet'
  PROVE  Quiet
<1>1. pos \in Nat
  BY DocumentIs
<1>2. \A j \in 1 .. (pos - 1) : j \in 1 .. (pos' - 1)
  BY <1>1, Before
<1>3. \A j \in 1 .. (pos' - 1) : doc'.tokens[j].tag \notin Known \ {"plist"}
  BY DEF Quiet
<1> QED
  BY <1>2, <1>3 DEF Quiet

\* The parser is out of the headers, or in an activation of its own.
LEMMA DeepNotQuiet ==
  ASSUME Parsing, pc = "returned" \/ pc = "parse",
         Len(stack) >= 2 \/ Top.tag \notin {Unset, NULL}
  PROVE  ~Quiet
<1>1. Behaved
  BY DEF Parsing, Running
<1>2. Quiet => Len(stack) = 1 /\ stack[1].tag \in {Unset, NULL}
  BY <1>1 DEF Behaved
<1>3. Quiet => Top.tag \in {Unset, NULL}
  BY <1>2 DEF Top
<1>4. Len(stack) = 1 => ~(Len(stack) >= 2)
  <2> SUFFICES ASSUME NEW n, n = 1 PROVE ~(n >= 2)
    OBVIOUS
  <2> QED
    OBVIOUS
<1> QED
  BY <1>2, <1>3, <1>4

\* What remains to be shown of a step.
LEMMA StepEnds ==
  ASSUME Parsing, doc' = doc, pos' \in 1 .. (Len(doc.tokens) + 1),
         pc' \in {"failed", "populate", "true", "false"},
         Kept(pc', stack', store')
  PROVE  Parsing'
<1>1. Typed(stack', store')
  BY KeptTyped
<1>2. Typed(stack, store)'
  BY <1>1 DEF Typed, Pointers, Shaped, Inside, Pooled
<1>3. Kept(pc, stack, store)'
  BY DEF Kept, Stacked, Parsers, Walkers, Pointers, Roots, ListRoots, ListFrames, Results,
         Fresh, Stored, Shaped, Inside, Pooled, Graded, Points, Owned, Used, Counted,
         References, Apart, Patient, Waiting, Held
<1>4. Behaved'
  BY DEF Behaved
<1>5. pc' \in Status /\ doc' \in Documents
  BY DEF Status, Parsing
<1> QED
  BY <1>1, <1>2, <1>3, <1>4, <1>5 DEF Parsing

LEMMA StepHalts ==
  ASSUME Parsing, doc' = doc, pos' \in 1 .. (Len(doc.tokens) + 1),
         pc' \in {"halted", "undefined", "ring"}, stack' = stack, store' = store
  PROVE  Parsing'
<1>1. Typed(stack, store)
  BY DEF Parsing
<1>2. Typed(stack, store)'
  BY <1>1 DEF Typed, Pointers, Shaped, Inside, Pooled
<1>3. pc' \in Status /\ doc' \in Documents
  BY DEF Status, Parsing
<1> QED
  BY <1>2, <1>3 DEF Parsing, Running

LEMMA StepKeeps ==
  ASSUME Parsing, doc' = doc, pos' \in 1 .. (Len(doc.tokens) + 1),
         pc' \in {"parse", "returned"}, Kept(pc', stack', store'), ~Quiet',
         pc' = "returned" => Fresh(stack'[Len(stack')], store')
  PROVE  Parsing'
<1>1. Typed(stack', store')
  BY KeptTyped
<1>2. Typed(stack, store)'
  BY <1>1 DEF Typed, Pointers, Shaped, Inside, Pooled
<1>3. Kept(pc, stack, store)'
  BY DEF Kept, Stacked, Parsers, Walkers, Pointers, Roots, ListRoots, ListFrames, Results,
         Fresh, Stored, Shaped, Inside, Pooled, Graded, Points, Owned, Used, Counted,
         References, Apart, Patient, Waiting, Held
<1>4. Behaved'
  BY DEF Behaved, Top, Fresh
<1>5. pc' \in Status /\ doc' \in Documents
  BY DEF Status, Parsing
<1> QED
  BY <1>1, <1>2, <1>3, <1>4, <1>5 DEF Parsing

LEMMA StepRuns ==
  ASSUME Parsing, doc' = doc, pos' \in 1 .. (Len(doc.tokens) + 1),
         pc' \in {"parse", "returned"}, Kept(pc', stack', store'), Behaved'
  PROVE  Parsing'
<1>1. Typed(stack', store')
  BY KeptTyped
<1>2. Typed(stack, store)'
  BY <1>1 DEF Typed, Pointers, Shaped, Inside, Pooled
<1>3. Kept(pc, stack, store)'
  BY DEF Kept, Stacked, Parsers, Walkers, Pointers, Roots, ListRoots, ListFrames, Results,
         Fresh, Stored, Shaped, Inside, Pooled, Graded, Points, Owned, Used, Counted,
         References, Apart, Patient, Waiting, Held
<1>4. pc' \in Status /\ doc' \in Documents
  BY DEF Status, Parsing
<1> QED
  BY <1>1, <1>2, <1>3, <1>4 DEF Parsing

\* What is known before a step.
LEMMA BeforeStep ==
  ASSUME Parsing, Running
  PROVE  /\ Kept(pc, stack, store) /\ Behaved
         /\ stack \in Seq(Frames) /\ Len(stack) >= 1 /\ Len(stack) \in Nat
         /\ stack[1].kind = "loop"
         /\ pos \in 1 .. (Len(doc.tokens) + 1) /\ pos \in Nat
         /\ Shaped(store)
<1>1. Kept(pc, stack, store) /\ Behaved
  BY DEF Parsing
<1>2. stack \in Seq(Frames) /\ Len(stack) >= 1 /\ stack[1].kind = "loop"
  BY <1>1 DEF Kept, Stacked
<1>3. Len(stack) \in Nat
  BY <1>2, LenProperties
<1>4. pos \in 1 .. (Len(doc.tokens) + 1) /\ pos \in Nat
  BY DocumentIs
<1>5. Shaped(store)
  BY DEF Parsing, Typed
<1> QED
  BY <1>1, <1>2, <1>3, <1>4, <1>5

LEMMA InitializeStep ==
  ASSUME Parsing, Initialize
  PROVE  Parsing'
<1>1. Kept("start", stack, store) /\ Behaved /\ pos \in 1 .. (Len(doc.tokens) + 1)
      /\ stack \in Seq(Frames)
  BY BeforeStep DEF Initialize, Running
<1>2. /\ Settled(stack, store) /\ Stored(store, ListRoots(stack))
      /\ Waiting(stack[Len(stack)]) /\ Len(stack) = 1
  BY <1>1, KeptStart
<1>3. Shaped(store)
  BY <1>2 DEF Stored
<1>4. /\ store' = WithNamed(store, NULL, <<"name">>, 2, <<<<"/">>>>)
      /\ doc' = doc /\ pos' = pos /\ stack' = stack
  BY DEF Initialize
<1>5. Shaped(store') /\ GrownTree(store, store')
  BY <1>3, <1>4, NamedKeeps
<1>6. Pointers(stack, store) /\ Counted(store) /\ Framed(stack)
  BY <1>2 DEF Settled
<1>7. Pointers(stack, store') /\ Stored(store', ListRoots(stack)) /\ Counted(store')
  BY <1>1, <1>2, <1>5, <1>6, GrownKeeps
<1>8. stack[1].tag = Unset /\ pos = 1
  BY <1>1 DEF Behaved, Initialize
<1>9. Asking(stack, store')
  BY <1>2, <1>8 DEF Asking
<1>10. Kept("failed", stack, store') /\ Kept("parse", stack, store')
  BY <1>2, <1>6, <1>7, <1>9, KeptParse, KeptFailed DEF Settled
<1>11. CASE store'.rootNode = NULL
  <2>1. pc' = "halted"
    BY <1>11 DEF Initialize
  <2>2. Typed(stack, store')
    BY <1>10, KeptTyped
  <2>3. Typed(stack', store')
    BY <1>4, <2>2
  <2>4. Typed(stack, store)'
    BY <2>3 DEF Typed, Pointers, Shaped, Inside, Pooled
  <2> QED
    BY <1>4, <2>1, <2>4 DEF Parsing, Running, Status
<1>12. CASE store'.rootNode # NULL
  <2>1. pc' = "parse"
    BY <1>12 DEF Initialize
  <2>2. Behaved'
    BY <1>2, <1>4, <1>8, <2>1 DEF Behaved
  <2>3. Kept(pc', stack', store')
    BY <1>4, <1>10, <2>1
  <2> QED
    BY <1>1, <1>4, <2>1, <2>2, <2>3, StepRuns
<1> QED
  BY <1>11, <1>12

LEMMA LoopStep ==
  ASSUME Parsing, LoopSkip \/ LoopStray \/ LoopFree \/ LoopFail
  PROVE  Parsing'
<1>1. CASE LoopSkip
  <2>1. /\ pc = "returned" /\ Top.kind = "loop" /\ Top.tag = NULL /\ pc' = "parse"
        /\ doc' = doc /\ pos' = pos /\ stack' = stack /\ store' = store
    BY <1>1 DEF LoopSkip, InLoop
  <2>2. Kept("returned", stack, store) /\ Behaved /\ pos \in 1 .. (Len(doc.tokens) + 1)
    BY <2>1, BeforeStep DEF Running
  <2>3. Kept("parse", stack, store)
    BY <2>1, <2>2, LoopSkipKeeps DEF Top
  <2>4. Behaved'
    <3>1. Quiet' <=> Quiet
      BY <2>1 DEF Quiet
    <3>2. Quiet => /\ Len(stack) = 1
                   /\ stack[1].tag \in {Unset, NULL}
                   /\ pos > 1 /\ doc.tokens[1].tag # "plist" => stack[1].tag = NULL
      BY <2>1, <2>2 DEF Behaved
    <3> QED
      BY <2>1, <3>1, <3>2 DEF Behaved
  <2>5. Kept(pc', stack', store')
    BY <2>1, <2>3
  <2> QED
    BY <2>1, <2>2, <2>4, <2>5, StepRuns
<1>2. CASE LoopStray
  <2>1. /\ pc = "returned" /\ pc' = "undefined"
        /\ doc' = doc /\ pos' = pos /\ stack' = stack /\ store' = store
    BY <1>2 DEF LoopStray, InLoop
  <2> QED
    BY <2>1, DocumentIs, StepHalts
<1>3. CASE LoopFree
  <2>1. /\ pc = "returned" /\ Top.kind = "loop" /\ pc' = "parse"
        /\ Top.tag \notin {Unset, NULL} \cup Range(store.free)
        /\ doc' = doc /\ pos' = pos /\ stack' = stack
        /\ store' = XMLFreeTag(store, Top.tag)
    BY <1>3 DEF LoopFree, LoopTag, InLoop
  <2>2. Kept("returned", stack, store) /\ pos \in 1 .. (Len(doc.tokens) + 1)
    BY <2>1, BeforeStep DEF Running
  <2>3. Kept("parse", stack, store')
    BY <2>1, <2>2, LoopFreeKeeps DEF Top
  <2>4. ~Quiet'
    BY <2>1, DeepNotQuiet, StillNotQuiet
  <2>5. Kept(pc', stack', store')
    BY <2>1, <2>3
  <2> QED
    BY <2>1, <2>2, <2>4, <2>5, StepKeeps
<1>4. CASE LoopFail
  <2>1. /\ pc = "failed" /\ Top.kind = "loop" /\ pc' = "false"
        /\ doc' = doc /\ pos' = pos /\ stack' = stack /\ store' = store
    BY <1>4 DEF LoopFail, InLoop
  <2>2. Kept("failed", stack, store) /\ pos \in 1 .. (Len(doc.tokens) + 1)
    BY <2>1, BeforeStep DEF Running
  <2>3. Kept("false", stack, store)
    BY <2>1, <2>2, LoopFailKeeps DEF Top
  <2>5. Kept(pc', stack', store')
    BY <2>1, <2>3
  <2> QED
    BY <2>1, <2>2, <2>5, StepEnds
<1> QED
  BY <1>1, <1>2, <1>3, <1>4

\* An activation of one of the walk's functions.
WalkFrame(kind, list, node) == [Frame(kind) EXCEPT !.list = list, !.node = node]

LEMMA FrameIs ==
  ASSUME NEW s, Len(s.tags) \in Nat, Len(s.nodes) \in Nat,
         NEW kind \in {"entries", "members"}, NEW list \in 0 .. Len(s.tags),
         NEW node \in 0 .. Len(s.nodes)
  PROVE  LET f == WalkFrame(kind, list, node) IN
         f \in Frames /\ f.kind = kind /\ Led(f, s)
<1> DEFINE f == WalkFrame(kind, list, node)
<1>1. list \in Nat /\ node \in Nat /\ <<>> \in Strings
  BY EmptySeq DEF Strings
<1>2. f = [kind |-> kind, type |-> "none", string |-> <<>>, list |-> list,
           tag |-> Unset, node |-> node]
  <2> DEFINE g == Frame(kind)
  <2>1. g = [kind |-> kind, type |-> "none", string |-> <<>>, list |-> NULL,
             tag |-> Unset, node |-> NULL]
    BY DEF Frame
  <2>2. f = [g EXCEPT !.list = list, !.node = node]
    BY DEF WalkFrame
  <2> HIDE DEF g, f
  <2> QED
    BY <2>1, <2>2
<1> HIDE DEF f
<1>3. Unset \in Unset .. Len(s.tags)
  BY DEF Unset
<1>4. f \in Frames
  BY <1>1, <1>2 DEF Frames
<1>5. /\ f.kind = kind /\ f.list = list /\ f.tag = Unset /\ f.node = node
  BY <1>2
<1>6. f \in Frames /\ f.kind = kind /\ Led(f, s)
  BY <1>3, <1>4, <1>5 DEF Led
<1> QED
  BY <1>6 DEF f

LEMMA LoopDictStep ==
  ASSUME Parsing, LoopDict
  PROVE  Parsing'
<1> DEFINE tag == Top.tag
           list == store.tags[tag].tag
           f == WalkFrame("entries", list, store.rootNode)
           new == Append(stack, f)
<1>1. /\ pc = "returned" /\ Top.kind = "loop" /\ pc' = "populate"
      /\ tag \notin {Unset, NULL} \cup Range(store.free)
      /\ doc' = doc /\ pos' = pos /\ store' = store
      /\ stack' = Append(stack, Entries(tag, store.rootNode))
  BY DEF LoopDict, LoopTag, InLoop
<1>2. stack' = new
  BY <1>1 DEF Entries, WalkFrame
<1>3. /\ Kept("returned", stack, store) /\ pos \in 1 .. (Len(doc.tokens) + 1)
      /\ stack \in Seq(Frames) /\ Len(stack) >= 1 /\ stack[1].kind = "loop"
  BY <1>1, BeforeStep DEF Running
<1>4. Fresh(stack[Len(stack)], store)
  BY <1>1 DEF Fresh, Top
<1>5. Settled(stack, store) /\ Stored(store, ListRoots(stack) \cup {tag})
  BY <1>3, <1>4, KeptAnswer DEF Top
<1>6. Framed(stack) /\ Pointers(stack, store) /\ Counted(store)
  BY <1>5 DEF Settled
<1>7. Len(stack) = 1 /\ ListRoots(stack) = {}
  BY <1>1, <1>6, LoopTop DEF Top
<1>8. /\ Shaped(store) /\ Inside(store) /\ Pooled(store)
  BY <1>5 DEF Stored
<1>9. /\ Len(store.tags) \in Nat /\ Len(store.nodes) \in Nat /\ tag \in DOMAIN store.tags
  BY <1>5, StoreLens
<1>10. list \in 0 .. Len(store.tags)
  BY <1>8, <1>9, TagsAre DEF Pooled
<1>11. store.rootNode \in 0 .. Len(store.nodes)
  BY <1>8 DEF Shaped
<1>12. f \in Frames /\ f.kind = "entries" /\ Led(f, store)
  BY <1>9, <1>10, <1>11, FrameIs
<1>13. stack[1].tag = tag
  BY <1>7 DEF Top
<1> HIDE DEF f, tag
<1>14. Pointers(new, store)
  BY <1>3, <1>6, <1>12, PointersPushed
<1>15. /\ new \in Seq(Frames) /\ Len(new) = Len(stack) + 1
       /\ new[Len(stack) + 1] = f
       /\ \A k \in 1 .. Len(stack) : new[k] = stack[k]
  BY <1>3, <1>12, PushedIs
<1> HIDE DEF new
<1>16. Len(new) = 2 /\ new[2] = f /\ new[1] = stack[1]
  BY <1>7, <1>15
<1>17. Strolling(new)
  BY <1>3, <1>12, <1>15, <1>16 DEF Strolling, Walkers
<1>18. Stored(store, {new[1].tag})
  BY <1>5, <1>7, <1>13, <1>16
<1>19. Kept("populate", new, store)
  BY <1>6, <1>14, <1>17, <1>18, KeptWalk
<1>20. Kept(pc', stack', store')
  BY <1>1, <1>2, <1>19
<1> QED
  BY <1>1, <1>3, <1>20, StepEnds

\* An element has been made, or there was no tag for it.
LEMMA MakeStep ==
  ASSUME Parsing, pc = "parse", pos <= Len(doc.tokens), Token.tag \in Known \ {"plist"},
         doc' = doc, pos' \in 1 .. (Len(doc.tokens) + 1), pos' > pos,
         NEW type \in TagTypes, NEW string \in Strings,
         \/ NewTagRefused(store) /\ Fail /\ UNCHANGED store
         \/ /\ ~NewTagRefused(store)
            /\ string # <<>> /\ NewSymbolRefused(Stocked(store), string)
            /\ Panic
         \/ /\ ~NewTagRefused(store)
            /\ string # <<>> => ~NewSymbolRefused(Stocked(store), string)
            /\ Deliver(stack, Symbol(store, string), type, string, NULL)
  PROVE  Parsing'
<1>1. Kept("parse", stack, store)
  BY BeforeStep DEF Running
<1>2. CASE NewTagRefused(store) /\ Fail /\ UNCHANGED store
  <2>1. pc' = "failed" /\ stack' = stack /\ store' = store
    BY <1>2 DEF Fail
  <2>2. Kept(pc', stack', store')
    BY <1>1, <2>1, FailKeeps
  <2> QED
    BY <2>1, <2>2, StepEnds
<1>3. CASE Panic
  <2>1. pc' = "halted" /\ stack' = stack /\ store' = store
    BY <1>3 DEF Panic
  <2> QED
    BY <2>1, StepHalts
<1>4. CASE /\ ~NewTagRefused(store)
           /\ string # <<>> => ~NewSymbolRefused(Stocked(store), string)
           /\ Deliver(stack, Symbol(store, string), type, string, NULL)
  <2>1. /\ stack' = Retag(stack, NewTag(Symbol(store, string)))
        /\ store' = WithTag(Symbol(store, string), type, string, NULL)
        /\ pc' = "returned"
    BY <1>4 DEF Deliver, Retag
  <2> DEFINE n == NewTag(Symbol(store, string))
             r == WithTag(Symbol(store, string), type, string, NULL)
             new == Retag(stack, n)
  <2>2. Kept("returned", new, r) /\ Fresh(new[Len(new)], r)
    BY <1>1, <1>4, MakeKeeps
  <2> HIDE DEF n, r, new
  <2>3. stack' = new /\ store' = r
    BY <2>1 DEF n, r, new
  <2>4. Kept(pc', stack', store') /\ Fresh(stack'[Len(stack')], store')
    BY <2>1, <2>2, <2>3
  <2>5. pos' \in Nat
    BY DocumentIs
  <2>6. ~Quiet'
    BY <2>5, NotQuiet
  <2> QED
    BY <2>1, <2>4, <2>6, StepKeeps
<1> QED
  BY <1>2, <1>3, <1>4

LEMMA TagNames ==
  /\ DOMAIN EndTag = {"key", "string", "integer", "data", "date"}
  /\ DOMAIN Whole = {"emptyDict", "emptyArray", "false", "true"}
  /\ \A tag \in DOMAIN Whole : Whole[tag] \in TagTypes
  /\ \A tag \in DOMAIN EndTag \cup Lists : tag \in TagTypes
  /\ DOMAIN EndTag \cup DOMAIN Whole \cup Lists \subseteq Known \ {"plist"}
<1>1. DOMAIN EndTag = {"key", "string", "integer", "data", "date"}
  BY DEF EndTag
<1>2. DOMAIN Whole = {"emptyDict", "emptyArray", "false", "true"}
  BY DEF Whole
<1>3. \A tag \in DOMAIN Whole : Whole[tag] \in TagTypes
  BY DEF TagTypes, Range
<1>4. \A tag \in DOMAIN EndTag \cup Lists : tag \in TagTypes
  BY DEF TagTypes
<1>5. DOMAIN EndTag \cup DOMAIN Whole \cup Lists \subseteq Known \ {"plist"}
  BY <1>1, <1>2 DEF Known, Lists
<1> QED
  BY <1>1, <1>2, <1>3, <1>4, <1>5

LEMMA NextPos ==
  ASSUME Parsing, pos <= Len(doc.tokens)
  PROVE  /\ pos + 1 \in 1 .. (Len(doc.tokens) + 1) /\ pos + 1 > pos /\ pos + 1 \in Nat
         /\ pos \in DOMAIN doc.tokens
  BY DocumentIs

LEMMA ParseFailStep ==
  ASSUME Parsing, ParseEnd \/ ParseUnended
  PROVE  Parsing'
<1>1. /\ pc = "parse" /\ pc' = "failed" /\ doc' = doc /\ pos' = pos
      /\ stack' = stack /\ store' = store
  BY DEF ParseEnd, ParseUnended, AtToken, Fail
<1>2. Kept("parse", stack, store) /\ pos \in 1 .. (Len(doc.tokens) + 1)
  BY <1>1, BeforeStep DEF Running
<1>3. Kept(pc', stack', store')
  BY <1>1, <1>2, FailKeeps
<1> QED
  BY <1>1, <1>2, <1>3, StepEnds

LEMMA ParsePListStep ==
  ASSUME Parsing, ParsePList
  PROVE  Parsing'
<1>1. /\ pc = "parse" /\ pc' = "returned" /\ doc' = doc /\ pos' = pos + 1
      /\ stack' = stack /\ store' = store /\ pos <= Len(doc.tokens)
      /\ doc.tokens[pos].tag = "plist"
  BY DEF ParsePList, AtToken, Token
<1>2. /\ Kept("parse", stack, store) /\ Behaved /\ pos \in Nat
      /\ pos' \in 1 .. (Len(doc.tokens) + 1) /\ pos \in DOMAIN doc.tokens
      /\ pos' \in Nat /\ pos' >= pos /\ pos >= 1
  BY <1>1, BeforeStep, NextPos DEF Running
<1>3. Kept("returned", stack, store)
  BY <1>2, NothingKeeps
<1>4. Kept(pc', stack', store')
  BY <1>1, <1>3
<1>5. Quiet => /\ Len(stack) = 1
               /\ stack[1].tag \in {Unset, NULL}
               /\ pos > 1 /\ doc.tokens[1].tag # "plist" => stack[1].tag = NULL
  BY <1>1, <1>2 DEF Behaved
<1>6. Quiet' => Quiet
  BY <1>1, <1>2, QuietBefore
<1>7. doc.tokens[1].tag # "plist" => pos > 1
  BY <1>1, <1>2
<1>8. Headed => Quiet /\ doc.tokens[1].tag # "plist"
  <2> SUFFICES ASSUME Headed PROVE Quiet /\ doc.tokens[1].tag # "plist"
    OBVIOUS
  <2>1. /\ doc.tokens[1].tag # "plist"
        /\ \A j \in 1 .. pos : doc.tokens[j].tag \notin Known \ {"plist"}
    BY <1>1, <1>2 DEF Headed
  <2>2. \A j \in 1 .. (pos - 1) : j \in 1 .. pos
    BY <1>2
  <2> QED
    BY <2>1, <2>2 DEF Quiet
<1>9. Headed' <=> Headed
  BY <1>1 DEF Headed
<1>10. Quiet' => /\ Len(stack) = 1 /\ stack[1].tag \in {Unset, NULL}
                 /\ doc.tokens[1].tag # "plist" => stack[1].tag = NULL
  BY <1>5, <1>6, <1>7
<1>11. Headed' => Top'.tag = NULL
  <2>1. Headed => Len(stack) = 1 /\ stack[1].tag = NULL
    BY <1>5, <1>7, <1>8
  <2> QED
    BY <1>1, <1>9, <2>1 DEF Top
<1>12. Behaved'
  BY <1>1, <1>10, <1>11 DEF Behaved
<1> QED
  BY <1>1, <1>2, <1>4, <1>12, StepRuns

LEMMA ParseOtherStep ==
  ASSUME Parsing, ParseOther
  PROVE  Parsing'
<1>1. /\ pc = "parse" /\ pc' = "returned" /\ doc' = doc /\ pos' = pos + 1
      /\ stack' = Retag(stack, NULL) /\ store' = store /\ pos <= Len(doc.tokens)
  BY DEF ParseOther, Retag
<1>2. /\ Kept("parse", stack, store) /\ Behaved /\ pos \in Nat
      /\ pos' \in 1 .. (Len(doc.tokens) + 1)
      /\ pos' \in Nat /\ pos' >= pos
      /\ stack \in Seq(Frames) /\ Len(stack) >= 1
  BY <1>1, BeforeStep, NextPos DEF Running
<1> DEFINE new == Retag(stack, NULL)
<1>3. Kept("returned", new, store) /\ new[Len(new)].tag = NULL
  BY <1>2, ClearKeeps
<1>l. Len(new) = Len(stack)
  BY <1>2 DEF Retag
<1> HIDE DEF new
<1>n. stack' = new
  BY <1>1 DEF new
<1>4. Kept(pc', stack', store')
  BY <1>1, <1>3, <1>n
<1>5. Top'.tag = NULL
  BY <1>3, <1>n DEF Top
<1>6. Quiet' => Len(stack) = 1
  <2>1. Quiet' => Quiet
    BY <1>1, <1>2, QuietBefore
  <2> QED
    BY <1>1, <1>2, <2>1 DEF Behaved
<1>7. Quiet' => Len(stack') = 1 /\ stack'[1].tag = NULL
  BY <1>3, <1>6, <1>l, <1>n
<1>8. Behaved'
  BY <1>1, <1>5, <1>7 DEF Behaved
<1> QED
  BY <1>1, <1>2, <1>4, <1>8, StepRuns

LEMMA ParseWholeStep ==
  ASSUME Parsing, ParseWhole
  PROVE  Parsing'
<1> DEFINE type == Whole[Token.tag]
<1>1. /\ pc = "parse" /\ doc' = doc /\ pos' = pos + 1
      /\ pos <= Len(doc.tokens) /\ Token.tag \in DOMAIN Whole
  BY DEF ParseWhole, AtToken
<1>2. \/ NewTagRefused(store) /\ Fail /\ UNCHANGED store
      \/ ~NewTagRefused(store) /\ Deliver(stack, store, type, <<>>, NULL)
  BY DEF ParseWhole
<1>3. type \in TagTypes /\ Token.tag \in Known \ {"plist"} /\ <<>> \in Strings
  BY <1>1, TagNames, EmptySeq DEF Strings
<1>4. Symbol(store, <<>>) = store
  BY DEF Symbol
<1>5. pos' \in 1 .. (Len(doc.tokens) + 1) /\ pos' > pos
  BY <1>1, NextPos
<1> HIDE DEF type
<1>6. \/ NewTagRefused(store) /\ Fail /\ UNCHANGED store
      \/ /\ ~NewTagRefused(store)
         /\ <<>> # <<>> => ~NewSymbolRefused(Stocked(store), <<>>)
         /\ Deliver(stack, Symbol(store, <<>>), type, <<>>, NULL)
  BY <1>2, <1>4
<1> QED
  BY <1>1, <1>3, <1>5, <1>6, MakeStep

LEMMA ParseStringStep ==
  ASSUME Parsing, ParseString
  PROVE  Parsing'
<1> DEFINE string == TextHere
<1>1. /\ pc = "parse" /\ doc' = doc /\ pos' = EndAt + 1 /\ EndTags # {}
      /\ pos <= Len(doc.tokens) /\ Token.tag \in DOMAIN EndTag
  BY TagNames DEF ParseString, AtToken
<1>3. "string" \in TagTypes /\ Token.tag \in Known \ {"plist"}
  BY <1>1, TagNames
<1>4. string \in Strings /\ string # <<>>
  BY <1>1, TextIs
<1>5. pos' \in 1 .. (Len(doc.tokens) + 1) /\ pos' > pos
  <2>1. EndAt \in Nat /\ EndAt > pos /\ EndAt + 1 \in 1 .. (Len(doc.tokens) + 1) /\ pos \in Nat
    BY <1>1, TextIs, DocumentIs
  <2> QED
    BY <1>1, <2>1
<1>6. Symbol(store, string) = NewSymbol(Stocked(store), string)
  BY <1>4 DEF Symbol
<1>2. \/ NewTagRefused(store) /\ Fail /\ UNCHANGED store
      \/ ~NewTagRefused(store) /\ NewSymbolRefused(Stocked(store), string) /\ Panic
      \/ /\ ~NewTagRefused(store) /\ ~NewSymbolRefused(Stocked(store), string)
         /\ Deliver(stack, NewSymbol(Stocked(store), string), "string", string, NULL)
  BY DEF ParseString
<1> HIDE DEF string
<1>7. \/ NewTagRefused(store) /\ Fail /\ UNCHANGED store
      \/ /\ ~NewTagRefused(store)
         /\ string # <<>> /\ NewSymbolRefused(Stocked(store), string)
         /\ Panic
      \/ /\ ~NewTagRefused(store)
         /\ string # <<>> => ~NewSymbolRefused(Stocked(store), string)
         /\ Deliver(stack, Symbol(store, string), "string", string, NULL)
  BY <1>2, <1>4, <1>6
<1> QED
  BY <1>1, <1>3, <1>4, <1>5, <1>7, MakeStep

LEMMA ParseTextlessStep ==
  ASSUME Parsing, ParseTextless
  PROVE  Parsing'
<1> DEFINE type == Token.tag
<1>1. /\ pc = "parse" /\ doc' = doc /\ pos' = EndAt + 1 /\ EndTags # {}
      /\ pos <= Len(doc.tokens) /\ Token.tag \in DOMAIN EndTag
  BY TagNames DEF ParseTextless, AtToken
<1>2. \/ NewTagRefused(store) /\ Fail /\ UNCHANGED store
      \/ ~NewTagRefused(store) /\ Deliver(stack, store, type, <<>>, NULL)
  BY DEF ParseTextless
<1>3. type \in TagTypes /\ Token.tag \in Known \ {"plist"} /\ <<>> \in Strings
  BY <1>1, TagNames, EmptySeq DEF Strings
<1>4. Symbol(store, <<>>) = store
  BY DEF Symbol
<1>5. pos' \in 1 .. (Len(doc.tokens) + 1) /\ pos' > pos
  <2>1. EndAt \in Nat /\ EndAt > pos /\ EndAt + 1 \in 1 .. (Len(doc.tokens) + 1) /\ pos \in Nat
    BY <1>1, TextIs, DocumentIs
  <2> QED
    BY <1>1, <2>1
<1> HIDE DEF type
<1>6. \/ NewTagRefused(store) /\ Fail /\ UNCHANGED store
      \/ /\ ~NewTagRefused(store)
         /\ <<>> # <<>> => ~NewSymbolRefused(Stocked(store), <<>>)
         /\ Deliver(stack, Symbol(store, <<>>), type, <<>>, NULL)
  BY <1>2, <1>4
<1> QED
  BY <1>1, <1>3, <1>5, <1>6, MakeStep

LEMMA OpenStep ==
  ASSUME Parsing, OpenList \/ OpenKey
  PROVE  Parsing'
<1>1. /\ pc = "parse" /\ pc' = "parse" /\ doc' = doc /\ store' = store
      /\ pos <= Len(doc.tokens) /\ Token.tag \in Known \ {"plist"}
  BY TagNames DEF OpenList, OpenKey, AtToken
<1>2. Kept("parse", stack, store)
  BY <1>1, BeforeStep DEF Running
<1>3. /\ pos' \in 1 .. (Len(doc.tokens) + 1) /\ pos' > pos /\ pos' \in Nat
  <2>1. CASE OpenList
    BY <1>1, <2>1, NextPos DEF OpenList
  <2>2. CASE OpenKey
    <3>1. EndTags # {} /\ pos' = EndAt + 1
      BY <2>2 DEF OpenKey
    <3>2. EndAt \in Nat /\ EndAt > pos /\ EndAt + 1 \in 1 .. (Len(doc.tokens) + 1) /\ pos \in Nat
      BY <1>1, <3>1, TextIs, DocumentIs
    <3> QED
      BY <3>1, <3>2
  <2> QED
    BY <2>1, <2>2
<1>4. ~Quiet'
  BY <1>1, <1>3, NotQuiet
<1>5. <<>> \in Strings /\ NULL \in Nat
  BY EmptySeq DEF Strings, NULL
<1>6. CASE OpenList
  <2> DEFINE f == [Frame("list") EXCEPT !.type = Token.tag]
  <2>1. stack' = Append(stack, f) /\ Token.tag \in Lists
    BY <1>6 DEF OpenList, AtToken
  <2>2. f = [kind |-> "list", type |-> Token.tag, string |-> <<>>, list |-> NULL,
             tag |-> Unset, node |-> NULL]
    BY DEF Frame
  <2> HIDE DEF f
  <2>3. /\ f \in Frames /\ f.kind = "list" /\ f.list = NULL /\ f.tag = Unset
        /\ f.node = NULL
    BY <1>5, <2>1, <2>2 DEF Frames
  <2>4. Kept("parse", Append(stack, f), store)
    BY <1>2, <2>3, OpenKeeps
  <2>5. Kept(pc', stack', store')
    BY <1>1, <2>1, <2>4
  <2> QED
    BY <1>1, <1>3, <1>4, <2>5, StepKeeps
<1>7. CASE OpenKey
  <2> DEFINE f == [Frame("key") EXCEPT !.string = TextHere]
  <2>1. stack' = Append(stack, f) /\ EndTags # {}
    BY <1>7 DEF OpenKey
  <2>2. f = [kind |-> "key", type |-> "none", string |-> TextHere, list |-> NULL,
             tag |-> Unset, node |-> NULL]
    BY DEF Frame
  <2>3. TextHere \in Strings /\ TextHere # <<>>
    BY <1>1, <2>1, TextIs
  <2> HIDE DEF f
  <2>4. /\ f \in Frames /\ f.kind = "key" /\ f.list = NULL /\ f.tag = Unset
        /\ f.node = NULL /\ f.string # <<>>
    BY <1>5, <2>2, <2>3 DEF Frames
  <2>5. Kept("parse", Append(stack, f), store)
    BY <1>2, <2>4, OpenKeeps
  <2>6. Kept(pc', stack', store')
    BY <1>1, <2>1, <2>5
  <2> QED
    BY <1>1, <1>3, <1>4, <2>6, StepKeeps
<1> QED
  BY <1>6, <1>7

\* ParseTagList and ParseTagKey are activations above prepare_devicetree's.
LEMMA Inner ==
  ASSUME Parsing, Running, Top.kind \in {"list", "key"}, pc \in {"returned", "failed"}
  PROVE  Len(stack) >= 2
<1>1. Kept(pc, stack, store) /\ stack \in Seq(Frames) /\ Len(stack) >= 1 /\ Len(stack) \in Nat
      /\ stack[1].kind = "loop"
  BY BeforeStep
<1>2. Len(stack) # 1
  BY <1>1 DEF Top
<1> DEFINE n == Len(stack)
<1>3. n \in Nat /\ n >= 1 /\ n # 1
  BY <1>1, <1>2
<1> HIDE DEF n
<1>4. n >= 2
  BY <1>3
<1> QED
  BY <1>4 DEF n

LEMMA StrayStep ==
  ASSUME Parsing, ListStray \/ ListRing \/ KeyStray
  PROVE  Parsing'
<1>1. /\ pc' \in {"undefined", "ring"}
      /\ doc' = doc /\ pos' = pos /\ stack' = stack /\ store' = store
  BY DEF ListStray, ListRing, KeyStray
<1> QED
  BY <1>1, DocumentIs, StepHalts

LEMMA ListLinkStep ==
  ASSUME Parsing, ListLink
  PROVE  Parsing'
<1> DEFINE r == Linked(store, Top.list, Top.tag)[1]
           new == [stack EXCEPT ![Len(stack)].list = Top.tag]
<1>1. /\ pc = "returned" /\ Top.kind = "list" /\ pc' = "parse"
      /\ Top.tag \notin {Unset, NULL, Top.list} /\ doc' = doc /\ pos' = pos
      /\ store' = r /\ stack' = new
  BY DEF ListLink, InList, Linked
<1>2. Kept("returned", stack, store) /\ pos \in 1 .. (Len(doc.tokens) + 1)
  BY <1>1, BeforeStep DEF Running
<1>3. Kept("parse", new, r)
  BY <1>1, <1>2, ListLinkKeeps DEF Top
<1> HIDE DEF new, r
<1>4. ~Quiet'
  BY <1>1, DeepNotQuiet, StillNotQuiet
<1>5. Kept(pc', stack', store')
  BY <1>1, <1>3
<1> QED
  BY <1>1, <1>2, <1>4, <1>5, StepKeeps

LEMMA ListEndStep ==
  ASSUME Parsing, ListEnd
  PROVE  Parsing'
<1>1. /\ pc = "returned" /\ Top.kind = "list" /\ Top.tag = NULL
      /\ doc' = doc /\ pos' = pos
  BY DEF ListEnd, InList
<1>2. /\ Kept("returned", stack, store) /\ pos \in 1 .. (Len(doc.tokens) + 1)
      /\ stack \in Seq(Frames) /\ Len(stack) >= 1 /\ Len(stack) >= 2
  BY <1>1, BeforeStep, Inner DEF Running
<1>p. Pop = Popped(stack)
  BY DEF Pop, Popped
<1>3. CASE NewTagRefused(store)
  <2>1. /\ store' = XMLFreeTag(store, Top.list) /\ stack' = Popped(stack)
        /\ pc' = "failed"
    BY <1>3, <1>p DEF ListEnd
  <2>2. Kept("failed", Popped(stack), store')
    BY <1>1, <1>2, <2>1, ListBackKeeps DEF Top
  <2>3. Kept(pc', stack', store')
    BY <2>1, <2>2
  <2> QED
    BY <1>1, <1>2, <2>1, <2>3, StepEnds
<1>4. CASE ~NewTagRefused(store)
  <2>s. Symbol(store, <<>>) = store
    BY DEF Symbol
  <2> DEFINE n == NewTag(Symbol(store, <<>>))
             r == WithTag(Symbol(store, <<>>), Top.type, <<>>, Top.list)
             new == Retag(Popped(stack), n)
  <2>1. stack' = new /\ store' = r /\ pc' = "returned"
    BY <1>4, <1>p, <2>s DEF ListEnd, Deliver, Retag
  <2>2. Top.type \in TagTypes
    <3>1. Top \in Frames
      BY <1>2, StackIs DEF Top
    <3> QED
      BY <3>1 DEF Frames, TagTypes
  <2>3. Kept("returned", new, r) /\ Fresh(new[Len(new)], r)
    BY <1>1, <1>2, <1>4, <2>2, ListMakeKeeps DEF Top
  <2> HIDE DEF n, r, new
  <2>4. Kept(pc', stack', store') /\ Fresh(stack'[Len(stack')], store')
    BY <2>1, <2>3
  <2>5. ~Quiet'
    BY <1>1, <1>2, DeepNotQuiet, StillNotQuiet
  <2> QED
    BY <1>1, <1>2, <2>1, <2>4, <2>5, StepKeeps
<1> QED
  BY <1>3, <1>4

LEMMA BackStep ==
  ASSUME Parsing, ListFail \/ KeyFail
  PROVE  Parsing'
<1>1. pc = "failed" /\ pc' = "failed" /\ doc' = doc /\ pos' = pos /\ stack' = Popped(stack)
  BY DEF ListFail, KeyFail, InList, InKey, Pop, Popped
<1>2. Kept("failed", stack, store) /\ pos \in 1 .. (Len(doc.tokens) + 1)
  BY <1>1, BeforeStep DEF Running
<1>3. Kept("failed", Popped(stack), store')
  <2>1. CASE ListFail
    <3>1. Top.kind = "list" /\ store' = XMLFreeTag(store, Top.list)
      BY <2>1 DEF ListFail, InList
    <3> QED
      BY <1>2, <3>1, ListBackKeeps DEF Top
  <2>2. CASE KeyFail
    <3>1. Top.kind = "key" /\ store' = store
      BY <2>2 DEF KeyFail, InKey
    <3> QED
      BY <1>2, <3>1, KeyFailKeeps DEF Top
  <2> QED
    BY <2>1, <2>2
<1>4. Kept(pc', stack', store')
  BY <1>1, <1>3
<1> QED
  BY <1>1, <1>2, <1>4, StepEnds

LEMMA KeyEndStep ==
  ASSUME Parsing, KeyEnd
  PROVE  Parsing'
<1>1. /\ pc = "returned" /\ Top.kind = "key" /\ Top.tag # Unset
      /\ doc' = doc /\ pos' = pos
  BY DEF KeyEnd, InKey
<1>2. /\ Kept("returned", stack, store) /\ pos \in 1 .. (Len(doc.tokens) + 1)
      /\ stack \in Seq(Frames) /\ Len(stack) >= 1 /\ Len(stack) >= 2 /\ Len(stack) \in Nat
  BY <1>1, BeforeStep, Inner DEF Running
<1>p. Pop = Popped(stack)
  BY DEF Pop, Popped
<1>t. Top \in Frames
  BY <1>2, StackIs DEF Top
<1>u. Top.string \in Strings
  BY <1>t DEF Frames
<1>v. Top.string # <<>>
  <2>1. Parsers(stack)
    BY <1>2 DEF Kept, Stacked
  <2>2. Len(stack) \in 2 .. Len(stack)
    BY <1>2
  <2> QED
    BY <1>1, <2>1, <2>2 DEF Parsers, Top
<1>3. CASE NewTagRefused(store)
  <2>1. /\ store' = XMLFreeTag(store, Top.tag) /\ stack' = Popped(stack)
        /\ pc' = "failed"
    BY <1>3, <1>p DEF KeyEnd
  <2>2. Kept("failed", Popped(stack), store')
    BY <1>1, <1>2, <2>1, KeyBackKeeps DEF Top
  <2>3. Kept(pc', stack', store')
    BY <2>1, <2>2
  <2> QED
    BY <1>1, <1>2, <2>1, <2>3, StepEnds
<1>4. CASE ~NewTagRefused(store) /\ NewSymbolRefused(Stocked(store), Top.string)
  <2>1. pc' = "halted" /\ stack' = stack /\ store' = store
    BY <1>4 DEF KeyEnd, Panic
  <2> QED
    BY <1>1, <1>2, <2>1, StepHalts
<1>5. CASE ~NewTagRefused(store) /\ ~NewSymbolRefused(Stocked(store), Top.string)
  <2> DEFINE string == Top.string
  <2>s. Symbol(store, string) = NewSymbol(Stocked(store), string)
    BY <1>v DEF Symbol
  <2> DEFINE n == NewTag(Symbol(store, string))
             r == WithTag(Symbol(store, string), "key", string, Top.tag)
             new == Retag(Popped(stack), n)
  <2>1. stack' = new /\ store' = r /\ pc' = "returned"
    BY <1>5, <1>p, <2>s DEF KeyEnd, Deliver, Retag
  <2>3. Kept("returned", new, r) /\ Fresh(new[Len(new)], r)
    BY <1>1, <1>2, <1>5, <1>u, KeyMakeKeeps DEF Top
  <2> HIDE DEF n, r, new
  <2>4. Kept(pc', stack', store') /\ Fresh(stack'[Len(stack')], store')
    BY <2>1, <2>3
  <2>5. ~Quiet'
    BY <1>1, <1>2, DeepNotQuiet, StillNotQuiet
  <2> QED
    BY <1>1, <1>2, <2>1, <2>4, <2>5, StepKeeps
<1> QED
  BY <1>3, <1>4, <1>5

\* The tag that the walk is at.
LEMMA HereIs ==
  ASSUME Parsing, pc = "populate", Top.kind # "loop", Top.list # NULL
  PROVE  /\ Top.list \in DOMAIN store.tags
         /\ Here.tag \in 0 .. Len(store.tags) /\ Here.tagNext \in 0 .. Len(store.tags)
         /\ Top.node \in 0 .. Len(store.nodes)
         /\ Here.tag # NULL => Value.tag \in 0 .. Len(store.tags)
<1>1. Kept("populate", stack, store)
  BY BeforeStep DEF Running
<1>2. /\ Stored(store, {stack[1].tag}) /\ Led(stack[Len(stack)], store)
      /\ Len(store.tags) \in Nat
      /\ \A t \in DOMAIN store.tags :
            /\ store.tags[t].tag \in 0 .. Len(store.tags)
            /\ store.tags[t].tagNext \in 0 .. Len(store.tags)
  BY <1>1, WalkIs
<1>3. DOMAIN store.tags = 1 .. Len(store.tags)
  BY <1>2, StoreLens
<1>4. Top.list \in 0 .. Len(store.tags) /\ Top.node \in 0 .. Len(store.nodes)
  BY <1>2 DEF Led, Top
<1>5. Top.list \in DOMAIN store.tags
  BY <1>2, <1>3, <1>4 DEF NULL
<1>6. Here.tag \in 0 .. Len(store.tags) /\ Here.tagNext \in 0 .. Len(store.tags)
  BY <1>2, <1>5 DEF Here
<1>7. Here.tag # NULL => Here.tag \in DOMAIN store.tags
  BY <1>2, <1>3, <1>6 DEF NULL
<1>8. Here.tag # NULL => Value.tag \in 0 .. Len(store.tags)
  BY <1>2, <1>7 DEF Value
<1> QED
  BY <1>4, <1>5, <1>6, <1>8

LEMMA SameGrown ==
  ASSUME NEW s, Shaped(s)
  PROVE  GrownTree(s, s)
<1>1. Len(s.nodes) \in Nat
  BY NodesShape
<1> QED
  BY <1>1 DEF GrownTree, SamePool

LEMMA AddPropertyStep ==
  ASSUME Parsing, pc = "populate", Top.kind # "loop", Top.list # NULL,
         NEW items, AddProperty(items), doc' = doc, pos' = pos
  PROVE  Parsing'
<1>1. /\ Kept("populate", stack, store) /\ pos \in 1 .. (Len(doc.tokens) + 1)
      /\ Shaped(store)
  BY BeforeStep DEF Running
<1>2. Here.tagNext \in 0 .. Len(store.tags) /\ Top.node \in 0 .. Len(store.nodes)
  BY HereIs
<1>3. CASE store.room < 2 \/ Here.string = <<>> \/ Top.node = NULL
  <2>1. pc' = "undefined" /\ stack' = stack /\ store' = store
    BY <1>3 DEF AddProperty
  <2> QED
    BY <1>1, <2>1, StepHalts
<1>4. CASE ~(store.room < 2 \/ Here.string = <<>> \/ Top.node = NULL)
  <2>1. \E n, value : store' = WithProperty(Paid(store), Top.node, Here.string, n, value)
    BY <1>4 DEF AddProperty, Paid
  <2>2. stack' = Onward /\ pc' = pc
    BY <1>4 DEF AddProperty
  <2>3. PICK n, value :
           store' = WithProperty(Paid(store), Top.node, Here.string, n, value)
    BY <2>1
  <2>4. store.room >= 2 /\ Top.node # NULL
    <3>1. store.room \in Nat
      BY <1>1 DEF Shaped
    <3> QED
      BY <1>4, <3>1
  <2>5. Shaped(store') /\ GrownTree(store, store')
    BY <1>1, <1>2, <2>3, <2>4, EntryKeeps
  <2>6. Kept("populate", Onward, store')
    BY <1>1, <1>2, <2>5, WalkOn DEF Onward
  <2>7. Kept(pc', stack', store')
    BY <2>2, <2>6
  <2> QED
    BY <1>1, <2>2, <2>7, StepEnds
<1> QED
  BY <1>3, <1>4

LEMMA EntryStep ==
  ASSUME Parsing, EntryScalar \/ EntryArray \/ EntryChildren \/ EntrySkip
  PROVE  Parsing'
<1>1. /\ pc = "populate" /\ Top.kind = "entries" /\ Top.kind # "loop" /\ Top.list # NULL
      /\ doc' = doc /\ pos' = pos
  BY DEF EntryScalar, EntryArray, EntryChildren, EntrySkip, InWalk
<1>2. /\ Kept("populate", stack, store) /\ pos \in 1 .. (Len(doc.tokens) + 1)
      /\ Shaped(store)
  BY <1>1, BeforeStep DEF Running
<1>3. /\ Here.tagNext \in 0 .. Len(store.tags) /\ Top.node \in 0 .. Len(store.nodes)
      /\ Here.tag # NULL => Value.tag \in 0 .. Len(store.tags)
  BY <1>1, HereIs
<1>4. GrownTree(store, store)
  BY <1>2, SameGrown
<1>5. CASE Panic
  <2>1. pc' = "halted" /\ stack' = stack /\ store' = store
    BY <1>5 DEF Panic
  <2> QED
    BY <1>1, <1>2, <2>1, StepHalts
<1>6. CASE EntryScalar
  <2>1. AddProperty(<<Here.tag>>)
    BY <1>6 DEF EntryScalar
  <2> QED
    BY <1>1, <2>1, AddPropertyStep
<1>7. CASE EntryArray
  <2>1. \/ Panic
        \/ pc' = "undefined" /\ stack' = stack /\ store' = store
        \/ AddProperty(Chain(store, Value.tag))
    BY <1>7 DEF EntryArray
  <2>2. CASE pc' = "undefined" /\ stack' = stack /\ store' = store
    BY <1>1, <1>2, <2>2, StepHalts
  <2> QED
    BY <1>1, <1>5, <2>1, <2>2, AddPropertyStep
<1>8. CASE EntryChildren
  <2> DEFINE f == WalkFrame("members", Value.tag, Top.node)
  <2>1. Here.tag # NULL
    BY <1>8 DEF EntryChildren
  <2>2. Panic \/ (stack' = Append(Onward, f) /\ pc' = pc /\ store' = store)
    BY <1>8 DEF EntryChildren, WalkFrame
  <2>3. Len(store.tags) \in Nat /\ Len(store.nodes) \in Nat
    BY <1>2, WalkIs
  <2>4. f \in Frames /\ f.kind = "members" /\ Led(f, store)
    BY <1>3, <2>1, <2>3, FrameIs
  <2> HIDE DEF f
  <2>5. Kept("populate", Append(Onward, f), store)
    BY <1>2, <1>3, <1>4, <2>4, WalkDown DEF Onward
  <2>6. CASE stack' = Append(Onward, f) /\ pc' = pc /\ store' = store
    <3>1. Kept(pc', stack', store')
      BY <1>1, <2>5, <2>6
    <3> QED
      BY <1>1, <1>2, <2>6, <3>1, StepEnds
  <2> QED
    BY <1>5, <2>2, <2>6
<1>9. CASE EntrySkip
  <2>1. stack' = Onward /\ pc' = pc /\ store' = store
    BY <1>9 DEF EntrySkip
  <2>2. Kept("populate", Onward, store)
    BY <1>2, <1>3, <1>4, WalkOn DEF Onward
  <2>3. Kept(pc', stack', store')
    BY <1>1, <2>1, <2>2
  <2> QED
    BY <1>1, <1>2, <2>1, <2>3, StepEnds
<1> QED
  BY <1>6, <1>7, <1>8, <1>9

LEMMA MemberStep ==
  ASSUME Parsing, Member
  PROVE  Parsing'
<1> DEFINE with == WithChild(store, Top.node)
           node == IF NodeRefused(store) THEN NULL ELSE Len(with.nodes)
           f == WalkFrame("entries", Here.tag, node)
<1>1. /\ pc = "populate" /\ Top.kind = "members" /\ Top.kind # "loop" /\ Top.list # NULL
      /\ doc' = doc /\ pos' = pos
  BY DEF Member, InWalk
<1>2. /\ Kept("populate", stack, store) /\ pos \in 1 .. (Len(doc.tokens) + 1)
      /\ Shaped(store)
  BY <1>1, BeforeStep DEF Running
<1>3. /\ Here.tag \in 0 .. Len(store.tags)
      /\ Here.tagNext \in 0 .. Len(store.tags) /\ Top.node \in 0 .. Len(store.nodes)
  BY <1>1, HereIs
<1>4. \/ Panic
      \/ stack' = Append(Onward, f) /\ pc' = pc /\ store' = with
  BY DEF Member, Entries, WalkFrame, Here
<1>5. CASE Panic
  <2>1. pc' = "halted" /\ stack' = stack /\ store' = store
    BY <1>5 DEF Panic
  <2> QED
    BY <1>1, <1>2, <2>1, StepHalts
<1>6. CASE stack' = Append(Onward, f) /\ pc' = pc /\ store' = with
  <2>1. Shaped(with) /\ GrownTree(store, with) /\ Len(with.nodes) \in Nat
    BY <1>2, <1>3, ChildKeeps
  <2>2. node \in 0 .. Len(with.nodes)
    BY <2>1 DEF NULL
  <2> HIDE DEF node, with
  <2>3. Len(with.tags) = Len(store.tags) /\ Len(store.tags) \in Nat
    <3>1. with.tags = store.tags
      BY <2>1 DEF GrownTree, SamePool
    <3>2. Len(store.tags) \in Nat
      BY <1>2, WalkIs
    <3> QED
      BY <3>1, <3>2
  <2>4. f \in Frames /\ f.kind = "entries" /\ Led(f, with)
    <3>1. Here.tag \in 0 .. Len(with.tags) /\ Len(with.tags) \in Nat
      BY <1>3, <2>3
    <3> QED
      BY <2>1, <2>2, <3>1, FrameIs
  <2> HIDE DEF f
  <2>5. Kept("populate", Append(Onward, f), with)
    BY <1>2, <1>3, <2>1, <2>4, WalkDown DEF Onward
  <2>6. Kept(pc', stack', store')
    BY <1>1, <1>6, <2>5
  <2> QED
    BY <1>1, <1>2, <1>6, <2>6, StepEnds
<1> QED
  BY <1>4, <1>5, <1>6

LEMMA WalkEndStep ==
  ASSUME Parsing, WalkEnd
  PROVE  Parsing'
<1>1. pc = "populate" /\ doc' = doc /\ pos' = pos /\ stack' = Popped(stack)
  BY DEF WalkEnd, Pop, Popped
<1>2. Kept("populate", stack, store) /\ pos \in 1 .. (Len(doc.tokens) + 1)
  BY <1>1, BeforeStep DEF Running
<1>3. CASE Len(stack) = 2
  <2>1. store' = XMLFreeTag(store, stack[1].tag) /\ pc' = "true"
    BY <1>3 DEF WalkEnd
  <2>2. Kept("true", Popped(stack), store')
    BY <1>2, <1>3, <2>1, WalkOut
  <2>3. Kept(pc', stack', store')
    BY <1>1, <2>1, <2>2
  <2> QED
    BY <1>1, <1>2, <2>1, <2>3, StepEnds
<1>4. CASE Len(stack) # 2
  <2>1. store' = store /\ pc' = pc
    BY <1>4 DEF WalkEnd
  <2>2. Kept("populate", Popped(stack), store)
    BY <1>2, <1>4, WalkUp
  <2>3. Kept(pc', stack', store')
    BY <1>1, <2>1, <2>2
  <2> QED
    BY <1>1, <1>2, <2>1, <2>3, StepEnds
<1> QED
  BY <1>3, <1>4

-----------------------------------------------------------------------------
(* The invariant holds.                                                    *)

LEMMA EmptyStoreIs ==
  ASSUME NEW room \in Nat, NEW s, s = EmptyStore(room)
  PROVE  /\ StoreFields \subseteq DOMAIN s
         /\ s.tags = <<>> /\ s.free = <<>> /\ s.symbols = EmptyBag
         /\ s.nodes = <<>> /\ s.rootNode = NULL /\ s.freeNodes = 0
         /\ s.freeProperties = 0 /\ s.room = room
<1> DEFINE tree == EmptyTree(room)
<1>1. tree = [nodes |-> <<>>, rootNode |-> NULL, freeNodes |-> 0, freeProperties |-> 0,
              room |-> room, numNodes |-> 0, numProperties |-> 0,
              totalPropertySize |-> 0]
  BY DEF EmptyTree
<1>2. s = [field \in DOMAIN tree \cup {"tags", "free", "symbols"} |->
              IF field \in DOMAIN tree THEN tree[field]
              ELSE IF field = "symbols" THEN EmptyBag ELSE <<>>]
  BY DEF EmptyStore
<1> HIDE DEF tree
<1>3. DOMAIN tree = {"nodes", "rootNode", "freeNodes", "freeProperties", "room",
                     "numNodes", "numProperties", "totalPropertySize"}
  BY <1>1
<1>4. /\ tree.nodes = <<>> /\ tree.rootNode = NULL /\ tree.freeNodes = 0
      /\ tree.freeProperties = 0 /\ tree.room = room
  BY <1>1
<1> QED
  BY <1>2, <1>3, <1>4 DEF StoreFields

LEMMA EmptyStoreKeeps ==
  ASSUME NEW room \in Nat, NEW s, s = EmptyStore(room)
  PROVE  Stored(s, {}) /\ Counted(s) /\ Len(s.tags) = 0 /\ Len(s.nodes) = 0
<1>1. /\ StoreFields \subseteq DOMAIN s
      /\ s.tags = <<>> /\ s.free = <<>> /\ s.symbols = EmptyBag
      /\ s.nodes = <<>> /\ s.rootNode = NULL /\ s.freeNodes = 0
      /\ s.freeProperties = 0 /\ s.room = room
  BY EmptyStoreIs
<1>2. Shaped(s)
  BY <1>1, EmptySeq DEF Shaped, NULL
<1>3. DOMAIN s.tags = {} /\ Used(s) = {}
  BY <1>1, EmptySeq DEF Used
<1>4. Inside(s)
  BY <1>3 DEF Inside
<1>5. Range(s.free) = {}
  BY <1>1, EmptySeq DEF Range
<1>6. IsInjective(s.free)
  BY <1>1, EmptySeq DEF IsInjective
<1>7. Pooled(s)
  BY <1>1, <1>5, <1>6, EmptySeq DEF Pooled
<1>8. Graded(s)
  <2> DEFINE rank == [t \in DOMAIN s.tags |-> 0]
  <2>1. rank \in [DOMAIN s.tags -> 0 .. 0]
    OBVIOUS
  <2>2. \A u, t \in DOMAIN s.tags : Points(s, u, t) => rank[t] < rank[u]
    BY <1>3
  <2> QED
    BY <2>1, <2>2 DEF Graded
<1>9. Owned(s, {})
  BY <1>3 DEF Owned
<1>10. IsABag(EmptyBag) /\ \A e : Copies(EmptyBag, e) = 0
  BY DEF EmptyBag, SetToBag, IsABag, Copies
<1>11. IsFiniteSet({})
  BY FS_EmptySet
<1>12. \A e : e # <<>> => Copies(EmptyBag, e) = Cardinality(Named(s, {}, e))
  <2>1. \A e : Named(s, {}, e) = {}
    BY DEF Named
  <2>2. Cardinality({}) = 0
    BY FS_EmptySet
  <2> QED
    BY <1>10, <2>1, <2>2
<1>13. References(s, {}) = EmptyBag
  BY <1>10, <1>11, <1>12, AreReferences
<1>14. Counted(s)
  BY <1>1, <1>3, <1>13 DEF Counted
<1>15. Len(s.tags) = 0 /\ Len(s.nodes) = 0
  BY <1>1, EmptySeq
<1> QED
  BY <1>2, <1>4, <1>7, <1>8, <1>9, <1>14, <1>15 DEF Stored

LEMMA InitParsing ==
  ASSUME Init
  PROVE  Parsing
<1> DEFINE f == Frame("loop")
<1>1. /\ pc = "start" /\ doc \in Documents /\ pos = 1 /\ stack = <<f>>
      /\ \E room \in Rooms : store = EmptyStore(room)
  BY DEF Init
<1>2. PICK room \in Nat : store = EmptyStore(room)
  BY <1>1, XmlAssumption
<1>3. Stored(store, {}) /\ Counted(store) /\ Len(store.tags) = 0 /\ Len(store.nodes) = 0
  BY <1>2, EmptyStoreKeeps
<1>4. f = [kind |-> "loop", type |-> "none", string |-> <<>>, list |-> NULL,
           tag |-> Unset, node |-> NULL]
  BY DEF Frame
<1>5. <<>> \in Strings /\ NULL \in Nat
  BY EmptySeq DEF Strings, NULL
<1> HIDE DEF f
<1>6. /\ f \in Frames /\ f.kind = "loop" /\ f.list = NULL /\ f.tag = Unset
      /\ f.node = NULL
  BY <1>4, <1>5 DEF Frames
<1>7. /\ stack \in Seq(Frames) /\ Len(stack) = 1 /\ stack[1] = f
      /\ DOMAIN stack = 1 .. 1
  BY <1>1, <1>6
<1>8. Pointers(stack, store)
  BY <1>3, <1>6, <1>7 DEF Pointers, NULL, Unset
<1>9. ListFrames(stack) = {}
  BY <1>6, <1>7 DEF ListFrames
<1>10. Framed(stack) /\ ListRoots(stack) = {}
  <2>1. Parsers(stack) /\ Patient(stack)
    BY <1>7 DEF Parsers, Patient
  <2> QED
    BY <1>6, <1>7, <1>9, <2>1 DEF Framed, Apart, ListRoots
<1>11. Waiting(stack[Len(stack)])
  BY <1>6, <1>7 DEF Waiting
<1>12. Kept(pc, stack, store)
  BY <1>1, <1>3, <1>7, <1>8, <1>10, <1>11, KeptStart DEF Settled
<1>13. Typed(stack, store)
  BY <1>12, KeptTyped
<1>14. Behaved
  BY <1>1, <1>6, <1>7 DEF Behaved
<1>15. pos \in 1 .. (Len(doc.tokens) + 1)
  <2>1. doc.tokens \in Seq([tag : STRING, text : DOMAIN TextLen])
    BY <1>1, XmlAssumption
  <2>2. Len(doc.tokens) \in Nat
    BY <2>1, LenProperties
  <2> QED
    BY <1>1, <2>2
<1> QED
  BY <1>1, <1>12, <1>13, <1>14, <1>15 DEF Parsing, Status

LEMMA SameParsing ==
  ASSUME Parsing, UNCHANGED vars
  PROVE  Parsing'
<1>1. /\ pc' = pc /\ doc' = doc /\ pos' = pos /\ stack' = stack /\ store' = store
  BY DEF vars
<1>2. Typed(stack, store)' <=> Typed(stack, store)
  BY <1>1 DEF Typed, Pointers, Shaped, Inside, Pooled
<1>3. Kept(pc, stack, store)' <=> Kept(pc, stack, store)
  BY <1>1
     DEF Kept, Stacked, Parsers, Walkers, Pointers, Roots, ListRoots, ListFrames, Results,
         Fresh, Stored, Shaped, Inside, Pooled, Graded, Points, Owned, Used, Counted,
         References, Apart, Patient, Waiting, Held
<1>4. (Quiet' <=> Quiet) /\ (Headed' <=> Headed) /\ Top' = Top
  BY <1>1 DEF Quiet, Headed, Top
<1>5. Fresh(Top, store)' <=> Fresh(Top, store)
  BY <1>1, <1>4 DEF Fresh
<1>6. Behaved' <=> Behaved
  BY <1>1, <1>4, <1>5 DEF Behaved
<1>7. Running' <=> Running
  BY <1>1 DEF Running
<1> QED
  BY <1>1, <1>2, <1>3, <1>6, <1>7 DEF Parsing

LEMMA NextParsing ==
  ASSUME Parsing, [Next]_vars
  PROVE  Parsing'
<1>1. CASE Initialize
  BY <1>1, InitializeStep
<1>2. CASE LoopSkip \/ LoopStray \/ LoopFree \/ LoopFail
  BY <1>2, LoopStep
<1>3. CASE LoopDict
  BY <1>3, LoopDictStep
<1>4. CASE ParseEnd \/ ParseUnended
  BY <1>4, ParseFailStep
<1>5. CASE ParsePList
  BY <1>5, ParsePListStep
<1>6. CASE ParseOther
  BY <1>6, ParseOtherStep
<1>7. CASE ParseWhole
  BY <1>7, ParseWholeStep
<1>8. CASE OpenList \/ OpenKey
  BY <1>8, OpenStep
<1>9. CASE ParseString
  BY <1>9, ParseStringStep
<1>10. CASE ParseTextless
  BY <1>10, ParseTextlessStep
<1>11. CASE ListLink
  BY <1>11, ListLinkStep
<1>12. CASE ListStray \/ ListRing \/ KeyStray
  BY <1>12, StrayStep
<1>13. CASE ListEnd
  BY <1>13, ListEndStep
<1>14. CASE ListFail \/ KeyFail
  BY <1>14, BackStep
<1>15. CASE KeyEnd
  BY <1>15, KeyEndStep
<1>16. CASE EntryScalar \/ EntryArray \/ EntryChildren \/ EntrySkip
  BY <1>16, EntryStep
<1>17. CASE Member
  BY <1>17, MemberStep
<1>18. CASE WalkEnd
  BY <1>18, WalkEndStep
<1>19. CASE UNCHANGED vars
  BY <1>19, SameParsing
<1> QED
  BY <1>1, <1>2, <1>3, <1>4, <1>5, <1>6, <1>7, <1>8, <1>9, <1>10, <1>11, <1>12,
     <1>13, <1>14, <1>15, <1>16, <1>17, <1>18, <1>19 DEF Next

\* At every step of parsing the document and of walking what was parsed, the
\* tags that are in use hang together as the step needs: the lists and results
\* on the stack are apart, each is owned once, and a rank falls along the
\* pointers, so that giving a tag back comes to an end (xml.c:70-262, 503-646).
THEOREM ParsingInvariant == Spec => []Parsing
<1>1. Init => Parsing
  BY InitParsing
<1>2. Parsing /\ [Next]_vars => Parsing'
  BY NextParsing
<1> QED
  BY <1>1, <1>2, PTL DEF Spec

-----------------------------------------------------------------------------
(* What follows from it.                                                   *)

LEMMA TypesFollow ==
  ASSUME Parsing
  PROVE  TypeOK
<1>1. /\ pc \in Status /\ pos \in 1 .. (Len(doc.tokens) + 1)
      /\ stack \in Seq(Frames) /\ Pointers(stack, store)
      /\ Shaped(store) /\ Inside(store) /\ Pooled(store) /\ IsABag(store.symbols)
  BY DEF Parsing, Typed
<1>2. \A k \in DOMAIN stack : stack[k] \in Frames
  BY <1>1, ElementOfSeq, LenProperties
<1>3. \A k \in DOMAIN stack :
         /\ stack[k].kind \in {"loop", "list", "key", "entries", "members"}
         /\ stack[k].list \in 0 .. Len(store.tags)
         /\ stack[k].tag \in Unset .. Len(store.tags)
         /\ stack[k].node \in 0 .. Len(store.nodes)
  BY <1>1, <1>2 DEF Frames, Pointers
<1>4. \A t \in DOMAIN store.tags : store.tags[t] \in Tag
  BY <1>1, TagsAre DEF Pooled
<1>5. \A t \in DOMAIN store.tags :
         /\ store.tags[t].type \in TagTypes
         /\ {store.tags[t].tag, store.tags[t].tagNext} \subseteq 0 .. Len(store.tags)
  BY <1>1, <1>4 DEF Inside, Tag
<1>6. store.room \in Nat
  BY <1>1 DEF Shaped
<1> QED
  BY <1>1, <1>3, <1>5, <1>6 DEF TypeOK, TagTypes, Status

LEMMA CountsFollow ==
  ASSUME Parsing
  PROVE  SymbolsCounted
<1>1. Running => Counted(store)
  BY DEF Parsing, Kept
<1>2. InUse = Used(store)
  BY DEF InUse, Used
<1> QED
  BY <1>1, <1>2 DEF SymbolsCounted, Counted

\* The three kinds of pointers to a tag.
FromTags(s, t) ==
    {f \in {<<u, field>> : u \in Used(s), field \in {"tag", "tagNext"}} :
        s.tags[f[1]][f[2]] = t}

FromLists(stk, t) ==
    {<<k, "list">> : k \in {k \in DOMAIN stk : stk[k].kind = "list" /\ stk[k].list = t}}

FromResults(status, stk, t) ==
    {<<k, "result">> : k \in {k \in DOMAIN stk :
        /\ stk[k].tag = t
        /\ \/ status = "returned" /\ k = Len(stk)
           \/ status = "populate" /\ k = 1}}

LEMMA PointersToAre ==
  ASSUME NEW t
  PROVE  PointersTo(t) = FromTags(store, t) \cup FromLists(stack, t)
                            \cup FromResults(pc, stack, t)
  BY DEF PointersTo, FromTags, FromLists, FromResults, InUse, Used

LEMMA FromTagsNone ==
  ASSUME NEW s, NEW t, t # NULL, \A u \in Used(s) : ~Points(s, u, t)
  PROVE  FromTags(s, t) = {}
<1> SUFFICES ASSUME NEW f \in FromTags(s, t) PROVE FALSE
  OBVIOUS
<1>1. PICK u \in Used(s), field \in {"tag", "tagNext"} : f = <<u, field>>
  BY DEF FromTags
<1>2. s.tags[f[1]][f[2]] = t
  BY DEF FromTags
<1>3. s.tags[u][field] = t
  BY <1>1, <1>2
<1>4. s.tags[u].tag = t \/ s.tags[u].tagNext = t
  <2>1. CASE field = "tag"
    BY <1>3, <2>1
  <2>2. CASE field = "tagNext"
    BY <1>3, <2>2
  <2> QED
    BY <2>1, <2>2
<1> QED
  BY <1>4 DEF Points

LEMMA FromTagsOne ==
  ASSUME NEW s, NEW T, Owned(s, T), NEW t \in Used(s) \ T, t # NULL
  PROVE  \E f : FromTags(s, t) = {f}
<1>1. /\ \A u \in Used(s) : s.tags[u].tag = s.tags[u].tagNext => s.tags[u].tag = NULL
      /\ \A x, u, v \in Used(s) : Points(s, u, x) /\ Points(s, v, x) => u = v
  BY DEF Owned
<1>2. PICK u \in Used(s) : Points(s, u, t)
  BY DEF Owned
<1>3. \A v \in Used(s) : Points(s, v, t) => v = u
  BY <1>1, <1>2
<1> DEFINE F == {<<v, field>> : v \in Used(s), field \in {"tag", "tagNext"}}
<1>4. \A v \in Used(s) : <<v, "tag">> \in F /\ <<v, "tagNext">> \in F
  OBVIOUS
<1>5. \A f \in FromTags(s, t) :
         \/ f = <<u, "tag">> /\ s.tags[u].tag = t
         \/ f = <<u, "tagNext">> /\ s.tags[u].tagNext = t
  <2> SUFFICES ASSUME NEW f \in FromTags(s, t)
               PROVE  \/ f = <<u, "tag">> /\ s.tags[u].tag = t
                      \/ f = <<u, "tagNext">> /\ s.tags[u].tagNext = t
    OBVIOUS
  <2>1. PICK v \in Used(s), field \in {"tag", "tagNext"} : f = <<v, field>>
    BY DEF FromTags
  <2>2. s.tags[f[1]][f[2]] = t
    BY DEF FromTags
  <2>3. s.tags[v][field] = t
    BY <2>1, <2>2
  <2>4. CASE field = "tag"
    BY <1>3, <2>1, <2>3, <2>4 DEF Points
  <2>5. CASE field = "tagNext"
    BY <1>3, <2>1, <2>3, <2>5 DEF Points
  <2> QED
    BY <2>4, <2>5
<1>6. CASE s.tags[u].tag = t
  <2>1. s.tags[u].tagNext # t
    BY <1>1, <1>6
  <2>2. <<u, "tag">> \in FromTags(s, t)
    <3> DEFINE f == <<u, "tag">>
    <3>1. f[1] = u /\ f[2] = "tag" /\ f \in F
      BY <1>4
    <3> HIDE DEF f
    <3>2. s.tags[f[1]][f[2]] = t
      BY <1>6, <3>1
    <3>3. f \in FromTags(s, t)
      BY <3>1, <3>2 DEF FromTags
    <3> QED
      BY <3>3 DEF f
  <2>3. FromTags(s, t) = {<<u, "tag">>}
    BY <1>5, <2>1, <2>2
  <2> QED
    BY <2>3
<1>7. CASE s.tags[u].tagNext = t
  <2>1. s.tags[u].tag # t
    BY <1>1, <1>7
  <2>2. <<u, "tagNext">> \in FromTags(s, t)
    <3> DEFINE f == <<u, "tagNext">>
    <3>1. f[1] = u /\ f[2] = "tagNext" /\ f \in F
      BY <1>4
    <3> HIDE DEF f
    <3>2. s.tags[f[1]][f[2]] = t
      BY <1>7, <3>1
    <3>3. f \in FromTags(s, t)
      BY <3>1, <3>2 DEF FromTags
    <3> QED
      BY <3>3 DEF f
  <2>3. FromTags(s, t) = {<<u, "tagNext">>}
    BY <1>5, <2>1, <2>2
  <2> QED
    BY <2>3
<1> QED
  BY <1>2, <1>6, <1>7 DEF Points

LEMMA FromListsAre ==
  ASSUME NEW stk, NEW t, t # NULL, Apart(stk)
  PROVE  /\ t \in ListRoots(stk) => \E f : FromLists(stk, t) = {f}
         /\ t \notin ListRoots(stk) => FromLists(stk, t) = {}
<1> DEFINE K == {k \in DOMAIN stk : stk[k].kind = "list" /\ stk[k].list = t}
<1>1. \A k : k \in K <=> k \in ListFrames(stk) /\ stk[k].list = t
  BY DEF ListFrames
<1>2. FromLists(stk, t) = {<<k, "list">> : k \in K}
  BY DEF FromLists
<1> HIDE DEF K
<1>3. ASSUME t \in ListRoots(stk)
      PROVE  \E f : FromLists(stk, t) = {f}
  <2>1. PICK j \in ListFrames(stk) : stk[j].list = t
    BY <1>3 DEF ListRoots
  <2>2. K = {j}
    BY <1>1, <2>1 DEF Apart
  <2>3. FromLists(stk, t) = {<<j, "list">>}
    BY <1>2, <2>2
  <2> QED
    BY <2>3
<1>4. ASSUME t \notin ListRoots(stk)
      PROVE  FromLists(stk, t) = {}
  <2>1. K = {}
    BY <1>1, <1>4 DEF ListRoots
  <2> QED
    BY <1>2, <2>1
<1> QED
  BY <1>3, <1>4

LEMMA FromResultsAre ==
  ASSUME NEW status, NEW stk \in Seq(Frames), Len(stk) >= 1, NEW s, NEW t, t # NULL,
         status = "returned" =>
            stk[Len(stk)].tag = NULL \/ Fresh(stk[Len(stk)], s)
  PROVE  /\ t \in Results(status, stk, s) => \E f : FromResults(status, stk, t) = {f}
         /\ t \notin Results(status, stk, s) => FromResults(status, stk, t) = {}
<1> DEFINE n == Len(stk)
           K == {k \in DOMAIN stk :
                   /\ stk[k].tag = t
                   /\ \/ status = "returned" /\ k = Len(stk)
                      \/ status = "populate" /\ k = 1}
<1>1. FromResults(status, stk, t) = {<<k, "result">> : k \in K}
  BY DEF FromResults
<1>2. 1 \in DOMAIN stk /\ n \in DOMAIN stk
  BY StackIs
<1>3. CASE status = "populate"
  <2>1. Results(status, stk, s) = {stk[1].tag}
    BY <1>3 DEF Results
  <2>2. K = IF stk[1].tag = t THEN {1} ELSE {}
    BY <1>2, <1>3
  <2> HIDE DEF K
  <2>3. stk[1].tag = t => FromResults(status, stk, t) = {<<1, "result">>}
    BY <1>1, <2>2
  <2>4. stk[1].tag # t => FromResults(status, stk, t) = {}
    BY <1>1, <2>2
  <2> QED
    BY <2>1, <2>3, <2>4
<1>4. CASE status = "returned"
  <2>1. K = IF stk[n].tag = t THEN {n} ELSE {}
    BY <1>2, <1>4
  <2>2. t \in Results(status, stk, s) <=> stk[n].tag = t
    BY <1>4 DEF Results
  <2> HIDE DEF K
  <2>3. stk[n].tag = t => FromResults(status, stk, t) = {<<n, "result">>}
    BY <1>1, <2>1
  <2>4. stk[n].tag # t => FromResults(status, stk, t) = {}
    BY <1>1, <2>1
  <2> QED
    BY <2>2, <2>3, <2>4
<1>5. CASE status \notin {"returned", "populate"}
  <2>1. Results(status, stk, s) = {} /\ K = {}
    BY <1>5 DEF Results
  <2> QED
    BY <1>1, <2>1
<1> QED
  BY <1>3, <1>4, <1>5

LEMMA OwnersFollow ==
  ASSUME Parsing
  PROVE  TagsOwned
<1> SUFFICES ASSUME Running, Headed
             PROVE  /\ IsInjective(store.free)
                    /\ \A t \in DOMAIN store.tags :
                          Cardinality(PointersTo(t)) = IF t \in InUse THEN 1 ELSE 0
  BY DEF TagsOwned
<1> DEFINE lists == ListRoots(stack)
           results == Results(pc, stack, store)
           T == lists \cup results
<1>1. /\ Kept(pc, stack, store) /\ Behaved /\ stack \in Seq(Frames) /\ Len(stack) >= 1
  BY BeforeStep
<1>2. Stored(store, T) /\ Apart(stack) /\ lists \cap results = {}
  BY <1>1 DEF Kept, Roots
<1>3. Pooled(store) /\ Owned(store, T) /\ Inside(store)
  BY <1>2 DEF Stored
<1>4. pc = "returned" => stack[Len(stack)].tag = NULL \/ Fresh(stack[Len(stack)], store)
  BY <1>1 DEF Behaved, Top
<1>5. IsInjective(store.free)
  BY <1>3 DEF Pooled
<1>6. ASSUME NEW t \in DOMAIN store.tags
      PROVE  Cardinality(PointersTo(t)) = IF t \in InUse THEN 1 ELSE 0
  <2>1. t # NULL /\ T \subseteq Used(store)
    BY <1>2, StoreLens
  <2>u. InUse = Used(store)
    BY DEF InUse, Used
  <2>2. /\ t \in lists => \E f : FromLists(stack, t) = {f}
        /\ t \notin lists => FromLists(stack, t) = {}
    BY <1>2, <2>1, FromListsAre
  <2>3. /\ t \in results => \E f : FromResults(pc, stack, t) = {f}
        /\ t \notin results => FromResults(pc, stack, t) = {}
    BY <1>1, <1>4, <2>1, FromResultsAre
  <2>4. t \in T => FromTags(store, t) = {}
    <3> SUFFICES ASSUME t \in T PROVE FromTags(store, t) = {}
      OBVIOUS
    <3>1. \A u \in Used(store) : ~Points(store, u, t)
      BY <1>3 DEF Owned
    <3> QED
      BY <2>1, <3>1, FromTagsNone
  <2>5. t \notin Used(store) => FromTags(store, t) = {}
    <3> SUFFICES ASSUME t \notin Used(store) PROVE FromTags(store, t) = {}
      OBVIOUS
    <3>1. \A u \in Used(store) :
             {store.tags[u].tag, store.tags[u].tagNext} \subseteq Used(store) \cup {NULL}
      BY <1>3 DEF Owned
    <3>2. \A u \in Used(store) : ~Points(store, u, t)
      BY <2>1, <3>1 DEF Points
    <3> QED
      BY <2>1, <3>2, FromTagsNone
  <2>6. t \in Used(store) \ T => \E f : FromTags(store, t) = {f}
    BY <1>3, <2>1, FromTagsOne
  <2> HIDE DEF lists, results
  <2> DEFINE A == FromTags(store, t)
             B == FromLists(stack, t)
             C == FromResults(pc, stack, t)
  <2>7. PointersTo(t) = A \cup B \cup C
    BY PointersToAre
  <2>8. Cardinality({}) = 0 /\ \A f : Cardinality({f}) = 1
    BY FS_EmptySet, FS_Singleton
  <2>9. lists \cap results = {}
    BY <1>2
  <2> HIDE DEF A, B, C
  <2>10. CASE t \notin Used(store)
    <3>1. A = {} /\ B = {} /\ C = {}
      BY <2>1, <2>2, <2>3, <2>5, <2>10 DEF A, B, C
    <3> QED
      BY <2>7, <2>8, <2>10, <2>u, <3>1
  <2>11. CASE t \in Used(store)
    <3>1. \E f : PointersTo(t) = {f}
      <4>1. CASE t \in lists
        <5>1. A = {} /\ C = {} /\ \E f : B = {f}
          BY <2>2, <2>3, <2>4, <2>9, <4>1 DEF A, B, C
        <5> QED
          BY <2>7, <5>1
      <4>2. CASE t \in results
        <5>1. A = {} /\ B = {} /\ \E f : C = {f}
          BY <2>2, <2>3, <2>4, <2>9, <4>2 DEF A, B, C
        <5> QED
          BY <2>7, <5>1
      <4>3. CASE t \notin T
        <5>1. B = {} /\ C = {} /\ \E f : A = {f}
          BY <2>2, <2>3, <2>6, <2>11, <4>3 DEF A, B, C
        <5> QED
          BY <2>7, <5>1
      <4> QED
        BY <4>1, <4>2, <4>3
    <3>2. PICK f : PointersTo(t) = {f}
      BY <3>1
    <3>3. Cardinality(PointersTo(t)) = 1
      BY <2>8, <3>2
    <3> QED
      BY <2>11, <2>u, <3>3
  <2> QED
    BY <2>10, <2>11
<1> QED
  BY <1>5, <1>6

\* Whatever the document, whatever the heap refuses: the parser's pointers
\* are in range, a symbol has as many references as tags name it, and every
\* tag in use is led to by one pointer, no free one by any (xml.c:503-646).
THEOREM StoreConsistentCorrect == Spec => []StoreConsistent
<1>1. Parsing => StoreConsistent
  BY TypesFollow, CountsFollow, OwnersFollow DEF StoreConsistent
<1> QED
  BY <1>1, ParsingInvariant, PTL

-----------------------------------------------------------------------------
(* The parser reads no variable that was not set, and the walk follows no  *)
(* null pointer.                                                           *)

\* Keys have names.
Labelled(s) ==
    \A t \in DOMAIN s.tags : s.tags[t].type = "key" => s.tags[t].string # <<>>

\* A tag is in the list of a dictionary.
InDict(s, t) ==
    \E d \in Used(s) : /\ s.tags[d].type = "dict"
                       /\ t \in Range(Chain(s, s.tags[d].tag))

\* What the walk has on the stack: nodes, unless the heap is used up, and
\* tags that are in use, at entries those of a dictionary.
Treads(f, s) ==
    /\ f.node = NULL => s.room < 2
    /\ f.list \in Used(s) \cup {NULL}
    /\ f.kind = "entries" /\ f.list # NULL => InDict(s, f.list)

Walking(stk, s) == \A k \in 2 .. Len(stk) : Treads(stk[k], s)

Defined ==
    /\ StaysDefined
    /\ pc \in {"parse", "returned", "failed"} => store.rootNode # NULL
    /\ Labelled(store)
    /\ pc = "populate" => Walking(stack, store)

LEMMA LabelledFreed ==
  ASSUME NEW s, Shaped(s), Labelled(s), NEW tag, NEW r, r = XMLFreeTag(s, tag)
  PROVE  Labelled(r) /\ r.rootNode = s.rootNode
<1> DEFINE gone == Below(s, tag)
           tags == [t \in DOMAIN s.tags |->
                      IF t \in Range(gone) THEN ClearTag ELSE s.tags[t]]
<1>1. StoreFields \subseteq DOMAIN s
  BY DEF Shaped
<1>2. r.tags = tags /\ r.rootNode = s.rootNode
  BY <1>1 DEF XMLFreeTag, StoreFields
<1> HIDE DEF gone
<1>3. \A t \in DOMAIN tags : tags[t] = ClearTag \/ (t \in DOMAIN s.tags /\ tags[t] = s.tags[t])
  OBVIOUS
<1>4. ClearTag.type # "key"
  BY DEF ClearTag
<1> HIDE DEF tags
<1>5. \A t \in DOMAIN tags : tags[t].type = "key" => tags[t].string # <<>>
  BY <1>3, <1>4 DEF Labelled
<1> QED
  BY <1>2, <1>5 DEF Labelled

\* What is made of the tags while an element is parsed.
Manageable(s) ==
    StoreFields \subseteq DOMAIN s /\ s.tags \in Seq(Tag) /\ Labelled(s)

LEMMA LabelledStocked ==
  ASSUME NEW s, Manageable(s), NEW r, r = Stocked(s)
  PROVE  Manageable(r) /\ r.rootNode = s.rootNode
<1>1. StoreFields \subseteq DOMAIN s /\ s.tags \in Seq(Tag) /\ Labelled(s)
  BY DEF Manageable
<1>2. CASE s.free # <<>>
  BY <1>2 DEF Stocked
<1>3. CASE s.free = <<>>
  <2> DEFINE block == [i \in 1 .. PerBlock |-> ClearTag]
             tags == s.tags \o block
  <2>1. DOMAIN r = DOMAIN s /\ r.tags = tags /\ r.rootNode = s.rootNode
    BY <1>1, <1>3 DEF Stocked, StoreFields
  <2>2. PerBlock \in Nat
    BY XmlAssumption
  <2>3. block \in Seq(Tag)
    BY <2>2, ClearTagType
  <2>4. \A i \in DOMAIN block : block[i] = ClearTag
    OBVIOUS
  <2> HIDE DEF block
  <2>5. /\ tags \in Seq(Tag) /\ Len(tags) = Len(s.tags) + Len(block)
        /\ \A i \in 1 .. (Len(s.tags) + Len(block)) :
              tags[i] = IF i <= Len(s.tags) THEN s.tags[i] ELSE block[i - Len(s.tags)]
    BY <1>1, <2>3, ConcatProperties
  <2>6. /\ Len(s.tags) \in Nat /\ Len(block) \in Nat
        /\ DOMAIN s.tags = 1 .. Len(s.tags) /\ DOMAIN block = 1 .. Len(block)
        /\ DOMAIN tags = 1 .. Len(tags)
    BY <1>1, <2>3, <2>5, LenProperties
  <2> HIDE DEF tags
  <2>7. \A i \in DOMAIN tags :
           (i \in DOMAIN s.tags /\ tags[i] = s.tags[i]) \/ tags[i] = ClearTag
    <3> TAKE i \in DOMAIN tags
    <3>1. i \in 1 .. (Len(s.tags) + Len(block))
      BY <2>5, <2>6
    <3>2. i <= Len(s.tags) => i \in DOMAIN s.tags
      BY <2>6, <3>1
    <3>3. ~(i <= Len(s.tags)) => i - Len(s.tags) \in DOMAIN block
      BY <2>6, <3>1
    <3> QED
      BY <2>4, <2>5, <3>1, <3>2, <3>3
  <2>8. ClearTag.type # "key"
    BY DEF ClearTag
  <2>9. \A t \in DOMAIN tags : tags[t].type = "key" => tags[t].string # <<>>
    BY <1>1, <2>7, <2>8 DEF Labelled
  <2> QED
    BY <1>1, <2>1, <2>5, <2>9 DEF Manageable, Labelled
<1> QED
  BY <1>2, <1>3

LEMMA LabelledSymbol ==
  ASSUME NEW s, Manageable(s), NEW string, NEW r, r = Symbol(s, string)
  PROVE  Manageable(r) /\ r.rootNode = s.rootNode
<1>1. CASE string = <<>>
  BY <1>1 DEF Symbol
<1>2. CASE string # <<>>
  <2> DEFINE d == Stocked(s)
  <2>1. Manageable(d) /\ d.rootNode = s.rootNode
    BY LabelledStocked
  <2>2. r = NewSymbol(d, string)
    BY <1>2 DEF Symbol
  <2> HIDE DEF d
  <2>3. StoreFields \subseteq DOMAIN d
    BY <2>1 DEF Manageable
  <2>4. DOMAIN r = DOMAIN d /\ r.tags = d.tags /\ r.rootNode = d.rootNode
    BY <2>2, <2>3 DEF NewSymbol, StoreFields
  <2> QED
    BY <2>1, <2>4 DEF Manageable, Labelled
<1> QED
  BY <1>1, <1>2

LEMMA LabelledMade ==
  ASSUME NEW s, Manageable(s), NEW type, NEW string, NEW tag,
         type = "key" => string # <<>>, NEW r, r = WithTag(s, type, string, tag)
  PROVE  Labelled(r) /\ r.rootNode = s.rootNode
<1> DEFINE d == Stocked(s)
           n == NewTag(s)
           new == [type |-> type, string |-> string, tag |-> tag, tagNext |-> NULL]
           tags == [d.tags EXCEPT ![n] = new]
<1>1. Manageable(d) /\ d.rootNode = s.rootNode
  BY LabelledStocked
<1>2. r = [d EXCEPT !.tags[n] = new, !.free = Tail(@)]
  BY DEF WithTag
<1>n. new.type = type /\ new.string = string
  OBVIOUS
<1> HIDE DEF d, n, new
<1>3. StoreFields \subseteq DOMAIN d /\ Labelled(d)
  BY <1>1 DEF Manageable
<1>4. r.tags = tags /\ r.rootNode = d.rootNode
  BY <1>2, <1>3 DEF StoreFields
<1>5. \A t \in DOMAIN tags : tags[t] = new \/ (t \in DOMAIN d.tags /\ tags[t] = d.tags[t])
  OBVIOUS
<1> HIDE DEF tags
<1>6. \A t \in DOMAIN tags : tags[t].type = "key" => tags[t].string # <<>>
  BY <1>3, <1>5, <1>n DEF Labelled
<1> QED
  BY <1>1, <1>4, <1>6 DEF Labelled

LEMMA LabelledLinked ==
  ASSUME NEW s, Manageable(s), NEW list, NEW tag, NEW r, r = Linked(s, list, tag)[1]
  PROVE  Labelled(r) /\ r.rootNode = s.rootNode
<1> DEFINE tags == [s.tags EXCEPT ![tag].tagNext = list]
<1>1. /\ StoreFields \subseteq DOMAIN s /\ s.tags \in Seq(Tag) /\ Labelled(s)
  BY DEF Manageable
<1>2. r.tags = tags /\ r.rootNode = s.rootNode
  BY <1>1 DEF Linked, StoreFields
<1>3. \A t \in DOMAIN s.tags : s.tags[t] \in Tag
  BY <1>1, ElementOfSeq, LenProperties
<1>4. \A t \in DOMAIN tags : /\ t \in DOMAIN s.tags
                             /\ tags[t].type = s.tags[t].type
                             /\ tags[t].string = s.tags[t].string
  BY <1>3 DEF Tag
<1> HIDE DEF tags
<1> QED
  BY <1>1, <1>2, <1>4 DEF Labelled

\* What a turn of the parser makes of the store.
Turned(s, r) ==
    \/ r = s
    \/ \E t : r = XMLFreeTag(s, t)
    \/ \E type, string, tag :
          /\ type = "key" => string # <<>>
          /\ r = WithTag(Symbol(s, string), type, string, tag)
    \/ \E list, tag : r = Linked(s, list, tag)[1]

LEMMA TurnedKeeps ==
  ASSUME NEW s, Shaped(s), s.tags \in Seq(Tag), Labelled(s), NEW r, Turned(s, r)
  PROVE  Labelled(r) /\ r.rootNode = s.rootNode
<1>1. Manageable(s)
  BY DEF Manageable, Shaped
<1>2. CASE r = s
  BY <1>2
<1>3. CASE \E t : r = XMLFreeTag(s, t)
  BY <1>3, LabelledFreed
<1>4. ASSUME NEW type, NEW string, NEW tag, type = "key" => string # <<>>,
             r = WithTag(Symbol(s, string), type, string, tag)
      PROVE  Labelled(r) /\ r.rootNode = s.rootNode
  <2> DEFINE d == Symbol(s, string)
  <2>1. Manageable(d) /\ d.rootNode = s.rootNode
    BY <1>1, LabelledSymbol
  <2>2. r = WithTag(d, type, string, tag)
    BY <1>4
  <2> HIDE DEF d
  <2>3. Labelled(r) /\ r.rootNode = d.rootNode
    BY <1>4, <2>1, <2>2, LabelledMade
  <2> QED
    BY <2>1, <2>3
<1>5. CASE \E list, tag : r = Linked(s, list, tag)[1]
  BY <1>1, <1>5, LabelledLinked
<1> QED
  BY <1>2, <1>3, <1>4, <1>5 DEF Turned

LEMMA TurnDefined ==
  ASSUME Parsing, Defined, pc \in {"parse", "returned", "failed"},
         pc' \in {"parse", "returned", "failed", "false", "halted"},
         Turned(store, store')
  PROVE  Defined'
<1>1. Typed(stack, store)
  BY DEF Parsing
<1>2. Shaped(store) /\ store.tags \in Seq(Tag)
  BY <1>1 DEF Typed, Pooled
<1>3. Labelled(store) /\ store.rootNode # NULL
  BY DEF Defined
<1>4. Labelled(store') /\ store'.rootNode = store.rootNode
  BY <1>2, <1>3, TurnedKeeps
<1>5. Labelled(store)'
  BY <1>4 DEF Labelled
<1> QED
  BY <1>3, <1>4, <1>5 DEF Defined, StaysDefined

\* Whatever makes the parser read a variable that was not set, or not anew.
LEMMA StrayDefined ==
  ASSUME Parsing, Defined, LoopStray \/ ListStray \/ ListRing \/ KeyStray
  PROVE  Defined'
<1>1. /\ pc = "returned" /\ pc' \in {"undefined", "ring"}
      /\ store' = store /\ doc' = doc
  BY DEF LoopStray, ListStray, ListRing, KeyStray, InLoop, InList, InKey
<1>2. Behaved
  BY <1>1 DEF Parsing, Running
<1>3. Headed => Top.tag = NULL \/ Fresh(Top, store)
  BY <1>1, <1>2 DEF Behaved
<1>4. Top.tag # NULL /\ ~Fresh(Top, store)
  <2>1. CASE LoopStray
    <3>1. Top.kind = "loop" /\ (Top.tag = Unset \/ Top.tag \in Range(store.free))
      BY <2>1 DEF LoopStray, InLoop
    <3>2. NULL \notin Range(store.free)
      <4>1. store.free \in Seq(DOMAIN store.tags) /\ store.tags \in Seq(Tag)
        BY DEF Parsing, Typed, Pooled
      <4>2. Range(store.free) \subseteq DOMAIN store.tags
        BY <4>1, ElementOfSeq, LenProperties DEF Range
      <4>3. NULL \notin DOMAIN store.tags
        BY <4>1, LenProperties DEF NULL
      <4> QED
        BY <4>2, <4>3
    <3> QED
      BY <3>1, <3>2 DEF Fresh, NULL, Unset
  <2>2. CASE ListStray \/ ListRing
    BY <2>2 DEF ListStray, ListRing, InList, Fresh, NULL, Unset
  <2>3. CASE KeyStray
    BY <2>3 DEF KeyStray, Fresh, NULL, Unset
  <2> QED
    BY <2>1, <2>2, <2>3
<1>5. ~Headed
  BY <1>3, <1>4
<1>6. ~Headed'
  BY <1>1, <1>5 DEF Headed
<1>7. Labelled(store)'
  BY <1>1 DEF Defined, Labelled
<1> QED
  BY <1>1, <1>6, <1>7 DEF Defined, StaysDefined

\* The actions that are a turn of the parser.
LEMMA LoopTurn ==
  ASSUME Parsing, Defined, LoopSkip \/ LoopFree \/ LoopFail
  PROVE  Defined'
<1>1. /\ pc \in {"parse", "returned", "failed"}
      /\ pc' \in {"parse", "returned", "failed", "false", "halted"}
  BY DEF LoopSkip, LoopFree, LoopFail, LoopTag, InLoop
<1>2. store' = store \/ store' = XMLFreeTag(store, Top.tag)
  BY DEF LoopSkip, LoopFree, LoopFail
<1>3. Turned(store, store')
  BY <1>2 DEF Turned
<1> QED
  BY <1>1, <1>3, TurnDefined

LEMMA OpenTurn ==
  ASSUME Parsing, Defined,
         \/ ParseEnd \/ ParsePList \/ ParseOther \/ OpenList
         \/ ParseUnended \/ OpenKey \/ KeyFail
  PROVE  Defined'
<1>1. /\ pc \in {"parse", "returned", "failed"}
      /\ pc' \in {"parse", "returned", "failed", "false", "halted"}
      /\ store' = store
  BY DEF ParseEnd, ParsePList, ParseOther, OpenList, ParseUnended, OpenKey, KeyFail,
         AtToken, Fail, InKey
<1>2. Turned(store, store')
  BY <1>1 DEF Turned
<1> QED
  BY <1>1, <1>2, TurnDefined

LEMMA MadeTurned ==
  ASSUME NEW fr, NEW type, NEW string, NEW tag, type = "key" => string # <<>>,
         Deliver(fr, Symbol(store, string), type, string, tag)
  PROVE  pc' = "returned" /\ Turned(store, store')
<1>1. /\ pc' = "returned"
      /\ store' = WithTag(Symbol(store, string), type, string, tag)
  BY DEF Deliver
<1> QED
  BY <1>1 DEF Turned

LEMMA SameTurned == Turned(store, store)
  BY DEF Turned

LEMMA MakeTurn ==
  ASSUME Parsing, Defined, ParseWhole \/ ParseString \/ ParseTextless
  PROVE  Defined'
<1>1. pc \in {"parse", "returned", "failed"}
  BY DEF ParseWhole, ParseString, ParseTextless, AtToken
<1>2. CASE ParseWhole
  <2> DEFINE type == Whole[Token.tag]
  <2>1. \/ Fail /\ UNCHANGED store
        \/ Deliver(stack, store, type, <<>>, NULL)
    BY <1>2 DEF ParseWhole
  <2>2. type # "key"
    BY <1>2, TagNames DEF ParseWhole, AtToken, Whole
  <2>3. Symbol(store, <<>>) = store
    BY DEF Symbol
  <2> HIDE DEF type
  <2>4. CASE Fail /\ UNCHANGED store
    BY <1>1, <2>4, SameTurned, TurnDefined DEF Fail
  <2>5. CASE Deliver(stack, store, type, <<>>, NULL)
    <3>1. Deliver(stack, Symbol(store, <<>>), type, <<>>, NULL)
      BY <2>3, <2>5
    <3> QED
      BY <1>1, <2>2, <3>1, MadeTurned, TurnDefined
  <2> QED
    BY <2>1, <2>4, <2>5
<1>3. CASE ParseString
  <2> DEFINE string == TextHere
  <2>1. \/ Fail /\ UNCHANGED store
        \/ Panic
        \/ Deliver(stack, NewSymbol(Stocked(store), string), "string", string, NULL)
    BY <1>3 DEF ParseString
  <2>2. string # <<>>
    BY <1>3, TagNames, TextIs DEF ParseString, AtToken
  <2>3. Symbol(store, string) = NewSymbol(Stocked(store), string)
    BY <2>2 DEF Symbol
  <2> HIDE DEF string
  <2>4. CASE (Fail /\ UNCHANGED store) \/ Panic
    <3>1. store' = store /\ pc' \in {"failed", "halted"}
      BY <2>4 DEF Fail, Panic
    <3> QED
      BY <1>1, <3>1, SameTurned, TurnDefined
  <2>5. CASE Deliver(stack, NewSymbol(Stocked(store), string), "string", string, NULL)
    <3>1. Deliver(stack, Symbol(store, string), "string", string, NULL)
      BY <2>3, <2>5
    <3> QED
      BY <1>1, <3>1, MadeTurned, TurnDefined
  <2> QED
    BY <2>1, <2>4, <2>5
<1>4. CASE ParseTextless
  <2> DEFINE type == Token.tag
  <2>1. \/ Fail /\ UNCHANGED store
        \/ Deliver(stack, store, type, <<>>, NULL)
    BY <1>4 DEF ParseTextless
  <2>2. type # "key"
    BY <1>4 DEF ParseTextless, AtToken
  <2>3. Symbol(store, <<>>) = store
    BY DEF Symbol
  <2> HIDE DEF type
  <2>4. CASE Fail /\ UNCHANGED store
    BY <1>1, <2>4, SameTurned, TurnDefined DEF Fail
  <2>5. CASE Deliver(stack, store, type, <<>>, NULL)
    <3>1. Deliver(stack, Symbol(store, <<>>), type, <<>>, NULL)
      BY <2>3, <2>5
    <3> QED
      BY <1>1, <2>2, <3>1, MadeTurned, TurnDefined
  <2> QED
    BY <2>1, <2>4, <2>5
<1> QED
  BY <1>2, <1>3, <1>4

LEMMA ListTurn ==
  ASSUME Parsing, Defined, ListLink \/ ListEnd \/ ListFail
  PROVE  Defined'
<1>1. pc \in {"parse", "returned", "failed"}
  BY DEF ListLink, ListEnd, ListFail, InList
<1>2. CASE ListLink
  <2>1. pc' = "parse" /\ store' = Linked(store, Top.list, Top.tag)[1]
    BY <1>2 DEF ListLink
  <2>2. Turned(store, store')
    BY <2>1 DEF Turned
  <2> QED
    BY <1>1, <2>1, <2>2, TurnDefined
<1>3. CASE ListEnd
  <2>1. \/ pc' = "failed" /\ store' = XMLFreeTag(store, Top.list)
        \/ Deliver(Pop, store, Top.type, <<>>, Top.list)
    BY <1>3 DEF ListEnd
  <2>2. Top.type # "key"
    <3>1. stack \in Seq(Frames) /\ Len(stack) >= 1
      BY <1>3, BeforeStep DEF ListEnd, InList, Running
    <3>2. Top \in Frames
      BY <3>1, StackIs DEF Top
    <3> QED
      BY <3>2 DEF Frames, Lists
  <2>3. Symbol(store, <<>>) = store
    BY DEF Symbol
  <2>4. CASE pc' = "failed" /\ store' = XMLFreeTag(store, Top.list)
    <3>1. Turned(store, store')
      BY <2>4 DEF Turned
    <3> QED
      BY <1>1, <2>4, <3>1, TurnDefined
  <2>5. CASE Deliver(Pop, store, Top.type, <<>>, Top.list)
    <3>1. Deliver(Pop, Symbol(store, <<>>), Top.type, <<>>, Top.list)
      BY <2>3, <2>5
    <3>2. pc' = "returned" /\ Turned(store, store')
      BY <2>2, <3>1, MadeTurned
    <3> QED
      BY <1>1, <3>2, TurnDefined
  <2> QED
    BY <2>1, <2>4, <2>5
<1>4. CASE ListFail
  <2>1. pc' = "failed" /\ store' = XMLFreeTag(store, Top.list)
    BY <1>4 DEF ListFail, InList
  <2>2. Turned(store, store')
    BY <2>1 DEF Turned
  <2> QED
    BY <1>1, <2>1, <2>2, TurnDefined
<1> QED
  BY <1>2, <1>3, <1>4

LEMMA KeyTurn ==
  ASSUME Parsing, Defined, KeyEnd
  PROVE  Defined'
<1> DEFINE string == Top.string
<1>1. pc \in {"parse", "returned", "failed"} /\ pc = "returned" /\ Top.kind = "key"
  BY DEF KeyEnd, InKey
<1>2. \/ pc' = "failed" /\ store' = XMLFreeTag(store, Top.tag)
      \/ Panic
      \/ Deliver(Pop, NewSymbol(Stocked(store), string), "key", string, Top.tag)
  BY DEF KeyEnd
<1>3. string # <<>>
  <2>1. Parsers(stack) /\ Len(stack) \in Nat
    BY <1>1, BeforeStep DEF Running, Kept, Stacked
  <2>2. Len(stack) >= 2
    BY <1>1, Inner DEF Running
  <2>3. Len(stack) \in 2 .. Len(stack)
    BY <2>1, <2>2
  <2> QED
    BY <1>1, <2>1, <2>3 DEF Parsers, Top
<1>4. Symbol(store, string) = NewSymbol(Stocked(store), string)
  BY <1>3 DEF Symbol
<1> HIDE DEF string
<1>5. CASE pc' = "failed" /\ store' = XMLFreeTag(store, Top.tag)
  <2>1. Turned(store, store')
    BY <1>5 DEF Turned
  <2> QED
    BY <1>1, <1>5, <2>1, TurnDefined
<1>6. CASE Panic
  <2>1. store' = store /\ pc' = "halted"
    BY <1>6 DEF Panic
  <2> QED
    BY <1>1, <2>1, SameTurned, TurnDefined
<1>7. CASE Deliver(Pop, NewSymbol(Stocked(store), string), "key", string, Top.tag)
  <2>1. Deliver(Pop, Symbol(store, string), "key", string, Top.tag)
    BY <1>4, <1>7
  <2>2. pc' = "returned" /\ Turned(store, store')
    BY <1>3, <2>1, MadeTurned
  <2> QED
    BY <1>1, <2>2, TurnDefined
<1> QED
  BY <1>2, <1>5, <1>6, <1>7

-----------------------------------------------------------------------------
(* The tags that the walk comes to.                                        *)

LEMMA RangeOfTwo ==
  ASSUME NEW S, NEW x \in Seq(S), NEW e \in S
  PROVE  <<e>> \o x \in Seq(S) /\ Range(<<e>> \o x) = {e} \cup Range(x)
<1> DEFINE y == <<e>>
<1>1. y \in Seq(S) /\ Range(y) = {e}
  BY SingleRange
<1> HIDE DEF y
<1>2. y \o x \in Seq(S)
  BY <1>1, ConcatProperties
<1>3. Range(y \o x) = Range(y) \cup Range(x)
  BY <1>1, RangeConcatenation
<1> QED
  BY <1>1, <1>2, <1>3 DEF y

LEMMA ChainIs ==
  ASSUME NEW s, s.tags \in Seq(Tag), Inside(s), Graded(s)
  PROVE  \E c \in [0 .. Len(s.tags) -> Seq(DOMAIN s.tags)] :
            /\ c[NULL] = <<>>
            /\ \A t \in DOMAIN s.tags : c[t] = <<t>> \o c[s.tags[t].tagNext]
            /\ \A t \in 0 .. Len(s.tags) : Chain(s, t) = c[t]
<1> DEFINE D == DOMAIN s.tags
           L == 0 .. Len(s.tags)
           T == Seq(D)
           G == [t \in D |-> [x \in T |-> [y \in T |-> <<t>> \o y]]]
           P(f) == f = [t \in L |-> IF t = NULL THEN <<>>
                                    ELSE <<t>> \o f[s.tags[t].tagNext]]
           c == CHOOSE f : P(f)
<1>1. /\ NULL \in L /\ NULL \notin D /\ D \subseteq L
      /\ \A t \in L : t # NULL => t \in D
      /\ \A t \in D : s.tags[t].tag \in L /\ s.tags[t].tagNext \in L
      /\ \A t \in D : s.tags[t].tagNext # NULL => s.tags[t].tagNext \in D
  BY TagsAre DEF NULL
<1>2. <<>> \in T /\ \A t \in D : \A y \in T : <<t>> \o y \in T
  <2>1. ASSUME NEW t \in D, NEW y \in T PROVE <<t>> \o y \in Seq(D)
    BY RangeOfTwo
  <2> QED
    BY <2>1, EmptySeq
<1>4. \A t \in L : Chain(s, t) = c[t]
  BY DEF Chain
<1>5. PICK f \in [L -> T] : Along(s, f, <<>>, G)
  <2>1. G \in [D -> [T -> [T -> T]]]
    BY <1>2
  <2>2. \E f \in [L -> T] : Along(s, f, <<>>, G)
    <3> HIDE DEF T, G
    <3> QED
      BY <1>2, <2>1, GradedRecursion
  <2> QED
    BY <2>2
<1> HIDE DEF D, L, T
<1>6. P(f)
  <2>1. f = [t \in L |-> f[t]] /\ \A t \in L : f[t] \in T
    OBVIOUS
  <2>2. ASSUME NEW t \in D
        PROVE  f[t] = <<t>> \o f[s.tags[t].tagNext]
    <3>1. f[t] = G[t][f[s.tags[t].tag]][f[s.tags[t].tagNext]]
      BY <1>5 DEF Along, D
    <3>2. f[s.tags[t].tag] \in T /\ f[s.tags[t].tagNext] \in T
      BY <1>1, <2>1
    <3> QED
      BY <3>1, <3>2
  <2>3. f[NULL] = <<>>
    BY <1>5 DEF Along
  <2> QED
    BY <1>1, <2>1, <2>2, <2>3
<1>7. P(c)
  <2> HIDE DEF P
  <2> QED
    BY <1>6
<1> HIDE DEF c
<1>8. /\ c = [t \in L |-> c[t]] /\ c[NULL] = <<>>
      /\ \A t \in D : c[t] = <<t>> \o c[s.tags[t].tagNext]
  BY <1>1, <1>7
<1> HIDE DEF P
<1> DEFINE S == {t \in D : c[t] \in T}
<1>9. ASSUME NEW t \in D, \A x \in D : Points(s, t, x) => x \in S
      PROVE  t \in S
  <2>1. c[s.tags[t].tagNext] \in T
    BY <1>1, <1>2, <1>8, <1>9 DEF Points
  <2> QED
    BY <1>2, <1>8, <2>1
<1>10. \A t \in D : c[t] \in T
  <2> HIDE DEF S
  <2>1. \A t \in D : t \in S
    BY <1>9, GradedInduction DEF D
  <2> QED
    BY <2>1 DEF S
<1>11. c \in [L -> T]
  BY <1>1, <1>2, <1>8, <1>10
<1> QED
  BY <1>4, <1>8, <1>11 DEF D, L, T

\* A list has its first tag, and after each tag the next.
LEMMA ChainGoesOn ==
  ASSUME NEW s, s.tags \in Seq(Tag), Inside(s), Graded(s)
  PROVE  /\ \A t \in DOMAIN s.tags : t \in Range(Chain(s, t))
         /\ \A t \in 0 .. Len(s.tags) : \A x \in Range(Chain(s, t)) :
               /\ x \in DOMAIN s.tags
               /\ s.tags[x].tagNext # NULL =>
                     s.tags[x].tagNext \in Range(Chain(s, t))
<1> DEFINE D == DOMAIN s.tags
           L == 0 .. Len(s.tags)
           next(x) == s.tags[x].tagNext
<1>1. PICK c \in [L -> Seq(D)] :
         /\ c[NULL] = <<>>
         /\ \A t \in D : c[t] = <<t>> \o c[next(t)]
         /\ \A t \in L : Chain(s, t) = c[t]
  BY ChainIs
<1>2. /\ NULL \in L /\ NULL \notin D /\ D \subseteq L
      /\ \A t \in L : t # NULL => t \in D
      /\ \A t \in D : next(t) \in L /\ (next(t) # NULL => next(t) \in D)
  BY TagsAre DEF NULL
<1>n. \A t \in D : next(t) # NULL => Points(s, t, next(t))
  BY DEF Points
<1> HIDE DEF D, L, next
<1>3. \A t \in D : Range(c[t]) = {t} \cup Range(c[next(t)])
  <2>1. ASSUME NEW t \in D PROVE Range(c[t]) = {t} \cup Range(c[next(t)])
    <3>1. c[next(t)] \in Seq(D)
      BY <1>1, <1>2
    <3>2. Range(<<t>> \o c[next(t)]) = {t} \cup Range(c[next(t)])
      BY <3>1, RangeOfTwo
    <3> QED
      BY <1>1, <3>2
  <2> QED
    BY <2>1
<1>4. Range(c[NULL]) = {}
  BY <1>1 DEF Range
<1> DEFINE S == {t \in D : \A x \in Range(c[t]) :
                    /\ x \in D
                    /\ next(x) # NULL => next(x) \in Range(c[t])}
<1>5. ASSUME NEW t \in D, \A x \in D : Points(s, t, x) => x \in S
      PROVE  t \in S
  <2>1. ASSUME NEW x \in Range(c[t])
        PROVE  x \in D /\ (next(x) # NULL => next(x) \in Range(c[t]))
    <3>1. CASE x = t
      <4>1. ASSUME next(t) # NULL PROVE next(t) \in Range(c[t])
        <5>1. next(t) \in D
          BY <1>2, <4>1
        <5>2. next(t) \in Range(c[next(t)])
          BY <1>3, <5>1
        <5> QED
          BY <1>3, <5>2
      <4> QED
        BY <3>1, <4>1
    <3>2. CASE x \in Range(c[next(t)])
      <4>1. next(t) # NULL
        BY <1>4, <3>2
      <4>2. next(t) \in S
        BY <1>2, <1>5, <1>n, <4>1
      <4> QED
        BY <1>3, <3>2, <4>2
    <3> QED
      BY <1>3, <2>1, <3>1, <3>2
  <2> QED
    BY <2>1
<1>6. \A t \in D : t \in S
  <2> HIDE DEF S
  <2> QED
    BY <1>5, GradedInduction DEF D
<1>7. \A t \in D : t \in Range(c[t])
  BY <1>3
<1>8. \A t \in L : \A x \in Range(c[t]) :
         x \in D /\ (next(x) # NULL => next(x) \in Range(c[t]))
  <2> TAKE t \in L
  <2>1. CASE t = NULL
    BY <1>4, <2>1
  <2>2. CASE t # NULL
    BY <1>2, <1>6, <2>2
  <2> QED
    BY <2>1, <2>2
<1>9. \A t \in D : t \in Range(Chain(s, t))
  BY <1>1, <1>2, <1>7
<1>10. \A t \in L : \A x \in Range(Chain(s, t)) :
          x \in D /\ (next(x) # NULL => next(x) \in Range(Chain(s, t)))
  BY <1>1, <1>8
<1> QED
  BY <1>9, <1>10 DEF D, L, next

LEMMA InDictOn ==
  ASSUME NEW s, NEW T, Stored(s, T)
  PROVE  /\ \A t : InDict(s, t) /\ s.tags[t].tagNext # NULL =>
                      InDict(s, s.tags[t].tagNext)
         /\ \A d \in Used(s) :
               s.tags[d].type = "dict" /\ s.tags[d].tag # NULL =>
                  InDict(s, s.tags[d].tag)
<1>1. s.tags \in Seq(Tag) /\ Inside(s) /\ Graded(s) /\ Pooled(s)
  BY DEF Stored, Pooled
<1>2. /\ \A d \in DOMAIN s.tags : /\ s.tags[d].tag \in 0 .. Len(s.tags)
                                  /\ s.tags[d].tag # NULL => s.tags[d].tag \in DOMAIN s.tags
      /\ Used(s) \subseteq DOMAIN s.tags
  BY <1>1, TagsAre DEF Used
<1>3. ASSUME NEW t, InDict(s, t), s.tags[t].tagNext # NULL
      PROVE  InDict(s, s.tags[t].tagNext)
  <2>1. PICK d \in Used(s) : /\ s.tags[d].type = "dict"
                             /\ t \in Range(Chain(s, s.tags[d].tag))
    BY <1>3 DEF InDict
  <2>2. s.tags[d].tag \in 0 .. Len(s.tags)
    BY <1>2
  <2>3. s.tags[t].tagNext \in Range(Chain(s, s.tags[d].tag))
    BY <1>1, <1>3, <2>1, <2>2, ChainGoesOn
  <2> QED
    BY <2>1, <2>3 DEF InDict
<1>4. ASSUME NEW d \in Used(s), s.tags[d].type = "dict", s.tags[d].tag # NULL
      PROVE  InDict(s, s.tags[d].tag)
  <2>1. s.tags[d].tag \in DOMAIN s.tags
    BY <1>2, <1>4
  <2>2. s.tags[d].tag \in Range(Chain(s, s.tags[d].tag))
    BY <1>1, <2>1, ChainGoesOn
  <2> QED
    BY <1>4, <2>2 DEF InDict
<1> QED
  BY <1>3, <1>4

-----------------------------------------------------------------------------
(* The walk.                                                               *)

LEMMA PropertySpends ==
  ASSUME NEW d, Shaped(d), NEW node, NEW name, NEW n, NEW value,
         NEW r, r = WithProperty(d, node, name, n, value)
  PROVE  r.room <= d.room
<1>1. StoreFields \subseteq DOMAIN d /\ d.room \in Nat
  BY DEF Shaped
<1>2. CASE PropertyRefused(d)
  BY <1>1, <1>2 DEF WithProperty
<1>3. CASE ~PropertyRefused(d)
  <2>1. r.room = IF d.freeProperties = 0 THEN d.room - 1 ELSE d.room
    BY <1>1, <1>3 DEF WithProperty, StoreFields
  <2> QED
    BY <1>1, <2>1
<1> QED
  BY <1>2, <1>3

LEMMA EntrySpends ==
  ASSUME NEW s, Shaped(s), s.room >= 2, NEW node, NEW name, NEW n, NEW value,
         NEW r, r = WithProperty(Paid(s), node, name, n, value), r.room \in Nat
  PROVE  r.room <= s.room
<1> DEFINE d == Paid(s)
<1>1. Shaped(d)
  BY PaidKeeps
<1>2. s.room \in Nat /\ d.room = s.room - 2
  BY DEF Shaped, Paid, StoreFields
<1>3. r = WithProperty(d, node, name, n, value)
  OBVIOUS
<1> HIDE DEF d
<1>4. r.room <= d.room
  BY <1>1, <1>3, PropertySpends
<1> QED
  BY <1>2, <1>4

LEMMA ChildSpends ==
  ASSUME NEW s, Shaped(s), NEW parent, NEW r, r = WithChild(s, parent)
  PROVE  r.room <= s.room /\ (NodeRefused(s) => r.room < 2)
<1>1. StoreFields \subseteq DOMAIN s /\ s.room \in Nat
  BY DEF Shaped
<1>2. CASE NodeRefused(s)
  <2>1. r = s /\ s.room = 0
    BY <1>2 DEF WithChild, NodeRefused
  <2> QED
    BY <1>1, <2>1
<1>3. CASE ~NodeRefused(s)
  <2> DEFINE taken == [s EXCEPT
                    !.room = IF s.freeNodes = 0 THEN @ - 1 ELSE @,
                    !.freeNodes = Refilled(@) - 1,
                    !.nodes = Append(@, [properties |-> <<>>,
                                         children |-> <<>>]),
                    !.numNodes = @ + 1]
             node == Len(s.nodes) + 1
  <2>1. /\ DOMAIN taken = DOMAIN s
        /\ taken.room = IF s.freeNodes = 0 THEN s.room - 1 ELSE s.room
    BY <1>1 DEF StoreFields
  <2>2. r = IF parent = NULL THEN [taken EXCEPT !.rootNode = node]
            ELSE [taken EXCEPT !.nodes[parent].children = <<node>> \o @]
    BY <1>3 DEF WithChild, WithNode
  <2> HIDE DEF taken, node
  <2>3. r.room = taken.room
    BY <1>1, <2>1, <2>2 DEF StoreFields
  <2> QED
    BY <1>1, <1>3, <2>1, <2>3
<1> QED
  BY <1>2, <1>3

LEMMA TreadsLater ==
  ASSUME NEW s, NEW r, SamePool(s, r), s.room \in Nat, r.room \in Nat,
         r.room <= s.room, NEW f, Treads(f, s)
  PROVE  Treads(f, r)
<1>1. r.tags = s.tags /\ r.free = s.free
  BY DEF SamePool
<1>2. Used(r) = Used(s)
  BY <1>1 DEF Used
<1>3. \A t : Chain(r, t) = Chain(s, t)
  BY <1>1 DEF Chain
<1>4. \A t : InDict(s, t) => InDict(r, t)
  BY <1>1, <1>2, <1>3 DEF InDict
<1>5. f.node = NULL => r.room < 2
  BY DEF Treads
<1> QED
  BY <1>2, <1>4, <1>5 DEF Treads

LEMMA TreadsOn ==
  ASSUME NEW s, NEW T, Stored(s, T), NEW f \in Frames, Treads(f, s), f.list # NULL,
         NEW g, g = [f EXCEPT !.list = s.tags[f.list].tagNext]
  PROVE  Treads(g, s)
<1>1. /\ g.list = s.tags[f.list].tagNext /\ g.node = f.node /\ g.kind = f.kind
  BY DEF Frames
<1>2. f.list \in Used(s)
  BY DEF Treads
<1>3. g.list \in Used(s) \cup {NULL}
  BY <1>1, <1>2, UsedAre DEF Stored
<1>4. f.kind = "entries" /\ g.list # NULL => InDict(s, g.list)
  BY <1>1, InDictOn DEF Treads
<1> QED
  BY <1>1, <1>3, <1>4 DEF Treads

\* Turns that only go on.
LEMMA WalkingOn ==
  ASSUME NEW stk, NEW s, Kept("populate", stk, s), Walking(stk, s),
         stk[Len(stk)].list # NULL,
         NEW r, SamePool(s, r), Shaped(r), r.room <= s.room
  PROVE  Walking([stk EXCEPT ![Len(stk)].list = s.tags[stk[Len(stk)].list].tagNext], r)
<1> DEFINE n == Len(stk)
           top == stk[n]
           f == [top EXCEPT !.list = s.tags[top.list].tagNext]
           new == Retopped(stk, f)
<1>1. /\ stk \in Seq(Frames) /\ Strolling(stk) /\ Stored(s, {stk[1].tag}) /\ Shaped(s)
      /\ Len(s.tags) \in Nat
      /\ \A t \in DOMAIN s.tags : s.tags[t].tagNext \in 0 .. Len(s.tags)
  BY WalkIs
<1>2. /\ n >= 2 /\ n >= 1 /\ n \in Nat /\ top \in Frames /\ n \in 2 .. n
  BY <1>1, StrollIs
<1>3. s.room \in Nat /\ r.room \in Nat
  BY <1>1 DEF Shaped
<1>4. Treads(top, s)
  BY <1>2 DEF Walking
<1>5. Treads(f, s)
  BY <1>1, <1>2, <1>4, TreadsOn
<1>6. f \in Frames
  <2>1. top.list \in DOMAIN s.tags
    BY <1>4 DEF Treads, Used
  <2>2. s.tags[top.list].tagNext \in Nat
    BY <1>1, <2>1
  <2> QED
    BY <1>2, <2>2 DEF Frames
<1>7. [stk EXCEPT ![n].list = s.tags[top.list].tagNext] = new
  BY <1>1, <1>2 DEF Retopped
<1> HIDE DEF f, top
<1>8. Len(new) = n /\ new[n] = f /\ Lower(stk, new)
  BY <1>1, <1>2, <1>6, RetoppedIs
<1> HIDE DEF n, new
<1>9. \A k \in 2 .. n : k # n => k \in 1 .. (n - 1)
  BY <1>2
<1>10. ASSUME NEW k \in 2 .. n PROVE Treads(new[k], r)
  <2>1. CASE k = n
    BY <1>3, <1>5, <1>8, <2>1, TreadsLater
  <2>2. CASE k # n
    <3>1. new[k] = stk[k]
      BY <1>8, <1>9, <2>2 DEF Lower, n
    <3>2. Treads(stk[k], s)
      BY DEF Walking, n
    <3> QED
      BY <1>3, <3>1, <3>2, TreadsLater
  <2> QED
    BY <2>1, <2>2
<1>11. Walking(new, r)
  BY <1>8, <1>10 DEF Walking
<1> QED
  BY <1>7, <1>11 DEF top, n

LEMMA WalkingDown ==
  ASSUME NEW stk \in Seq(Frames), Len(stk) >= 1, NEW s, Walking(stk, s),
         NEW f \in Frames, Treads(f, s)
  PROVE  Walking(Append(stk, f), s)
<1> DEFINE n == Len(stk)
           new == Append(stk, f)
<1>1. /\ n \in Nat /\ Len(new) = n + 1 /\ new[n + 1] = f
      /\ \A k \in 1 .. n : new[k] = stk[k]
  BY PushedIs, StackIs
<1>2. \A k \in 2 .. n : Treads(stk[k], s)
  BY DEF Walking
<1> HIDE DEF n, new
<1>3. \A k \in 2 .. (n + 1) : k # n + 1 => k \in 1 .. n /\ k \in 2 .. n
  BY <1>1
<1>4. \A k \in 2 .. (n + 1) : Treads(new[k], s)
  BY <1>1, <1>2, <1>3
<1>5. Walking(new, s)
  BY <1>1, <1>4 DEF Walking
<1> QED
  BY <1>5 DEF new

LEMMA WalkingUp ==
  ASSUME NEW stk \in Seq(Frames), Len(stk) >= 2, NEW s, Walking(stk, s)
  PROVE  Walking(Popped(stk), s)
<1> DEFINE n == Len(stk)
           new == Popped(stk)
<1>0. n \in Nat
  BY LenProperties
<1>1. Len(new) = n - 1 /\ \A k \in 1 .. (n - 1) : new[k] = stk[k]
  BY PoppedIs
<1>2. \A k \in 2 .. n : Treads(stk[k], s)
  BY DEF Walking
<1> HIDE DEF n, new
<1>3. \A k \in 2 .. (n - 1) : k \in 1 .. (n - 1) /\ k \in 2 .. n
  BY <1>0
<1>4. \A k \in 2 .. (n - 1) : Treads(new[k], s)
  BY <1>1, <1>2, <1>3
<1>5. Walking(new, s)
  BY <1>1, <1>4 DEF Walking
<1> QED
  BY <1>5 DEF new

\* What remains to be shown of a turn of the walk.
LEMMA WalkDefined ==
  ASSUME Labelled(store'), pc' \in {"populate", "true", "halted"},
         pc' = "populate" => Walking(stack', store')
  PROVE  Defined'
<1>1. Labelled(store)'
  BY DEF Labelled
<1>2. pc' = "populate" => Walking(stack, store)'
  BY DEF Walking, Treads, InDict, Used, Chain
<1> QED
  BY <1>1, <1>2 DEF Defined, StaysDefined

LEMMA SameLabels ==
  ASSUME NEW s, NEW r, r.tags = s.tags, Labelled(s)
  PROVE  Labelled(r)
  BY DEF Labelled

\* What is known of the walk before a turn.
LEMMA WalkBefore ==
  ASSUME Parsing, Defined, pc = "populate"
  PROVE  /\ Kept("populate", stack, store) /\ Walking(stack, store)
         /\ Stored(store, {stack[1].tag}) /\ Shaped(store) /\ Labelled(store)
         /\ stack \in Seq(Frames) /\ Len(stack) >= 2 /\ Len(stack) >= 1
         /\ Top \in Frames /\ Treads(Top, store)
         /\ Top.kind \in {"entries", "members"}
         /\ Len(store.tags) \in Nat /\ Len(store.nodes) \in Nat
<1>1. Kept("populate", stack, store)
  BY BeforeStep DEF Running
<1>2. Walking(stack, store) /\ Labelled(store)
  BY DEF Defined
<1>3. /\ Strolling(stack) /\ Stored(store, {stack[1].tag}) /\ Shaped(store)
      /\ Len(store.tags) \in Nat /\ Len(store.nodes) \in Nat
  BY <1>1, WalkIs
<1>4. /\ stack \in Seq(Frames) /\ Len(stack) >= 2 /\ Len(stack) >= 1
      /\ Top \in Frames /\ Top.kind \in {"entries", "members"} /\ Len(stack) \in Nat
  BY <1>3, StrollIs DEF Top
<1>5. Len(stack) \in 2 .. Len(stack)
  BY <1>4
<1>6. Treads(Top, store)
  BY <1>2, <1>5 DEF Walking, Top
<1> QED
  BY <1>1, <1>2, <1>3, <1>4, <1>6

\* With a heap that has room and dictionaries of keys, a property has a node
\* and a name.
LEMMA PropertyHasAll ==
  ASSUME Parsing, Defined, pc = "populate", Top.kind = "entries", Top.list # NULL,
         Here.tag # NULL, store.room >= 2, Keyed
  PROVE  Top.node # NULL /\ Here.string # <<>>
<1>1. Treads(Top, store) /\ Labelled(store) /\ Shaped(store)
      /\ Stored(store, {stack[1].tag})
  BY WalkBefore
<1>2. store.room \in Nat
  BY <1>1 DEF Shaped
<1>3. Top.node # NULL
  BY <1>1, <1>2 DEF Treads
<1>4. PICK d \in Used(store) : /\ store.tags[d].type = "dict"
                               /\ Top.list \in Range(Chain(store, store.tags[d].tag))
  BY <1>1 DEF Treads, InDict
<1>5. InUse = Used(store)
  BY DEF InUse, Used
<1>6. Here.type = "key"
  BY <1>4, <1>5 DEF Keyed, Here
<1>7. Top.list \in DOMAIN store.tags
  BY <1>1 DEF Treads, Used
<1> QED
  BY <1>1, <1>3, <1>6, <1>7 DEF Labelled, Here

\* Keyed, of a store that is given.
KeyedIn(s) ==
    \A t \in Used(s) :
        s.tags[t].type = "dict" =>
            \A i \in Range(Chain(s, s.tags[t].tag)) :
                s.tags[i].type = "key" \/ s.tags[i].tag = NULL

LEMMA SameKeyed ==
  ASSUME store' = store
  PROVE  Keyed' <=> Keyed
<1>1. Keyed <=> KeyedIn(store)
  BY Zenon DEF Keyed, KeyedIn, InUse, Used
<1>2. Keyed' <=> KeyedIn(store')
  BY Zenon DEF Keyed, KeyedIn, InUse, Used
<1>3. KeyedIn(store') <=> KeyedIn(store)
  BY Zenon
<1> QED
  BY <1>1, <1>2, <1>3

\* Aligned, of a store that is given.
AlignedIn(s) ==
    \A t \in Used(s) :
        s.tags[t].type = "array" =>
            LET items == Chain(s, s.tags[t].tag)
            IN  DataItems(s, items) => WordsAligned(s, items)

LEMMA SameAligned ==
  ASSUME store' = store
  PROVE  Aligned' <=> Aligned
<1>1. Aligned <=> AlignedIn(store)
  BY Zenon DEF Aligned, AlignedIn, InUse, Used
<1>2. Aligned' <=> AlignedIn(store')
  BY Zenon DEF Aligned, AlignedIn, InUse, Used
<1>3. AlignedIn(store') <=> AlignedIn(store)
  BY Zenon
<1> QED
  BY <1>1, <1>2, <1>3

\* Whatever array the walk comes to is one of the tags in use.
LEMMA MisalignedDefined ==
  ASSUME Parsing, Defined, pc = "populate", Top.kind = "entries", Top.list # NULL,
         Here.tag # NULL, Value.type = "array", DataItems(store, Chain(store, Value.tag)),
         ~WordsAligned(store, Chain(store, Value.tag)), pc' = "undefined", store' = store
  PROVE  Defined'
<1>1. /\ Labelled(store) /\ Treads(Top, store) /\ Stored(store, {stack[1].tag})
  BY WalkBefore
<1>2. Top.list \in Used(store)
  BY <1>1 DEF Treads
<1>3. \A u \in Used(store) : store.tags[u].tag # NULL => store.tags[u].tag \in Used(store)
  BY <1>1, UsedAre DEF Stored
<1>4. Here.tag \in InUse
  BY <1>2, <1>3 DEF Here, InUse, Used
<1>5. ~Aligned
  BY <1>4, Zenon DEF Aligned, Value
<1>6. ~Aligned'
  BY <1>5, SameAligned
<1>7. Labelled(store)'
  BY <1>1 DEF Labelled
<1> QED
  BY <1>6, <1>7 DEF Defined, StaysDefined

LEMMA AddPropertyDefined ==
  ASSUME Parsing, Defined, pc = "populate", Top.kind = "entries", Top.list # NULL,
         Here.tag # NULL, NEW items, AddProperty(items), doc' = doc
  PROVE  Defined'
<1>1. /\ Kept("populate", stack, store) /\ Walking(stack, store)
      /\ Shaped(store) /\ Labelled(store)
  BY WalkBefore
<1>2. CASE store.room < 2 \/ Here.string = <<>> \/ Top.node = NULL
  <2>1. pc' = "undefined" /\ store' = store
    BY <1>2 DEF AddProperty
  <2>2. store.room \in Nat
    BY <1>1 DEF Shaped
  <2>3. store.room < 2 \/ ~Keyed
    BY <1>2, <2>2, PropertyHasAll
  <2>4. store'.room < 2 \/ ~Keyed'
    BY <2>1, <2>3, SameKeyed
  <2>5. Labelled(store)'
    BY <1>1, <2>1 DEF Labelled
  <2> QED
    BY <2>1, <2>4, <2>5 DEF Defined, StaysDefined
<1>3. CASE ~(store.room < 2 \/ Here.string = <<>> \/ Top.node = NULL)
  <2>1. \E n, value : store' = WithProperty(Paid(store), Top.node, Here.string, n, value)
    BY <1>3 DEF AddProperty, Paid
  <2>2. stack' = Onward /\ pc' = pc
    BY <1>3 DEF AddProperty
  <2>3. PICK n, value :
           store' = WithProperty(Paid(store), Top.node, Here.string, n, value)
    BY <2>1
  <2>4. store.room >= 2 /\ Top.node # NULL /\ Top.node \in 0 .. Len(store.nodes)
    <3>1. store.room \in Nat
      BY <1>1 DEF Shaped
    <3>2. Top.node \in 0 .. Len(store.nodes)
      BY HereIs
    <3> QED
      BY <1>3, <3>1, <3>2
  <2>5. Shaped(store') /\ GrownTree(store, store')
    BY <1>1, <2>3, <2>4, EntryKeeps
  <2>6. SamePool(store, store') /\ store'.tags = store.tags /\ store'.room \in Nat
    BY <2>5 DEF GrownTree, SamePool, Shaped
  <2>7. store'.room <= store.room
    BY <1>1, <2>3, <2>4, <2>6, EntrySpends
  <2>8. Walking(Onward, store')
    BY <1>1, <2>5, <2>6, <2>7, WalkingOn DEF Onward, Top, Here
  <2>9. Labelled(store')
    BY <1>1, <2>6, SameLabels
  <2> QED
    BY <2>2, <2>8, <2>9, WalkDefined
<1> QED
  BY <1>2, <1>3

LEMMA PanicDefined ==
  ASSUME Defined, Panic
  PROVE  Defined'
<1>1. pc' = "halted" /\ store' = store
  BY DEF Panic
<1> QED
  BY <1>1, SameLabels, WalkDefined DEF Defined

LEMMA EntryDefined ==
  ASSUME Parsing, Defined, EntryScalar \/ EntryArray \/ EntryChildren \/ EntrySkip
  PROVE  Defined'
<1>1. /\ pc = "populate" /\ Top.kind = "entries" /\ Top.list # NULL /\ doc' = doc
  BY DEF EntryScalar, EntryArray, EntryChildren, EntrySkip, InWalk
<1>2. /\ Kept("populate", stack, store) /\ Walking(stack, store)
      /\ Stored(store, {stack[1].tag}) /\ Shaped(store) /\ Labelled(store)
      /\ stack \in Seq(Frames) /\ Len(stack) >= 2 /\ Len(stack) >= 1
      /\ Treads(Top, store) /\ Len(store.tags) \in Nat /\ Len(store.nodes) \in Nat
  BY <1>1, WalkBefore
<1>3. SamePool(store, store) /\ store.room <= store.room
  BY <1>2 DEF SamePool, Shaped
<1>4. Walking(Onward, store)
  BY <1>1, <1>2, <1>3, WalkingOn DEF Onward, Top, Here
<1>6. CASE EntryScalar
  <2>1. Here.tag # NULL /\ AddProperty(<<Here.tag>>)
    BY <1>6 DEF EntryScalar
  <2> QED
    BY <1>1, <2>1, AddPropertyDefined
<1>7. CASE EntryArray
  <2> DEFINE items == Chain(store, Value.tag)
  <2>1. Here.tag # NULL /\ Value.type = "array"
    BY <1>7 DEF EntryArray
  <2>2. \/ Panic
        \/ /\ DataItems(store, items) /\ ~WordsAligned(store, items)
           /\ pc' = "undefined" /\ store' = store
        \/ AddProperty(items)
    BY <1>7 DEF EntryArray
  <2>3. CASE /\ DataItems(store, items) /\ ~WordsAligned(store, items)
             /\ pc' = "undefined" /\ store' = store
    BY <1>1, <2>1, <2>3, MisalignedDefined
  <2> QED
    BY <1>1, <2>1, <2>2, <2>3, PanicDefined, AddPropertyDefined
<1>8. CASE EntryChildren
  <2> DEFINE f == WalkFrame("members", Value.tag, Top.node)
  <2>1. Here.tag # NULL
    BY <1>8 DEF EntryChildren
  <2>2. Panic \/ (stack' = Append(Onward, f) /\ pc' = pc /\ store' = store)
    BY <1>8 DEF EntryChildren, WalkFrame
  <2>3. f \in Frames /\ f.kind = "members" /\ f.list = Value.tag /\ f.node = Top.node
    <3>1. Value.tag \in 0 .. Len(store.tags) /\ Top.node \in 0 .. Len(store.nodes)
      BY <1>1, <2>1, HereIs
    <3>2. f \in Frames /\ f.kind = "members"
      BY <1>2, <3>1, FrameIs
    <3>3. f.list = Value.tag /\ f.node = Top.node
      BY DEF WalkFrame, Frame
    <3> QED
      BY <3>2, <3>3
  <2>4. Value.tag \in Used(store) \cup {NULL}
    <3>1. /\ \A u \in Used(store) :
                store.tags[u].tag # NULL => store.tags[u].tag \in Used(store)
      BY <1>2, UsedAre DEF Stored
    <3>2. Top.list \in Used(store)
      BY <1>1, <1>2 DEF Treads
    <3>3. Here.tag \in Used(store)
      BY <2>1, <3>1, <3>2 DEF Here
    <3> QED
      BY <3>1, <3>3 DEF Value
  <2>5. Treads(f, store)
    BY <1>2, <2>3, <2>4 DEF Treads
  <2> HIDE DEF f
  <2>6. Onward \in Seq(Frames) /\ Len(Onward) >= 1
    <3>1. GrownTree(store, store)
      BY <1>2, SameGrown
    <3>2. Here.tagNext \in 0 .. Len(store.tags)
      BY <1>1, HereIs
    <3>3. Kept("populate", Onward, store)
      BY <1>2, <3>1, <3>2, WalkOn DEF Onward
    <3>4. Strolling(Onward)
      BY <3>3, WalkIs
    <3> QED
      BY <3>4, StrollIs
  <2>7. Walking(Append(Onward, f), store)
    BY <1>4, <2>3, <2>5, <2>6, WalkingDown
  <2>8. CASE stack' = Append(Onward, f) /\ pc' = pc /\ store' = store
    BY <1>1, <1>2, <2>7, <2>8, WalkDefined
  <2> QED
    BY <2>2, <2>8, PanicDefined
<1>9. CASE EntrySkip
  <2>1. stack' = Onward /\ pc' = pc /\ store' = store
    BY <1>9 DEF EntrySkip
  <2> QED
    BY <1>1, <1>2, <1>4, <2>1, WalkDefined
<1> QED
  BY <1>6, <1>7, <1>8, <1>9

LEMMA MemberDefined ==
  ASSUME Parsing, Defined, Member
  PROVE  Defined'
<1> DEFINE with == WithChild(store, Top.node)
           node == IF NodeRefused(store) THEN NULL ELSE Len(with.nodes)
           f == WalkFrame("entries", Here.tag, node)
<1>1. pc = "populate" /\ Top.kind = "members" /\ Top.kind # "loop" /\ Top.list # NULL
  BY DEF Member, InWalk
<1>2. /\ Kept("populate", stack, store) /\ Walking(stack, store)
      /\ Stored(store, {stack[1].tag}) /\ Shaped(store) /\ Labelled(store)
      /\ stack \in Seq(Frames) /\ Len(stack) >= 2 /\ Len(stack) >= 1
      /\ Treads(Top, store) /\ Len(store.tags) \in Nat /\ Len(store.nodes) \in Nat
  BY <1>1, WalkBefore
<1>3. /\ Here.tag \in 0 .. Len(store.tags)
      /\ Here.tagNext \in 0 .. Len(store.tags) /\ Top.node \in 0 .. Len(store.nodes)
  BY <1>1, HereIs
<1>4. \/ Panic
      \/ stack' = Append(Onward, f) /\ pc' = pc /\ store' = with /\ Here.type = "dict"
  BY DEF Member, Entries, WalkFrame, Here
<1>5. CASE Panic
  BY <1>5, PanicDefined
<1>6. CASE stack' = Append(Onward, f) /\ pc' = pc /\ store' = with /\ Here.type = "dict"
  <2>1. Shaped(with) /\ GrownTree(store, with) /\ Len(with.nodes) \in Nat
    BY <1>2, <1>3, ChildKeeps
  <2>2. node \in 0 .. Len(with.nodes) /\ with.room <= store.room
        /\ (node = NULL => with.room < 2)
    <3>1. with.room <= store.room /\ (NodeRefused(store) => with.room < 2)
      BY <1>2, ChildSpends
    <3>2. ~NodeRefused(store) => Len(with.nodes) # NULL
      <4>1. ASSUME ~NodeRefused(store)
            PROVE  Len(WithNode(store, Top.node).nodes) = Len(store.nodes) + 1
        BY <1>2, <1>3, <4>1, NodeKeeps
      <4> QED
        BY <1>2, <4>1 DEF WithChild, NULL
    <3> QED
      BY <2>1, <3>1, <3>2 DEF NULL
  <2> HIDE DEF node, with
  <2>3. SamePool(store, with) /\ with.tags = store.tags
    BY <2>1 DEF GrownTree, SamePool
  <2>4. f \in Frames /\ f.kind = "entries" /\ f.list = Here.tag /\ f.node = node
    <3>1. Here.tag \in 0 .. Len(with.tags) /\ Len(with.tags) \in Nat
      BY <1>2, <1>3, <2>3
    <3>2. f \in Frames /\ f.kind = "entries"
      BY <2>1, <2>2, <3>1, FrameIs
    <3>3. f.list = Here.tag /\ f.node = node
      BY DEF WalkFrame, Frame
    <3> QED
      BY <3>2, <3>3
  <2>5. Treads(f, with)
    <3>1. Top.list \in Used(store)
      BY <1>1, <1>2 DEF Treads
    <3>2. Here.tag \in Used(store) \cup {NULL}
      BY <1>2, <3>1, UsedAre DEF Stored, Here
    <3>3. Here.tag # NULL => InDict(store, Here.tag)
      BY <1>2, <1>6, <3>1, InDictOn DEF Here
    <3> DEFINE g == [f EXCEPT !.node = 1]
    <3>4. Used(with) = Used(store)
      BY <2>3 DEF Used, SamePool
    <3>5. \A t : Chain(with, t) = Chain(store, t)
      BY <2>3 DEF Chain
    <3>6. \A t : InDict(store, t) => InDict(with, t)
      BY <2>3, <3>4, <3>5 DEF InDict
    <3> QED
      BY <2>2, <2>4, <3>2, <3>3, <3>4, <3>6 DEF Treads
  <2> HIDE DEF f
  <2>6. Onward \in Seq(Frames) /\ Len(Onward) >= 1
    <3>1. GrownTree(store, store)
      BY <1>2, SameGrown
    <3>2. Kept("populate", Onward, store)
      BY <1>2, <1>3, <3>1, WalkOn DEF Onward
    <3>3. Strolling(Onward)
      BY <3>2, WalkIs
    <3> QED
      BY <3>3, StrollIs
  <2>7. Walking(Onward, with)
    BY <1>1, <1>2, <2>1, <2>2, <2>3, WalkingOn DEF Onward, Top, Here
  <2>8. Walking(Append(Onward, f), with)
    BY <2>4, <2>5, <2>6, <2>7, WalkingDown
  <2>9. Labelled(with)
    BY <1>2, <2>3, SameLabels
  <2> QED
    BY <1>1, <1>6, <2>8, <2>9, WalkDefined
<1> QED
  BY <1>4, <1>5, <1>6

LEMMA WalkEndDefined ==
  ASSUME Parsing, Defined, WalkEnd
  PROVE  Defined'
<1>1. pc = "populate" /\ stack' = Popped(stack)
  BY DEF WalkEnd, Pop, Popped
<1>2. /\ Walking(stack, store) /\ Shaped(store) /\ Labelled(store)
      /\ stack \in Seq(Frames) /\ Len(stack) >= 2
  BY <1>1, WalkBefore
<1>3. CASE Len(stack) = 2
  <2>1. store' = XMLFreeTag(store, stack[1].tag) /\ pc' = "true"
    BY <1>3 DEF WalkEnd
  <2>2. Labelled(store')
    BY <1>2, <2>1, LabelledFreed
  <2> QED
    BY <2>1, <2>2, WalkDefined
<1>4. CASE Len(stack) # 2
  <2>1. store' = store /\ pc' = pc
    BY <1>4 DEF WalkEnd
  <2>2. Walking(Popped(stack), store)
    BY <1>2, WalkingUp
  <2> QED
    BY <1>1, <1>2, <2>1, <2>2, WalkDefined
<1> QED
  BY <1>3, <1>4

LEMMA LoopDictDefined ==
  ASSUME Parsing, Defined, LoopDict
  PROVE  Defined'
<1> DEFINE tag == Top.tag
           list == store.tags[tag].tag
           f == WalkFrame("entries", list, store.rootNode)
<1>1. /\ pc = "returned" /\ Top.kind = "loop" /\ pc' = "populate"
      /\ tag \notin {Unset, NULL} \cup Range(store.free)
      /\ store.tags[tag].type = "dict" /\ store' = store
      /\ stack' = Append(stack, f)
  BY DEF LoopDict, LoopTag, InLoop, Entries, WalkFrame
<1>2. /\ Kept("returned", stack, store) /\ stack \in Seq(Frames) /\ Len(stack) >= 1
      /\ Shaped(store)
  BY <1>1, BeforeStep DEF Running
<1>3. Fresh(stack[Len(stack)], store)
  BY <1>1 DEF Fresh, Top
<1>4. Settled(stack, store) /\ Stored(store, ListRoots(stack) \cup {tag})
  BY <1>2, <1>3, KeptAnswer DEF Top
<1>5. Len(stack) = 1
  BY <1>1, <1>4, LoopTop DEF Settled, Top
<1>6. Labelled(store) /\ store.rootNode # NULL
  BY <1>1 DEF Defined
<1>7. tag \in Used(store) /\ Len(store.tags) \in Nat /\ Len(store.nodes) \in Nat
  BY <1>4, StoreLens
<1>8. list \in Used(store) \cup {NULL} /\ list \in 0 .. Len(store.tags)
  <2>1. Inside(store) /\ Pooled(store) /\ Owned(store, ListRoots(stack) \cup {tag})
    BY <1>4 DEF Stored
  <2>2. list \in Used(store) \cup {NULL}
    BY <1>7, <2>1, UsedAre
  <2>3. list \in 0 .. Len(store.tags)
    BY <1>7, <2>1, TagsAre DEF Pooled, Used
  <2> QED
    BY <2>2, <2>3
<1>9. list # NULL => InDict(store, list)
  BY <1>1, <1>4, <1>7, InDictOn
<1>10. f \in Frames /\ f.kind = "entries" /\ f.list = list /\ f.node = store.rootNode
  <2>1. store.rootNode \in 0 .. Len(store.nodes)
    BY <1>2 DEF Shaped
  <2>2. f \in Frames /\ f.kind = "entries"
    BY <1>7, <1>8, <2>1, FrameIs
  <2>3. f.list = list /\ f.node = store.rootNode
    BY DEF WalkFrame, Frame
  <2> QED
    BY <2>2, <2>3
<1> HIDE DEF f, list, tag
<1>11. Treads(f, store)
  BY <1>6, <1>8, <1>9, <1>10 DEF Treads
<1>12. Walking(stack, store)
  BY <1>5 DEF Walking
<1>13. Walking(Append(stack, f), store)
  BY <1>2, <1>10, <1>11, <1>12, WalkingDown
<1> QED
  BY <1>1, <1>6, <1>13, WalkDefined

LEMMA InitializeDefined ==
  ASSUME Parsing, Defined, Initialize
  PROVE  Defined'
<1>1. /\ store' = WithNamed(store, NULL, <<"name">>, 2, <<<<"/">>>>)
      /\ pc' = IF store'.rootNode = NULL THEN "halted" ELSE "parse"
  BY DEF Initialize
<1>2. Shaped(store)
  BY DEF Parsing, Typed
<1>3. GrownTree(store, store')
  BY <1>1, <1>2, NamedKeeps
<1>4. store'.tags = store.tags
  BY <1>3 DEF GrownTree, SamePool
<1>5. Labelled(store')
  BY <1>4, SameLabels DEF Defined
<1>6. Labelled(store)'
  BY <1>5 DEF Labelled
<1> QED
  BY <1>1, <1>6 DEF Defined, StaysDefined

LEMMA InitDefined == Init => Defined
<1> SUFFICES ASSUME Init PROVE Defined
  OBVIOUS
<1>1. pc = "start"
  BY DEF Init
<1>2. PICK room \in Rooms : store = EmptyStore(room)
  BY DEF Init
<1>3. room \in Nat
  BY XmlAssumption
<1>4. store.tags = <<>>
  BY <1>2, <1>3, EmptyStoreIs
<1>5. Labelled(store)
  BY <1>4 DEF Labelled
<1> QED
  BY <1>1, <1>5 DEF Defined, StaysDefined

LEMMA SameDefined ==
  ASSUME Defined, UNCHANGED vars
  PROVE  Defined'
<1>1. pc' = pc /\ doc' = doc /\ stack' = stack /\ store' = store
  BY DEF vars
<1>2. Headed' <=> Headed
  BY <1>1 DEF Headed
<1>3. StaysDefined'
  BY <1>1, <1>2, SameKeyed, SameAligned DEF Defined, StaysDefined
<1>4. Labelled(store)'
  BY <1>1 DEF Defined, Labelled
<1>5. Walking(stack', store') <=> Walking(stack, store)
  BY <1>1, Zenon
<1>6. (pc = "populate" => Walking(stack, store))'
  BY <1>1, <1>5 DEF Defined
<1>7. (pc \in {"parse", "returned", "failed"} => store.rootNode # NULL)'
  BY <1>1 DEF Defined
<1> QED
  BY <1>3, <1>4, <1>6, <1>7 DEF Defined

LEMMA NextDefined ==
  ASSUME Parsing, Defined, [Next]_vars
  PROVE  Defined'
<1>1. CASE Initialize
  BY <1>1, InitializeDefined
<1>2. CASE LoopSkip \/ LoopFree \/ LoopFail
  BY <1>2, LoopTurn
<1>3. CASE LoopDict
  BY <1>3, LoopDictDefined
<1>4. CASE LoopStray \/ ListStray \/ ListRing \/ KeyStray
  BY <1>4, StrayDefined
<1>5. CASE \/ ParseEnd \/ ParsePList \/ ParseOther \/ OpenList
           \/ ParseUnended \/ OpenKey \/ KeyFail
  BY <1>5, OpenTurn
<1>6. CASE ParseWhole \/ ParseString \/ ParseTextless
  BY <1>6, MakeTurn
<1>7. CASE ListLink \/ ListEnd \/ ListFail
  BY <1>7, ListTurn
<1>8. CASE KeyEnd
  BY <1>8, KeyTurn
<1>9. CASE EntryScalar \/ EntryArray \/ EntryChildren \/ EntrySkip
  BY <1>9, EntryDefined
<1>10. CASE Member
  BY <1>10, MemberDefined
<1>11. CASE WalkEnd
  BY <1>11, WalkEndDefined
<1>12. CASE UNCHANGED vars
  BY <1>12, SameDefined
<1> QED
  BY <1>1, <1>2, <1>3, <1>4, <1>5, <1>6, <1>7, <1>8, <1>9, <1>10, <1>11, <1>12 DEF Next

\* Whatever the document: with headers, dictionaries of keys and arrays that
\* keep their integers at words, prepare_devicetree reads no pointer that
\* XMLParseNextTag has not set, follows none that is null and stores no word
\* unaligned, unless the heap is used up; and with headers the parser links no
\* tag to itself (bootx.c:107-118, 186-208, 377-388, xml.c:225-238).
THEOREM StaysDefinedCorrect == Spec => []StaysDefined
<1>1. Init => Parsing /\ Defined
  BY InitParsing, InitDefined
<1>2. Parsing /\ Defined /\ [Next]_vars => Parsing' /\ Defined'
  BY NextParsing, NextDefined
<1>3. Defined => StaysDefined
  BY DEF Defined
<1> QED
  BY <1>1, <1>2, <1>3, PTL DEF Spec
=============================================================================
