---------------------------- MODULE Image3Proofs ----------------------------
(***************************************************************************)
(* The search for an image and for its data finds what is there, in every  *)
(* memory laid out as Image3 has it: what get_image3 and image3_find_tag   *)
(* add up from the headers is where the images and the tags begin.         *)
(***************************************************************************)
EXTENDS Image3, Induction, SequenceTheorems

-----------------------------------------------------------------------------
(* Sequences joined.                                                       *)

LEMMA JoinedIs ==
  ASSUME NEW s \in Seq(Nat), NEW t \in Seq(Nat)
  PROVE  /\ s \o t \in Seq(Nat)
         /\ Len(s) \in Nat /\ Len(t) \in Nat
         /\ Len(s \o t) = Len(s) + Len(t)
         /\ \A x \in 1 .. Len(s) : (s \o t)[x] = s[x]
         /\ \A x \in 1 .. Len(t) : (s \o t)[Len(s) + x] = t[x]
<1> DEFINE m == Len(s)
           n == Len(t)
<1>1. m \in Nat /\ n \in Nat
  BY LenProperties
<1>2. /\ s \o t \in Seq(Nat) /\ Len(s \o t) = m + n
      /\ \A i \in 1 .. m + n : (s \o t)[i] = IF i <= m THEN s[i] ELSE t[i - m]
  BY ConcatProperties
<1> HIDE DEF m, n
<1>3. \A x \in 1 .. m : x \in 1 .. m + n /\ x <= m
  BY <1>1
<1>4. \A x \in 1 .. n : m + x \in 1 .. m + n /\ ~(m + x <= m) /\ (m + x) - m = x
  BY <1>1
<1>5. /\ \A x \in 1 .. m : (s \o t)[x] = s[x]
      /\ \A x \in 1 .. n : (s \o t)[m + x] = t[x]
  BY <1>2, <1>3, <1>4
<1> QED
  BY <1>1, <1>2, <1>5 DEF m, n

\* g has what the first sequences of ss make together.
Joins(ss, g) ==
    /\ g \in [0 .. Len(ss) -> Seq(Nat)]
    /\ g[0] = <<>>
    /\ \A k \in 1 .. Len(ss) : g[k] = g[k - 1] \o ss[k]

LEMMA JoinsExist ==
  ASSUME NEW ss \in Seq(Seq(Nat))
  PROVE  \E g : Joins(ss, g)
<1> DEFINE F == [k \in 1 .. Len(ss) |-> [x \in Seq(Nat) |-> x \o ss[k]]]
<1>1. Len(ss) \in Nat /\ \A k \in 1 .. Len(ss) : ss[k] \in Seq(Nat)
  BY LenProperties, ElementOfSeq
<1>2. F \in [1 .. Len(ss) -> [Seq(Nat) -> Seq(Nat)]]
  BY <1>1, ConcatProperties
<1>3. <<>> \in Seq(Nat)
  BY EmptySeq
<1> HIDE DEF F
<1>4. PICK g \in [0 .. Len(ss) -> Seq(Nat)] : Follows(g, <<>>, F, Len(ss))
  BY <1>1, <1>2, <1>3, Recursion
<1>5. ASSUME NEW k \in 1 .. Len(ss) PROVE g[k] = g[k - 1] \o ss[k]
  <2>1. k - 1 \in 0 .. Len(ss)
    BY <1>1
  <2>2. g[k] = F[k][g[k - 1]] /\ g[k - 1] \in Seq(Nat)
    BY <1>4, <2>1 DEF Follows
  <2> QED
    BY <2>2 DEF F
<1>6. g[0] = <<>>
  BY <1>4 DEF Follows
<1> QED
  BY <1>5, <1>6 DEF Joins

\* FlattenSeq joins all of them.
LEMMA FlattenIs ==
  ASSUME NEW ss \in Seq(Seq(Nat)), NEW g, Joins(ss, g)
  PROVE  FlattenSeq(ss) = g[Len(ss)]
<1> DEFINE F(f) == f = [i \in 1 .. Len(ss) |->
                          IF i = 1 THEN ss[i] ELSE f[i - 1] \o ss[i]]
           b == CHOOSE f : F(f)
<1>1. Len(ss) \in Nat /\ \A k \in 1 .. Len(ss) : ss[k] \in Seq(Nat)
  BY LenProperties, ElementOfSeq
<1>2. CASE Len(ss) = 0
  <2>1. ss = <<>>
    BY <1>2, EmptySeq
  <2>2. FlattenSeq(ss) = ss
    BY <1>2 DEF FlattenSeq
  <2> QED
    BY <1>2, <2>1, <2>2 DEF Joins
<1>3. CASE Len(ss) # 0
  <2>1. g[1] = ss[1]
    <3>1. 1 \in 1 .. Len(ss) /\ 1 - 1 = 0
      BY <1>1, <1>3
    <3>2. g[1] = <<>> \o ss[1] /\ ss[1] \in Seq(Nat)
      BY <1>1, <3>1 DEF Joins
    <3> QED
      BY <3>2, ConcatEmptySeq
  <2>2. F([i \in 1 .. Len(ss) |-> g[i]])
    <3> DEFINE h == [i \in 1 .. Len(ss) |-> g[i]]
    <3>1. ASSUME NEW i \in 1 .. Len(ss)
          PROVE  h[i] = IF i = 1 THEN ss[i] ELSE h[i - 1] \o ss[i]
      <4>1. CASE i = 1
        BY <2>1, <4>1
      <4>2. CASE i # 1
        <5>1. i - 1 \in 1 .. Len(ss)
          BY <1>1, <4>2
        <5> QED
          BY <4>2, <5>1 DEF Joins
      <4> QED
        BY <4>1, <4>2
    <3> QED
      BY <3>1
  <2>3. F(b)
    <3> HIDE DEF F
    <3> QED
      BY <2>2
  <2>4. FlattenSeq(ss) = b[Len(ss)]
    BY <1>3 DEF FlattenSeq
  <2> DEFINE S == {k \in 0 .. Len(ss) : k # 0 => b[k] = g[k]}
  <2>5. \A i \in 1 .. Len(ss) :
           b[i] = IF i = 1 THEN ss[i] ELSE b[i - 1] \o ss[i]
    <3> HIDE DEF b
    <3> QED
      BY <2>3
  <2> HIDE DEF b, F
  <2>6. 0 \in S
    BY <1>1
  <2>7. ASSUME NEW k \in 0 .. (Len(ss) - 1), k \in S PROVE k + 1 \in S
    <3>1. /\ k + 1 \in 1 .. Len(ss) /\ (k + 1) - 1 = k /\ k + 1 \in 0 .. Len(ss)
          /\ k + 1 = 1 <=> k = 0
      BY <1>1
    <3>2. b[k + 1] = IF k = 0 THEN ss[k + 1] ELSE b[k] \o ss[k + 1]
      BY <2>5, <3>1
    <3>3. g[k + 1] = g[k] \o ss[k + 1]
      BY <3>1 DEF Joins
    <3>4. b[k + 1] = g[k + 1]
      BY <2>1, <2>7, <3>1, <3>2, <3>3
    <3> QED
      BY <3>1, <3>4
  <2>8. \A k \in 0 .. Len(ss) : k \in S
    <3> HIDE DEF S
    <3> QED
      BY <1>1, <2>6, <2>7, BoundedInduction
  <2>9. Len(ss) \in S
    BY <1>1, <2>8
  <2> QED
    BY <1>3, <2>4, <2>9
<1> QED
  BY <1>2, <1>3

\* And those of them that come first, when it is given only these.
LEMMA FlattenFirst ==
  ASSUME NEW ss \in Seq(Seq(Nat)), NEW g, Joins(ss, g), NEW n \in 0 .. Len(ss)
  PROVE  FlattenSeq(SubSeq(ss, 1, n)) = g[n]
<1> DEFINE t == SubSeq(ss, 1, n)
           h == [k \in 0 .. n |-> g[k]]
<1>1. Len(ss) \in Nat
  BY LenProperties
<1>2. t \in Seq(Seq(Nat)) /\ Len(t) = n /\ \A k \in 1 .. n : t[k] = ss[k]
  BY <1>1, SubSeqProperties
<1> HIDE DEF t
<1>3. Joins(t, h)
  <2>1. h \in [0 .. n -> Seq(Nat)] /\ h[0] = <<>>
    <3>1. g \in [0 .. Len(ss) -> Seq(Nat)] /\ g[0] = <<>>
      BY DEF Joins
    <3>2. 0 \in 0 .. n /\ \A k \in 0 .. n : k \in 0 .. Len(ss)
      BY <1>1
    <3> QED
      BY <3>1, <3>2
  <2>2. ASSUME NEW k \in 1 .. n PROVE h[k] = h[k - 1] \o t[k]
    <3>1. k \in 0 .. n /\ k - 1 \in 0 .. n /\ k \in 1 .. Len(ss)
      BY <1>1
    <3> QED
      BY <1>2, <3>1 DEF Joins
  <2> HIDE DEF h
  <2> QED
    BY <1>2, <2>1, <2>2 DEF Joins
<1>4. FlattenSeq(t) = h[n]
  <2> HIDE DEF h
  <2> QED
    BY <1>2, <1>3, FlattenIs
<1> QED
  BY <1>1, <1>4 DEF t

\* What was joined stays where it is.
LEMMA JoinsGrow ==
  ASSUME NEW ss \in Seq(Seq(Nat)), NEW g, Joins(ss, g),
         NEW m \in 0 .. Len(ss), NEW n \in 0 .. Len(ss), m <= n
  PROVE  /\ Len(g[m]) <= Len(g[n])
         /\ \A x \in 1 .. Len(g[m]) : g[n][x] = g[m][x]
<1> DEFINE S == {k \in 0 .. Len(ss) : m <= k =>
                   /\ Len(g[m]) <= Len(g[k])
                   /\ \A x \in 1 .. Len(g[m]) : g[k][x] = g[m][x]}
<1>1. /\ Len(ss) \in Nat /\ \A k \in 1 .. Len(ss) : ss[k] \in Seq(Nat)
      /\ \A k \in 0 .. Len(ss) : g[k] \in Seq(Nat) /\ Len(g[k]) \in Nat
  BY LenProperties, ElementOfSeq DEF Joins
<1>2. 0 \in S
  BY <1>1
<1>3. ASSUME NEW k \in 0 .. (Len(ss) - 1), k \in S PROVE k + 1 \in S
  <2>1. /\ k + 1 \in 1 .. Len(ss) /\ k + 1 \in 0 .. Len(ss) /\ (k + 1) - 1 = k
        /\ k \in 0 .. Len(ss)
    BY <1>1
  <2>2. g[k + 1] = g[k] \o ss[k + 1]
    BY <2>1 DEF Joins
  <2>3. CASE m <= k
    <3>1. /\ Len(g[k + 1]) = Len(g[k]) + Len(ss[k + 1])
          /\ Len(ss[k + 1]) \in Nat
          /\ \A x \in 1 .. Len(g[k]) : g[k + 1][x] = g[k][x]
      <4>1. PICK s : s = g[k]
        OBVIOUS
      <4>2. PICK t : t = ss[k + 1]
        OBVIOUS
      <4>3. s \in Seq(Nat) /\ t \in Seq(Nat) /\ g[k + 1] = s \o t
        BY <1>1, <2>1, <2>2, <4>1, <4>2
      <4>4. /\ Len(s \o t) = Len(s) + Len(t) /\ Len(t) \in Nat
            /\ \A x \in 1 .. Len(s) : (s \o t)[x] = s[x]
        BY <4>3, JoinedIs
      <4> QED
        BY <4>1, <4>2, <4>3, <4>4
    <3>2. /\ Len(g[m]) <= Len(g[k])
          /\ \A x \in 1 .. Len(g[m]) : g[k][x] = g[m][x]
      BY <1>3, <2>3
    <3>3. Len(g[m]) \in Nat /\ Len(g[k]) \in Nat
      BY <1>1, <2>1
    <3>4. Len(g[m]) <= Len(g[k + 1])
      <4> DEFINE a == Len(g[m])
                 b == Len(g[k])
                 c == Len(g[k + 1])
                 d == Len(ss[k + 1])
      <4>1. a \in Nat /\ b \in Nat /\ d \in Nat /\ c = b + d /\ a <= b
        BY <3>1, <3>2, <3>3
      <4> HIDE DEF a, b, c, d
      <4>2. a <= c
        BY <4>1
      <4> QED
        BY <4>2 DEF a, c
    <3>5. \A x \in 1 .. Len(g[m]) : x \in 1 .. Len(g[k])
      BY <3>2, <3>3
    <3> QED
      BY <2>1, <3>1, <3>2, <3>4, <3>5
  <2>4. CASE ~(m <= k)
    <3>1. CASE m = k + 1
      BY <1>1, <2>1, <3>1
    <3>2. CASE m # k + 1
      BY <1>1, <2>1, <2>4, <3>2
    <3> QED
      BY <3>1, <3>2
  <2> QED
    BY <2>3, <2>4
<1>4. \A k \in 0 .. Len(ss) : k \in S
  <2> HIDE DEF S
  <2> QED
    BY <1>1, <1>2, <1>3, BoundedInduction
<1> QED
  BY <1>4

\* Where the n-th sequence is in the whole.
LEMMA PlaceInFlatten ==
  ASSUME NEW ss \in Seq(Seq(Nat)), NEW n \in 1 .. Len(ss)
  PROVE  LET before == FlattenSeq(SubSeq(ss, 1, n - 1))
             upto   == FlattenSeq(SubSeq(ss, 1, n))
         IN  /\ FlattenSeq(ss) \in Seq(Nat)
             /\ before \in Seq(Nat) /\ upto \in Seq(Nat)
             /\ Len(upto) = Len(before) + Len(ss[n])
             /\ Len(upto) <= Len(FlattenSeq(ss))
             /\ \A j \in 1 .. Len(ss[n]) :
                   FlattenSeq(ss)[Len(before) + j] = ss[n][j]
<1>1. PICK g : Joins(ss, g)
  BY JoinsExist
<1> DEFINE N == Len(ss)
<1>2. N \in Nat /\ n - 1 \in 0 .. N /\ n \in 0 .. N /\ N \in 0 .. N
  BY LenProperties
<1>3. /\ FlattenSeq(ss) = g[N]
      /\ FlattenSeq(SubSeq(ss, 1, n - 1)) = g[n - 1]
      /\ FlattenSeq(SubSeq(ss, 1, n)) = g[n]
  BY <1>1, <1>2, FlattenIs, FlattenFirst
<1>4. /\ g[n - 1] \in Seq(Nat) /\ g[n] \in Seq(Nat) /\ g[N] \in Seq(Nat)
      /\ ss[n] \in Seq(Nat) /\ g[n] = g[n - 1] \o ss[n]
  BY <1>1, <1>2, ElementOfSeq DEF Joins
<1>5. /\ Len(g[n - 1]) \in Nat /\ Len(ss[n]) \in Nat
      /\ Len(g[n]) = Len(g[n - 1]) + Len(ss[n])
  BY <1>4, JoinedIs
<1>6. /\ Len(g[n]) <= Len(g[N])
      /\ \A x \in 1 .. Len(g[n]) : g[N][x] = g[n][x]
  BY <1>1, <1>2, JoinsGrow
<1>7. ASSUME NEW j \in 1 .. Len(ss[n])
      PROVE  g[N][Len(g[n - 1]) + j] = ss[n][j]
  <2> DEFINE a == Len(g[n - 1])
             c == Len(ss[n])
  <2>1. a \in Nat /\ c \in Nat /\ Len(g[n]) = a + c /\ j \in 1 .. c
    BY <1>5
  <2> HIDE DEF a, c
  <2>2. a + j \in 1 .. (a + c)
    BY <2>1
  <2>3. g[n][a + j] = ss[n][j]
    <3>1. PICK s : s = g[n - 1]
      OBVIOUS
    <3>2. PICK t : t = ss[n]
      OBVIOUS
    <3>3. s \in Seq(Nat) /\ t \in Seq(Nat) /\ g[n] = s \o t /\ a = Len(s)
      BY <1>4, <3>1, <3>2 DEF a
    <3>4. \A x \in 1 .. Len(t) : (s \o t)[Len(s) + x] = t[x]
      BY <3>3, JoinedIs
    <3> QED
      BY <3>2, <3>3, <3>4
  <2>4. g[N][a + j] = g[n][a + j]
    BY <1>6, <2>1, <2>2
  <2> QED
    BY <2>3, <2>4 DEF a
<1> HIDE DEF N
<1> QED
  BY <1>3, <1>4, <1>5, <1>6, <1>7

-----------------------------------------------------------------------------
(* What is in memory where.                                                *)

Tagged(tags) == [i \in DOMAIN tags |-> TagInMemory(tags[i])]
Imaged(l)    == [i \in DOMAIN l.images |-> ImageInMemory(l.images[i])]

LEMMA AddrType == Addr \subseteq Nat /\ Word \in Nat /\ NULL = 0 /\ kImage3Magic \in Nat
  BY Image3Assumption DEF Addr, NULL

LEMMA TagIs ==
  ASSUME NEW t \in Tag
  PROVE  /\ TagInMemory(t) \in Seq(Nat) /\ Len(TagInMemory(t)) = t.length
         /\ TagInMemory(t)[1] = t.magic /\ TagInMemory(t)[2] = t.size
         /\ t.length \in Nat /\ t.length >= 3
<1>1. /\ t.magic \in Nat /\ t.size \in Nat /\ t.length \in Nat /\ t.length >= 3
      /\ TagWords = 3 /\ kImage3TagData \in Nat
  BY AddrType, Image3Assumption DEF Tag, TagWords
<1> DEFINE n == t.length - TagWords
           h == <<t.magic, t.size, n>>
           p == [i \in 1 .. n |-> kImage3TagData]
<1>2. n \in Nat /\ t.length = 3 + n
  BY <1>1
<1>3. h \in Seq(Nat) /\ Len(h) = 3 /\ h[1] = t.magic /\ h[2] = t.size
  BY <1>1, <1>2
<1>4. p \in Seq(Nat) /\ Len(p) = n
  BY <1>1, <1>2
<1>5. TagInMemory(t) = h \o p
  BY DEF TagInMemory
<1> HIDE DEF n, h, p
<1>6. /\ h \o p \in Seq(Nat) /\ Len(h \o p) = 3 + n
      /\ (h \o p)[1] = h[1] /\ (h \o p)[2] = h[2]
  <2>1. /\ h \o p \in Seq(Nat) /\ Len(h \o p) = Len(h) + Len(p)
        /\ \A x \in 1 .. Len(h) : (h \o p)[x] = h[x]
    BY <1>3, <1>4, JoinedIs
  <2>2. 1 \in 1 .. Len(h) /\ 2 \in 1 .. Len(h)
    BY <1>3
  <2> QED
    BY <1>3, <1>4, <2>1, <2>2
<1> QED
  BY <1>1, <1>2, <1>3, <1>5, <1>6

LEMMA TaggedIs ==
  ASSUME NEW tags \in Seq(Tag)
  PROVE  /\ Tagged(tags) \in Seq(Seq(Nat)) /\ Len(Tagged(tags)) = Len(tags)
         /\ Len(tags) \in Nat
         /\ \A i \in 1 .. Len(tags) :
               tags[i] \in Tag /\ Tagged(tags)[i] = TagInMemory(tags[i])
<1>1. /\ Len(tags) \in Nat /\ DOMAIN tags = 1 .. Len(tags)
      /\ \A i \in 1 .. Len(tags) : tags[i] \in Tag
  BY LenProperties, ElementOfSeq
<1>2. Tagged(tags) \in [1 .. Len(tags) -> Seq(Nat)]
  BY <1>1, TagIs DEF Tagged
<1> QED
  BY <1>1, <1>2 DEF Tagged

LEMMA TagsAre ==
  ASSUME NEW tags \in Seq(Tag), NEW n \in 0 .. Len(tags)
  PROVE  /\ TagsInMemory(tags) = FlattenSeq(Tagged(tags))
         /\ TagsInMemory(SubSeq(tags, 1, n)) = FlattenSeq(SubSeq(Tagged(tags), 1, n))
<1>1. /\ Len(tags) \in Nat /\ DOMAIN tags = 1 .. Len(tags)
      /\ \A i \in 1 .. Len(tags) : tags[i] \in Tag
  BY LenProperties, ElementOfSeq
<1>2. PICK some : some = SubSeq(tags, 1, n)
  OBVIOUS
<1>3. /\ some \in Seq(Tag) /\ Len(some) = n /\ DOMAIN some = 1 .. n
      /\ \A i \in 1 .. n : some[i] = tags[i]
  BY <1>1, <1>2, SubSeqProperties, LenProperties
<1>4. PICK ss : ss = Tagged(tags)
  OBVIOUS
<1>5. /\ ss \in Seq(Seq(Nat)) /\ Len(ss) = Len(tags)
      /\ \A i \in 1 .. Len(tags) : ss[i] = TagInMemory(tags[i])
  BY <1>4, TaggedIs
<1>6. PICK first : first = SubSeq(ss, 1, n)
  OBVIOUS
<1>7. /\ first \in Seq(Seq(Nat)) /\ Len(first) = n
      /\ \A i \in 1 .. n : first[i] = ss[i]
  BY <1>1, <1>5, <1>6, SubSeqProperties
<1>8. /\ Tagged(some) \in Seq(Seq(Nat)) /\ Len(Tagged(some)) = n
      /\ \A i \in 1 .. n : Tagged(some)[i] = first[i]
  BY <1>1, <1>3, <1>5, <1>7, TaggedIs
<1>9. Tagged(some) = first
  BY <1>7, <1>8, SeqEqual
<1> QED
  BY <1>2, <1>4, <1>6, <1>9 DEF TagsInMemory, Tagged

\* Where a tag's header is among the tags.
LEMMA TagPlace ==
  ASSUME NEW tags \in Seq(Tag), NEW k \in 1 .. Len(tags)
  PROVE  LET b == Len(TagsInMemory(SubSeq(tags, 1, k - 1)))
             c == Len(TagsInMemory(SubSeq(tags, 1, k)))
             m == TagsInMemory(tags)
         IN  /\ b \in Nat /\ c \in Nat /\ m \in Seq(Nat) /\ Len(m) \in Nat
             /\ c = b + tags[k].length /\ c <= Len(m)
             /\ b + 2 \in 1 .. Len(m)
             /\ m[b + 1] = tags[k].magic /\ m[b + 2] = tags[k].size
<1>1. PICK ss : ss = Tagged(tags)
  OBVIOUS
<1>2. /\ ss \in Seq(Seq(Nat)) /\ Len(ss) = Len(tags) /\ Len(tags) \in Nat
      /\ tags[k] \in Tag /\ ss[k] = TagInMemory(tags[k])
  BY <1>1, TaggedIs
<1>3. k \in 1 .. Len(ss) /\ k \in 0 .. Len(tags) /\ k - 1 \in 0 .. Len(tags)
  BY <1>2
<1>4. PICK m : m = FlattenSeq(ss)
  OBVIOUS
<1>5. PICK p : p = FlattenSeq(SubSeq(ss, 1, k - 1))
  OBVIOUS
<1>6. PICK q : q = FlattenSeq(SubSeq(ss, 1, k))
  OBVIOUS
<1>7. /\ m \in Seq(Nat) /\ p \in Seq(Nat) /\ q \in Seq(Nat)
      /\ Len(q) = Len(p) + Len(ss[k]) /\ Len(q) <= Len(m)
      /\ \A j \in 1 .. Len(ss[k]) : m[Len(p) + j] = ss[k][j]
  BY <1>2, <1>3, <1>4, <1>5, <1>6, PlaceInFlatten
<1>8. /\ TagsInMemory(tags) = m
      /\ TagsInMemory(SubSeq(tags, 1, k - 1)) = p
      /\ TagsInMemory(SubSeq(tags, 1, k)) = q
  BY <1>1, <1>3, <1>4, <1>5, <1>6, TagsAre
<1> DEFINE a == Len(p)
           c == Len(q)
           n == tags[k].length
           e == Len(m)
<1>9. /\ a \in Nat /\ c \in Nat /\ n \in Nat /\ n >= 3 /\ e \in Nat
      /\ c = a + n /\ c <= e
      /\ m[a + 1] = tags[k].magic /\ m[a + 2] = tags[k].size
  <2>1. /\ Len(ss[k]) = n /\ n \in Nat /\ n >= 3
        /\ ss[k][1] = tags[k].magic /\ ss[k][2] = tags[k].size
    BY <1>2, TagIs
  <2>2. 1 \in 1 .. n /\ 2 \in 1 .. n
    BY <2>1
  <2>3. a \in Nat /\ c \in Nat /\ e \in Nat
    BY <1>7, LenProperties
  <2> HIDE DEF a, c, n, e
  <2> QED
    BY <1>7, <2>1, <2>2, <2>3 DEF a, c, e
<1> HIDE DEF a, c, n, e
<1>10. a + 2 \in 1 .. e
  BY <1>9
<1>11. /\ a \in Nat /\ c \in Nat /\ m \in Seq(Nat) /\ e \in Nat
       /\ c = a + n /\ c <= e /\ a + 2 \in 1 .. e
       /\ m[a + 1] = tags[k].magic /\ m[a + 2] = tags[k].size
  BY <1>7, <1>9, <1>10
<1> QED
  BY <1>8, <1>11 DEF a, c, n, e

\* None of the tags are no words, all of them are all.
LEMMA TagsEnds ==
  ASSUME NEW tags \in Seq(Tag)
  PROVE  /\ Len(TagsInMemory(SubSeq(tags, 1, 0))) = 0
         /\ TagsInMemory(SubSeq(tags, 1, Len(tags))) = TagsInMemory(tags)
         /\ TagsInMemory(tags) \in Seq(Nat)
<1>1. PICK ss : ss = Tagged(tags)
  OBVIOUS
<1>2. ss \in Seq(Seq(Nat)) /\ Len(ss) = Len(tags) /\ Len(tags) \in Nat
  BY <1>1, TaggedIs
<1>3. 0 \in 0 .. Len(tags) /\ Len(tags) \in 0 .. Len(tags)
  BY <1>2
<1>4. PICK g : Joins(ss, g)
  BY <1>2, JoinsExist
<1>5. FlattenSeq(SubSeq(ss, 1, 0)) = g[0] /\ g[0] = <<>>
  BY <1>2, <1>3, <1>4, FlattenFirst DEF Joins
<1>6. /\ FlattenSeq(SubSeq(ss, 1, Len(tags))) = g[Len(tags)]
      /\ FlattenSeq(ss) = g[Len(tags)] /\ g[Len(tags)] \in Seq(Nat)
  <2>1. PICK n : n = Len(tags)
    OBVIOUS
  <2>2. n \in 0 .. Len(ss) /\ n = Len(ss)
    BY <1>2, <1>3, <2>1
  <2>3. FlattenSeq(SubSeq(ss, 1, n)) = g[n]
    BY <1>2, <1>4, <2>2, FlattenFirst
  <2>4. FlattenSeq(ss) = g[n]
    BY <1>2, <1>4, <2>2, FlattenIs
  <2>5. g[n] \in Seq(Nat)
    BY <1>4, <2>2 DEF Joins
  <2> QED
    BY <2>1, <2>3, <2>4, <2>5
<1>7. Len(<<>>) = 0
  BY EmptySeq
<1> QED
  BY <1>1, <1>3, <1>5, <1>6, <1>7, TagsAre

LEMMA ImageIs ==
  ASSUME NEW im \in Image
  PROVE  LET w == ImageInMemory(im)
             m == TagsInMemory(im.tags)
         IN  /\ w \in Seq(Nat) /\ Len(w) = Extent(im)
             /\ Extent(im) = 5 + Len(m) /\ Len(m) \in Nat
             /\ w[1] = kImage3Magic /\ w[2] = im.size /\ w[5] = im.type
             /\ \A x \in 1 .. Len(m) : w[5 + x] = m[x]
<1> DEFINE m == TagsInMemory(im.tags)
           h == <<kImage3Magic, im.size, 0, 0, im.type>>
<1>1. im.size \in Nat /\ im.type \in Nat /\ im.tags \in Seq(Tag)
  BY AddrType DEF Image
<1>2. m \in Seq(Nat)
  BY <1>1, TagsEnds
<1>3. /\ h \in Seq(Nat) /\ Len(h) = 5 /\ h[1] = kImage3Magic
      /\ h[2] = im.size /\ h[5] = im.type
  BY <1>1, AddrType
<1>4. ImageInMemory(im) = h \o m
  BY DEF ImageInMemory
<1>5. Extent(im) = 5 + Len(m)
  BY DEF Extent, RootWords
<1> HIDE DEF h, m
<1>6. /\ h \o m \in Seq(Nat) /\ Len(h \o m) = Len(h) + Len(m) /\ Len(m) \in Nat
      /\ \A x \in 1 .. Len(h) : (h \o m)[x] = h[x]
      /\ \A x \in 1 .. Len(m) : (h \o m)[Len(h) + x] = m[x]
  BY <1>2, <1>3, JoinedIs
<1>7. 1 \in 1 .. Len(h) /\ 2 \in 1 .. Len(h) /\ 5 \in 1 .. Len(h)
  BY <1>3
<1>8. /\ (h \o m)[1] = kImage3Magic /\ (h \o m)[2] = im.size
      /\ (h \o m)[5] = im.type
      /\ \A x \in 1 .. Len(m) : (h \o m)[5 + x] = m[x]
  BY <1>3, <1>6, <1>7
<1>9. LET w == h \o m
      IN  /\ w \in Seq(Nat) /\ Len(w) = 5 + Len(m) /\ Len(m) \in Nat
          /\ w[1] = kImage3Magic /\ w[2] = im.size /\ w[5] = im.type
          /\ \A x \in 1 .. Len(m) : w[5 + x] = m[x]
  BY <1>3, <1>6, <1>8
<1> QED
  BY <1>4, <1>5, <1>9 DEF m

\* The words before the n-th image.
Before(l, n) == Len(FlattenSeq(SubSeq(Imaged(l), 1, n - 1)))

LEMMA ImagedIs ==
  ASSUME NEW l \in Layout
  PROVE  /\ Imaged(l) \in Seq(Seq(Nat)) /\ Len(Imaged(l)) = Len(l.images)
         /\ Len(l.images) \in Nat /\ DOMAIN l.images = 1 .. Len(l.images)
         /\ \A n \in 1 .. Len(l.images) :
               /\ l.images[n] \in Image
               /\ Imaged(l)[n] = ImageInMemory(l.images[n])
         /\ l.behind \in Seq(Nat) /\ Len(l.behind) \in Nat
<1>1. l.images \in Seq(Image) /\ l.behind \in Seq(Addr)
  BY DEF Layout
<1>2. /\ Len(l.images) \in Nat /\ DOMAIN l.images = 1 .. Len(l.images)
      /\ \A n \in 1 .. Len(l.images) : l.images[n] \in Image
  BY <1>1, LenProperties, ElementOfSeq
<1>3. Imaged(l) \in [1 .. Len(l.images) -> Seq(Nat)]
  BY <1>2, ImageIs DEF Imaged
<1>4. l.behind \in Seq(Nat) /\ Len(l.behind) \in Nat
  <2>1. PICK b : b = l.behind
    OBVIOUS
  <2>2. /\ Len(b) \in Nat /\ DOMAIN b = 1 .. Len(b)
        /\ b = [x \in 1 .. Len(b) |-> b[x]]
    BY <1>1, <2>1, LenProperties
  <2>3. \A x \in 1 .. Len(b) : b[x] \in Nat
    BY <1>1, <2>1, ElementOfSeq, AddrType
  <2>4. b \in Seq(Nat)
    BY <2>2, <2>3
  <2> QED
    BY <2>1, <2>2, <2>4
<1>5. /\ Imaged(l) \in Seq(Seq(Nat)) /\ Len(Imaged(l)) = Len(l.images)
      /\ \A n \in 1 .. Len(l.images) :
            Imaged(l)[n] = ImageInMemory(l.images[n])
  BY <1>2, <1>3 DEF Imaged
<1> QED
  BY <1>2, <1>4, <1>5

\* What ImageAt measures.
LEMMA BeforeIs ==
  ASSUME NEW l \in Layout, NEW n \in 1 .. (Len(l.images) + 1)
  PROVE  Len(InMemory([images |-> SubSeq(l.images, 1, n - 1),
                       behind |-> <<>>])) = Before(l, n)
<1>1. /\ Len(l.images) \in Nat /\ DOMAIN l.images = 1 .. Len(l.images)
      /\ \A i \in 1 .. Len(l.images) : l.images[i] \in Image
      /\ l.images \in Seq(Image)
  BY ImagedIs DEF Layout
<1>2. PICK m : m = n - 1
  OBVIOUS
<1>3. m \in 0 .. Len(l.images) /\ m \in Nat
  BY <1>1, <1>2
<1>4. PICK some : some = [images |-> SubSeq(l.images, 1, m), behind |-> <<>>]
  OBVIOUS
<1>5. /\ some.images \in Seq(Image) /\ Len(some.images) = m
      /\ \A i \in 1 .. m : some.images[i] = l.images[i]
  BY <1>1, <1>3, <1>4, SubSeqProperties
<1>6. some \in Layout
  <2>1. <<>> \in Seq(Addr)
    BY EmptySeq
  <2> QED
    BY <1>4, <1>5, <2>1 DEF Layout
<1>7. PICK ss : ss = Imaged(l)
  OBVIOUS
<1>8. /\ ss \in Seq(Seq(Nat)) /\ Len(ss) = Len(l.images)
      /\ \A i \in 1 .. Len(l.images) : ss[i] = ImageInMemory(l.images[i])
  BY <1>7, ImagedIs
<1>9. PICK first : first = SubSeq(ss, 1, m)
  OBVIOUS
<1>10. /\ first \in Seq(Seq(Nat)) /\ Len(first) = m
       /\ \A i \in 1 .. m : first[i] = ss[i]
  BY <1>1, <1>3, <1>8, <1>9, SubSeqProperties
<1>11. /\ Imaged(some) \in Seq(Seq(Nat)) /\ Len(Imaged(some)) = m
       /\ \A i \in 1 .. m : Imaged(some)[i] = first[i]
  <2>1. /\ Imaged(some) \in Seq(Seq(Nat)) /\ Len(Imaged(some)) = m
        /\ \A i \in 1 .. m : Imaged(some)[i] = ImageInMemory(some.images[i])
    BY <1>5, <1>6, ImagedIs
  <2>2. \A i \in 1 .. m : i \in 1 .. Len(l.images)
    BY <1>1, <1>3
  <2> QED
    BY <1>5, <1>8, <1>10, <2>1, <2>2
<1>12. Imaged(some) = first
  BY <1>10, <1>11, SeqEqual
<1>13. InMemory(some) = FlattenSeq(first) \o <<>>
  BY <1>4, <1>12 DEF InMemory, Imaged
<1>14. FlattenSeq(first) \in Seq(Nat)
  <2>1. PICK g : Joins(ss, g)
    BY <1>8, JoinsExist
  <2>2. m \in 0 .. Len(ss)
    BY <1>3, <1>8
  <2>3. FlattenSeq(first) = g[m] /\ g[m] \in Seq(Nat)
    BY <1>8, <1>9, <2>1, <2>2, FlattenFirst DEF Joins
  <2> QED
    BY <2>3
<1>15. InMemory(some) = FlattenSeq(first)
  BY <1>13, <1>14, ConcatEmptySeq
<1> QED
  BY <1>2, <1>4, <1>7, <1>9, <1>15 DEF Before

\* The parts of a layout in memory: the images...
LEMMA LayoutIs ==
  ASSUME NEW l \in Layout
  PROVE  LET all == FlattenSeq(Imaged(l))
             e   == Len(all)
         IN  /\ all \in Seq(Nat) /\ e \in Nat
             /\ InMemory(l) \in Seq(Nat)
             /\ Len(InMemory(l)) = e + Len(l.behind)
             /\ \A x \in 1 .. e : InMemory(l)[x] = all[x]
             /\ \A x \in 1 .. Len(l.behind) : InMemory(l)[e + x] = l.behind[x]
             /\ Before(l, Len(l.images) + 1) = e
             /\ Before(l, 1) = 0
<1>1. PICK ss : ss = Imaged(l)
  OBVIOUS
<1>2. PICK n : n = Len(l.images)
  OBVIOUS
<1>3. /\ ss \in Seq(Seq(Nat)) /\ Len(ss) = n /\ n \in Nat
      /\ l.behind \in Seq(Nat)
  BY <1>1, <1>2, ImagedIs
<1>4. PICK g : Joins(ss, g)
  BY <1>3, JoinsExist
<1>5. 0 \in 0 .. Len(ss) /\ n \in 0 .. Len(ss) /\ (n + 1) - 1 = n /\ 1 - 1 = 0
  BY <1>3
<1>6. /\ FlattenSeq(ss) = g[n] /\ g[n] \in Seq(Nat)
      /\ FlattenSeq(SubSeq(ss, 1, n)) = g[n]
      /\ FlattenSeq(SubSeq(ss, 1, 0)) = <<>>
  <2>1. FlattenSeq(ss) = g[n]
    BY <1>3, <1>4, FlattenIs
  <2>2. /\ FlattenSeq(SubSeq(ss, 1, n)) = g[n]
        /\ FlattenSeq(SubSeq(ss, 1, 0)) = g[0]
    BY <1>3, <1>4, <1>5, FlattenFirst
  <2>3. g[n] \in Seq(Nat) /\ g[0] = <<>>
    BY <1>4, <1>5 DEF Joins
  <2> QED
    BY <2>1, <2>2, <2>3
<1>7. PICK all : all = g[n]
  OBVIOUS
<1>8. PICK b : b = l.behind
  OBVIOUS
<1>9. InMemory(l) = all \o b
  BY <1>1, <1>6, <1>7, <1>8 DEF InMemory, Imaged
<1>10. /\ all \o b \in Seq(Nat) /\ Len(all) \in Nat
       /\ Len(all \o b) = Len(all) + Len(b)
       /\ \A x \in 1 .. Len(all) : (all \o b)[x] = all[x]
       /\ \A x \in 1 .. Len(b) : (all \o b)[Len(all) + x] = b[x]
  BY <1>3, <1>6, <1>7, <1>8, JoinedIs
<1>11. Before(l, n + 1) = Len(all) /\ Before(l, 1) = Len(<<>>)
  BY <1>1, <1>5, <1>6, <1>7 DEF Before
<1>12. Len(<<>>) = 0
  BY EmptySeq
<1> QED
  BY <1>1, <1>2, <1>6, <1>7, <1>8, <1>9, <1>10, <1>11, <1>12

\* ... each with its header and its tags.
LEMMA ImagePlace ==
  ASSUME NEW l \in Layout, NEW n \in 1 .. Len(l.images)
  PROVE  LET im == l.images[n]
             a  == Before(l, n)
             w  == InMemory(l)
             m  == TagsInMemory(im.tags)
         IN  /\ a \in Nat /\ Before(l, n + 1) \in Nat
             /\ Before(l, n + 1) = a + Extent(im)
             /\ Before(l, n + 1) + Len(l.behind) <= Len(w)
             /\ Extent(im) = 5 + Len(m) /\ Len(m) \in Nat
             /\ w[a + 1] = kImage3Magic /\ w[a + 2] = im.size
             /\ w[a + 5] = im.type
             /\ \A x \in 1 .. Len(m) : w[a + (5 + x)] = m[x]
<1>1. PICK ss : ss = Imaged(l)
  OBVIOUS
<1>2. PICK im : im = l.images[n]
  OBVIOUS
<1>3. /\ ss \in Seq(Seq(Nat)) /\ Len(ss) = Len(l.images)
      /\ im \in Image /\ ss[n] = ImageInMemory(im) /\ n \in 1 .. Len(ss)
      /\ Len(l.behind) \in Nat
  BY <1>1, <1>2, ImagedIs
<1>4. PICK w : w = InMemory(l)
  OBVIOUS
<1>5. PICK all : all = FlattenSeq(ss)
  OBVIOUS
<1>6. PICK p : p = FlattenSeq(SubSeq(ss, 1, n - 1))
  OBVIOUS
<1>7. PICK q : q = FlattenSeq(SubSeq(ss, 1, n))
  OBVIOUS
<1>8. PICK m : m = TagsInMemory(im.tags)
  OBVIOUS
<1>9. /\ all \in Seq(Nat) /\ p \in Seq(Nat) /\ q \in Seq(Nat)
      /\ Len(q) = Len(p) + Len(ss[n]) /\ Len(q) <= Len(all)
      /\ \A j \in 1 .. Len(ss[n]) : all[Len(p) + j] = ss[n][j]
  BY <1>3, <1>5, <1>6, <1>7, PlaceInFlatten
<1>10. /\ Len(ss[n]) = Extent(im) /\ Extent(im) = 5 + Len(m) /\ Len(m) \in Nat
       /\ ss[n][1] = kImage3Magic /\ ss[n][2] = im.size /\ ss[n][5] = im.type
       /\ \A x \in 1 .. Len(m) : ss[n][5 + x] = m[x]
  BY <1>3, <1>8, ImageIs
<1>11. /\ Len(w) = Len(all) + Len(l.behind)
       /\ \A x \in 1 .. Len(all) : w[x] = all[x]
  BY <1>1, <1>4, <1>5, LayoutIs
<1>12. Before(l, n) = Len(p) /\ Before(l, n + 1) = Len(q)
  <2>1. (n + 1) - 1 = n
    OBVIOUS
  <2> QED
    BY <1>1, <1>6, <1>7, <2>1 DEF Before
<1> DEFINE a == Len(p)
           c == Len(q)
           e == Len(all)
           z == Len(m)
           b == Len(l.behind)
<1>13. /\ a \in Nat /\ c \in Nat /\ e \in Nat /\ z \in Nat /\ b \in Nat
       /\ c = a + (5 + z) /\ c <= e /\ Len(w) = e + b
  BY <1>3, <1>9, <1>10, <1>11, LenProperties
<1>14. \A j \in 1 .. (5 + z) : w[a + j] = ss[n][j]
  <2>1. \A j \in 1 .. (5 + z) : all[a + j] = ss[n][j]
    BY <1>9, <1>10
  <2> HIDE DEF a, c, e, z, b
  <2>2. \A j \in 1 .. (5 + z) : a + j \in 1 .. e
    BY <1>13
  <2>3. \A x \in 1 .. e : w[x] = all[x]
    BY <1>11 DEF e
  <2> QED
    BY <2>1, <2>2, <2>3
<1> HIDE DEF a, c, e, z, b
<1>15. /\ 1 \in 1 .. (5 + z) /\ 2 \in 1 .. (5 + z) /\ 5 \in 1 .. (5 + z)
       /\ \A x \in 1 .. z : 5 + x \in 1 .. (5 + z)
       /\ c + b <= e + b
  BY <1>13
<1>16. /\ w[a + 1] = kImage3Magic /\ w[a + 2] = im.size /\ w[a + 5] = im.type
       /\ \A x \in 1 .. z : w[a + (5 + x)] = m[x]
  BY <1>10, <1>14, <1>15 DEF z
<1>17. /\ a \in Nat /\ c \in Nat /\ c = a + Extent(im) /\ c + b <= Len(w)
       /\ Extent(im) = 5 + z /\ z \in Nat
  BY <1>10, <1>13, <1>15 DEF z
<1> QED
  BY <1>2, <1>4, <1>8, <1>12, <1>16, <1>17 DEF a, c, z, b

-----------------------------------------------------------------------------
(* The search.                                                             *)

MemoryOf(l) ==
    [x \in Addr |-> IF x - End \in 0 .. (Len(InMemory(l)) - 1)
                    THEN InMemory(l)[x - End + 1] ELSE 0]

\* The image and the DATA tags that are there to be found.
TheOne == layout.images[First(OfType)]
Data   == {k \in DOMAIN TheOne.tags : TheOne.tags[k].magic = kImage3TagData}

\* The pointers are where an image or a tag begins, or behind the last, and
\* what is searched for was not passed.
Searching ==
    /\ pc = "get_image3" =>
          \E n \in 1 .. (Len(layout.images) + 1) :
             /\ img3 = End + Before(layout, n)
             /\ \A k \in OfType : n <= k
    /\ pc = "find_tag" =>
          \E k \in 1 .. (Len(TheOne.tags) + 1) :
             /\ tag = TagAt(img3, TheOne, k)
             /\ \A j \in Data : k <= j

SearchInv ==
    /\ layout \in Layouts
    /\ mem = MemoryOf(layout)
    /\ Right => Searching /\ AsLaidOut

LEMMA WrapIs ==
  ASSUME NEW w \in Nat, NEW x \in Int
  PROVE  /\ 0 <= x /\ x < w => x % w = x
         /\ w <= x /\ x < w + w => x % w = x - w
         /\ x < 0 /\ -w <= x => x % w = x + w
  OBVIOUS

LEMMA PlainSums ==
  ASSUME NEW i \in Nat, NEW y \in Nat, NEW e \in Nat, NEW w \in Nat
  PROVE  /\ y + e < w /\ i + y < w => (i + y) + e < w + w
         /\ (i + y) + e \in Int /\ 0 <= (i + y) + e
         /\ ((i + y) + e) - i = y + e /\ y + e \in Int /\ 0 <= y + e
         /\ (((i + y) + e) - w) - i = (y + e) - w
         /\ ((y + e) - w) + w = y + e
         /\ (i + y) - i = y /\ y \in Int /\ 0 <= y
         /\ i + (y + e) < w => i + y < w /\ y + e < w /\ e < w
  OBVIOUS

LEMMA PlainBounds ==
  ASSUME NEW a \in Nat, NEW b \in Nat, NEW c \in Nat, NEW z \in Nat,
         NEW w \in Nat, a <= b, b <= c, c + z < w
  PROVE  a + z < w
  OBVIOUS

\* A distance that is less than the whole is found, also round the end.
LEMMA RoundTrip ==
  ASSUME NEW i \in Nat, NEW y \in Nat, NEW e \in Nat, NEW w \in Nat,
         y + e < w, i + y < w
  PROVE  ((((i + y) + e) % w) - i) % w = y + e
<1>1. PICK s : s = (i + y) + e
  OBVIOUS
<1>2. PICK d : d = y + e
  OBVIOUS
<1>3. /\ s \in Int /\ 0 <= s /\ s < w + w /\ s - i = d
      /\ d \in Int /\ 0 <= d /\ d < w /\ (s - w) - i = d - w
  BY <1>1, <1>2
<1>4. d % w = d /\ (d - w) % w = d
  <2>1. d - w \in Int /\ d - w < 0 /\ -w <= d - w /\ (d - w) + w = d
    BY <1>3
  <2>2. d % w = d
    BY <1>3, WrapIs
  <2>3. PICK x : x = d - w
    OBVIOUS
  <2>4. x \in Int /\ x < 0 /\ -w <= x /\ x + w = d
    BY <2>1, <2>3
  <2>5. x % w = d
    BY <2>4, WrapIs
  <2> QED
    BY <2>2, <2>3, <2>5
<1>5. CASE s < w
  BY <1>1, <1>2, <1>3, <1>4, <1>5, WrapIs
<1>6. CASE ~(s < w)
  <2>1. w <= s
    BY <1>3, <1>6
  <2>2. s % w = s - w
    BY <1>3, <2>1, WrapIs
  <2> QED
    BY <1>1, <1>2, <1>3, <1>4, <2>2
<1> QED
  BY <1>5, <1>6

LEMMA OffsetIs ==
  ASSUME Word \in Nat, img3 \in Nat, NEW y \in Nat, NEW e \in Nat,
         y + e < Word, img3 + y < Word
  PROVE  Offset(Plus(img3 + y, e)) = y + e
<1>1. \A w, i \in Nat : y + e < w /\ i + y < w =>
         ((((i + y) + e) % w) - i) % w = y + e
  BY RoundTrip
<1>2. ((((img3 + y) + e) % Word) - img3) % Word = y + e
  BY <1>1
<1> QED
  BY <1>2 DEF Offset, Plus

LEMMA FirstIs ==
  ASSUME NEW S \in SUBSET Nat, NEW n \in S, \A k \in S : n <= k
  PROVE  First(S) = n
<1> DEFINE f == CHOOSE m \in S : \A k \in S : m <= k
<1>1. f \in S /\ \A k \in S : f <= k
  OBVIOUS
<1> HIDE DEF f
<1>2. f <= n /\ n <= f /\ f \in Nat
  BY <1>1
<1>3. f = n
  BY <1>2
<1> QED
  BY <1>3 DEF First, f

LEMMA LayoutFacts ==
  ASSUME SearchInv
  PROVE  /\ layout \in Layout /\ Len(layout.behind) >= 2
         /\ layout.behind[1] # kImage3Magic /\ kImage3Magic # kImage3TagData
         /\ End \in Nat /\ End > 0 /\ Word \in Nat
         /\ Len(InMemory(layout)) \in Nat
         /\ End + Len(InMemory(layout)) <= Word
         /\ Len(layout.images) \in Nat /\ OfType \subseteq 1 .. Len(layout.images)
         /\ Len(layout.behind) \in Nat
<1>1. layout \in Layouts
  BY DEF SearchInv
<1>2. /\ layout \in Layout /\ Len(layout.behind) >= 2
      /\ layout.behind[1] # kImage3Magic /\ kImage3Magic # kImage3TagData
      /\ End \in Addr \ {NULL} /\ End + Len(InMemory(layout)) <= Word
  BY <1>1, Image3Assumption
<1>3. End \in Nat /\ End > 0 /\ Word \in Nat
  BY <1>2, AddrType
<1>4. InMemory(layout) \in Seq(Nat)
  BY <1>2, LayoutIs
<1>5. Len(InMemory(layout)) \in Nat
  BY <1>4, LenProperties
<1>6. /\ Len(layout.images) \in Nat /\ Len(layout.behind) \in Nat
      /\ DOMAIN layout.images = 1 .. Len(layout.images)
  BY <1>2, ImagedIs
<1> QED
  BY <1>2, <1>3, <1>5, <1>6 DEF OfType

\* A word of the layout in memory.
LEMMA WordAt ==
  ASSUME SearchInv, NEW i \in Nat, i + 1 <= Len(InMemory(layout))
  PROVE  /\ End + i \in Addr /\ End + i < Word
         /\ mem[End + i] = InMemory(layout)[i + 1]
<1> DEFINE w == InMemory(layout)
           z == Len(w)
<1>1. /\ End \in Nat /\ z \in Nat /\ Word \in Nat /\ End + z <= Word
      /\ mem = MemoryOf(layout)
  BY LayoutFacts DEF SearchInv
<1>2. i + 1 <= z
  OBVIOUS
<1>3. mem = [x \in Addr |-> IF x - End \in 0 .. (z - 1) THEN w[x - End + 1] ELSE 0]
  BY <1>1 DEF MemoryOf
<1> HIDE DEF w, z
<1>4. /\ End + i \in Addr /\ End + i < Word /\ (End + i) - End = i
      /\ i \in 0 .. (z - 1)
  BY <1>1, <1>2 DEF Addr
<1>5. mem[End + i] = w[i + 1]
  BY <1>3, <1>4
<1> QED
  BY <1>4, <1>5 DEF w

LEMMA PlusIs ==
  ASSUME SearchInv, NEW a \in Nat, NEW n \in Nat, a + n < Word
  PROVE  Plus(a, n) = a + n
<1>1. Word \in Nat /\ a + n \in Int /\ 0 <= a + n
  BY LayoutFacts
<1> QED
  BY <1>1, WrapIs DEF Plus

\* An image's header in memory...
LEMMA HeaderAt ==
  ASSUME SearchInv, NEW n \in 1 .. Len(layout.images)
  PROVE  LET a == Before(layout, n) IN
         /\ a \in Nat /\ End + a \in Nat
         /\ End + a # NULL
         /\ mem[End + a] = kImage3Magic
         /\ Plus(End + a, 1) = End + (a + 1)
         /\ mem[Plus(End + a, 1)] = layout.images[n].size
         /\ mem[Plus(End + a, 4)] = layout.images[n].type
         /\ Plus(End + a, RootWords) = End + (a + 5)
         /\ End + Before(layout, n + 1) < Word
<1>1. PICK a : a = Before(layout, n)
  OBVIOUS
<1>2. PICK c : c = Before(layout, n + 1)
  OBVIOUS
<1>3. PICK im : im = layout.images[n]
  OBVIOUS
<1>4. PICK x : x = Extent(im)
  OBVIOUS
<1>5. PICK w : w = InMemory(layout)
  OBVIOUS
<1>6. PICK b : b = Len(layout.behind)
  OBVIOUS
<1>7. PICK z : z = Len(w)
  OBVIOUS
<1>8. PICK m : m = Len(TagsInMemory(im.tags))
  OBVIOUS
<1>9. layout \in Layout
  BY LayoutFacts
<1>10. /\ a \in Nat /\ c = a + x /\ c + b <= z /\ x = 5 + m /\ m \in Nat
       /\ w[a + 1] = kImage3Magic /\ w[a + 2] = im.size /\ w[a + 5] = im.type
  BY <1>1, <1>2, <1>3, <1>4, <1>5, <1>6, <1>7, <1>8, <1>9, ImagePlace
<1>11. /\ End \in Nat /\ End > 0 /\ Word \in Nat /\ z \in Nat /\ End + z <= Word
       /\ b \in Nat /\ b >= 2
  BY <1>5, <1>6, <1>7, LayoutFacts
<1>12. /\ a + 5 <= z /\ a + 7 <= z /\ a + 1 \in Nat /\ a + 4 \in Nat
       /\ (a + 1) + 1 = a + 2 /\ (a + 4) + 1 = a + 5
       /\ a + 1 <= z /\ a + 2 <= z
       /\ (a + 1) + 1 <= z /\ (a + 4) + 1 <= z
  BY <1>10, <1>11
<1>13. /\ mem[End + a] = w[a + 1]
       /\ mem[End + (a + 1)] = w[a + 2]
       /\ mem[End + (a + 4)] = w[a + 5]
  <2>1. mem[End + a] = w[a + 1]
    BY <1>5, <1>7, <1>10, <1>12, WordAt
  <2>2. mem[End + (a + 1)] = w[(a + 1) + 1]
    BY <1>5, <1>7, <1>12, WordAt
  <2>3. mem[End + (a + 4)] = w[(a + 4) + 1]
    BY <1>5, <1>7, <1>12, WordAt
  <2> QED
    BY <1>12, <2>1, <2>2, <2>3
<1>14. /\ End + a \in Nat /\ (End + a) + 1 < Word /\ (End + a) + 4 < Word
       /\ (End + a) + 5 < Word /\ End + a # 0 /\ End + c < Word
       /\ (End + a) + 1 = End + (a + 1) /\ (End + a) + 4 = End + (a + 4)
       /\ (End + a) + 5 = End + (a + 5)
  BY <1>10, <1>11, <1>12
<1>15. /\ Plus(End + a, 1) = (End + a) + 1 /\ Plus(End + a, 4) = (End + a) + 4
       /\ Plus(End + a, RootWords) = (End + a) + 5
  BY <1>14, PlusIs DEF RootWords
<1> QED
  BY <1>1, <1>2, <1>3, <1>10, <1>13, <1>14, <1>15 DEF NULL

\* ... and what is behind the last.
LEMMA BehindAt ==
  ASSUME SearchInv
  PROVE  LET a == Before(layout, Len(layout.images) + 1) IN
         /\ a \in Nat /\ End + a \in Nat
         /\ mem[End + a] = layout.behind[1]
         /\ Plus(End + a, 1) = End + (a + 1)
         /\ mem[Plus(End + a, 1)] = layout.behind[2]
         /\ layout.behind[2] \in Nat
         /\ a <= Len(InMemory(layout)) /\ End + a < Word
<1>1. PICK a : a = Before(layout, Len(layout.images) + 1)
  OBVIOUS
<1>2. PICK w : w = InMemory(layout)
  OBVIOUS
<1>3. PICK z : z = Len(w)
  OBVIOUS
<1>4. PICK b : b = Len(layout.behind)
  OBVIOUS
<1>5. layout \in Layout
  BY LayoutFacts
<1>6. /\ a \in Nat /\ z = a + b
      /\ \A x \in 1 .. b : w[a + x] = layout.behind[x]
  BY <1>1, <1>2, <1>3, <1>4, <1>5, LayoutIs
<1>7. /\ End \in Nat /\ Word \in Nat /\ z \in Nat /\ End + z <= Word
      /\ b \in Nat /\ b >= 2
  BY <1>2, <1>3, <1>4, LayoutFacts
<1>8. layout.behind[2] \in Nat
  <2>1. layout.behind \in Seq(Nat)
    BY <1>5, ImagedIs
  <2>2. 2 \in 1 .. Len(layout.behind)
    BY <1>4, <1>7
  <2> QED
    BY <2>1, <2>2, ElementOfSeq
<1>9. /\ 1 \in 1 .. b /\ 2 \in 1 .. b /\ a + 1 <= z /\ (a + 1) + 1 <= z
      /\ a + 1 \in Nat /\ (a + 1) + 1 = a + 2
  BY <1>6, <1>7
<1>10. mem[End + a] = w[a + 1] /\ mem[End + (a + 1)] = w[(a + 1) + 1]
  <2>1. mem[End + a] = w[a + 1]
    BY <1>2, <1>3, <1>6, <1>9, WordAt
  <2>2. mem[End + (a + 1)] = w[(a + 1) + 1]
    BY <1>2, <1>3, <1>9, WordAt
  <2> QED
    BY <2>1, <2>2
<1>11. /\ End + a \in Nat /\ (End + a) + 1 < Word /\ (End + a) + 1 = End + (a + 1)
       /\ a <= z /\ End + a < Word
  BY <1>6, <1>7, <1>9
<1>12. Plus(End + a, 1) = (End + a) + 1
  BY <1>11, PlusIs
<1> QED
  BY <1>1, <1>2, <1>3, <1>6, <1>8, <1>9, <1>10, <1>11, <1>12

\* A tag's header in memory, and where the next tag is.
LEMMA TagHeaderAt ==
  ASSUME SearchInv, NEW n \in 1 .. Len(layout.images),
         NEW k \in 1 .. Len(layout.images[n].tags)
  PROVE  LET im == layout.images[n]
             a  == End + Before(layout, n)
             t  == TagAt(a, im, k)
         IN  /\ t \in Nat
             /\ mem[t] = im.tags[k].magic
             /\ mem[Plus(t, 1)] = im.tags[k].size
             /\ im.tags[k].length \in Nat
             /\ TagAt(a, im, k + 1) = t + im.tags[k].length
             /\ TagAt(a, im, k + 1) <= a + Extent(im)
             /\ TagAt(a, im, k + 1) < Word
<1>1. PICK a : a = Before(layout, n)
  OBVIOUS
<1>2. PICK c : c = Before(layout, n + 1)
  OBVIOUS
<1>3. PICK im : im = layout.images[n]
  OBVIOUS
<1>4. PICK w : w = InMemory(layout)
  OBVIOUS
<1>5. PICK z : z = Len(w)
  OBVIOUS
<1>6. PICK m : m = TagsInMemory(im.tags)
  OBVIOUS
<1>7. PICK y : y = Len(m)
  OBVIOUS
<1>8. PICK p : p = Len(TagsInMemory(SubSeq(im.tags, 1, k - 1)))
  OBVIOUS
<1>9. PICK q : q = Len(TagsInMemory(SubSeq(im.tags, 1, k)))
  OBVIOUS
<1>10. PICK d : d = im.tags[k].length
  OBVIOUS
<1>11. PICK b : b = Len(layout.behind)
  OBVIOUS
<1>12. layout \in Layout /\ im \in Image /\ im.tags \in Seq(Tag)
       /\ k \in 1 .. Len(im.tags)
  <2>1. layout \in Layout
    BY LayoutFacts
  <2>2. im \in Image
    BY <1>3, <2>1, ImagedIs
  <2> QED
    BY <1>3, <2>1, <2>2 DEF Image
<1>13. /\ a \in Nat /\ c = a + Extent(im) /\ c + b <= z
       /\ Extent(im) = 5 + y /\ y \in Nat
       /\ \A x \in 1 .. y : w[a + (5 + x)] = m[x]
  BY <1>1, <1>2, <1>3, <1>4, <1>5, <1>6, <1>7, <1>11, <1>12, ImagePlace
<1>14. /\ p \in Nat /\ q \in Nat /\ q = p + d /\ q <= y /\ p + 2 \in 1 .. y
       /\ m[p + 1] = im.tags[k].magic /\ m[p + 2] = im.tags[k].size
  BY <1>6, <1>7, <1>8, <1>9, <1>10, <1>12, TagPlace
<1>15. d \in Nat
  <2>1. im.tags[k] \in Tag
    BY <1>12, ElementOfSeq
  <2> QED
    BY <1>10, <2>1, TagIs
<1>16. /\ End \in Nat /\ Word \in Nat /\ z \in Nat /\ End + z <= Word
       /\ b \in Nat /\ b >= 2
  BY <1>4, <1>5, <1>11, LayoutFacts
<1>17. PICK t : t = End + (a + (5 + p))
  OBVIOUS
<1>18. TagAt(End + a, im, k) = t /\ TagAt(End + a, im, k + 1) = t + d
  <2>1. TagAt(End + a, im, k) = End + a + 5 + p
    BY <1>8 DEF TagAt, RootWords
  <2>2. TagAt(End + a, im, k + 1) = End + a + 5 + q
    <3>1. (k + 1) - 1 = k
      OBVIOUS
    <3> QED
      BY <1>9, <3>1 DEF TagAt, RootWords
  <2>3. End + a + 5 + p = t /\ End + a + 5 + q = t + d
    BY <1>13, <1>14, <1>15, <1>16, <1>17
  <2> QED
    BY <2>1, <2>2, <2>3
<1>19. /\ p + 1 \in 1 .. y /\ p + 2 \in 1 .. y
       /\ a + (5 + p) \in Nat /\ (a + (5 + p)) + 1 = a + (5 + (p + 1))
       /\ (a + (5 + p)) + 1 \in Nat
       /\ ((a + (5 + p)) + 1) + 1 = a + (5 + (p + 2))
       /\ (a + (5 + p)) + 1 <= z /\ ((a + (5 + p)) + 1) + 1 <= z
       /\ t \in Nat /\ t + 1 < Word /\ t + 1 = End + ((a + (5 + p)) + 1)
       /\ t + d <= (End + a) + Extent(im) /\ t + d < Word
  BY <1>13, <1>14, <1>15, <1>16, <1>17
<1>20. mem[t] = im.tags[k].magic
  <2>1. mem[t] = w[(a + (5 + p)) + 1]
    BY <1>4, <1>5, <1>17, <1>19, WordAt
  <2> QED
    BY <1>13, <1>14, <1>19, <2>1
<1>21. mem[t + 1] = im.tags[k].size
  <2>1. mem[t + 1] = w[((a + (5 + p)) + 1) + 1]
    BY <1>4, <1>5, <1>19, WordAt
  <2> QED
    BY <1>13, <1>14, <1>19, <2>1
<1>22. Plus(t, 1) = t + 1
  BY <1>19, PlusIs
<1> QED
  BY <1>1, <1>3, <1>10, <1>15, <1>18, <1>19, <1>20, <1>21, <1>22

LEMMA ImageAtIs ==
  ASSUME SearchInv, NEW n \in 1 .. (Len(layout.images) + 1)
  PROVE  ImageAt(n) = End + Before(layout, n)
  BY LayoutFacts, BeforeIs DEF ImageAt

\* The image searched for, when there is one.
LEMMA TheOneIs ==
  ASSUME SearchInv, OfType # {}
  PROVE  /\ First(OfType) \in OfType /\ \A k \in OfType : First(OfType) <= k
         /\ First(OfType) \in 1 .. Len(layout.images)
         /\ TheOne \in Image /\ TheOne.tags \in Seq(Tag)
         /\ Len(TheOne.tags) \in Nat /\ Data = {k \in 1 .. Len(TheOne.tags) :
                                      TheOne.tags[k].magic = kImage3TagData}
<1>1. /\ OfType \subseteq 1 .. Len(layout.images) /\ Len(layout.images) \in Nat
      /\ layout \in Layout
  BY LayoutFacts
<1>2. OfType \in SUBSET Nat
  BY <1>1
<1>3. PICK n \in OfType : \A k \in OfType : n <= k
  BY <1>2, Least
<1>4. First(OfType) = n
  BY <1>2, <1>3, FirstIs
<1>5. TheOne \in Image
  BY <1>1, <1>3, <1>4, ImagedIs DEF TheOne
<1>6. TheOne.tags \in Seq(Tag)
  BY <1>5 DEF Image
<1>7. Len(TheOne.tags) \in Nat /\ DOMAIN TheOne.tags = 1 .. Len(TheOne.tags)
  BY <1>6, LenProperties
<1> QED
  BY <1>1, <1>3, <1>4, <1>5, <1>6, <1>7 DEF Data

-----------------------------------------------------------------------------
(* The steps.                                                              *)

LEMMA InitHolds == Init => SearchInv
<1> SUFFICES ASSUME Init PROVE SearchInv
  OBVIOUS
<1>1. layout \in Layouts /\ mem = MemoryOf(layout)
  BY DEF Init, MemoryOf
<1>2. /\ layout \in Layout /\ Len(layout.images) \in Nat
      /\ OfType \subseteq 1 .. Len(layout.images)
  BY <1>1, Image3Assumption, ImagedIs DEF OfType
<1>3. img3 = End + Before(layout, 1)
  <2>1. Before(layout, 1) = 0 /\ img3 = End /\ End \in Nat
    BY <1>2, LayoutIs, Image3Assumption, AddrType DEF Init
  <2> QED
    BY <2>1
<1>4. Searching
  <2>1. 1 \in 1 .. (Len(layout.images) + 1) /\ \A k \in OfType : 1 <= k
    BY <1>2
  <2> QED
    BY <1>3, <2>1 DEF Searching, Init
<1>5. AsLaidOut
  BY DEF AsLaidOut, Init
<1> QED
  BY <1>1, <1>4, <1>5 DEF SearchInv

LEMMA NoImageKeeps ==
  ASSUME SearchInv, NoImage
  PROVE  SearchInv'
<1>1. /\ pc = "get_image3" /\ pc' = "no_image" /\ layout' = layout
      /\ mem' = mem /\ type' = type /\ img3' = img3 /\ tag' = tag
      /\ img3 = NULL \/ mem[img3] # kImage3Magic
  BY DEF NoImage
<1>2. layout' \in Layouts /\ mem' = MemoryOf(layout')
  BY <1>1 DEF SearchInv
<1>3. ASSUME Right' PROVE OfType = {}
  <2>1. Right
    BY <1>1, <1>3 DEF Right
  <2>2. PICK n \in 1 .. (Len(layout.images) + 1) :
           img3 = End + Before(layout, n) /\ \A k \in OfType : n <= k
    BY <1>1, <2>1 DEF SearchInv, Searching
  <2>3. n \notin 1 .. Len(layout.images)
    BY <1>1, <2>2, HeaderAt
  <2>4. Len(layout.images) \in Nat /\ OfType \subseteq 1 .. Len(layout.images)
    BY LayoutFacts
  <2> QED
    BY <2>2, <2>3, <2>4
<1>4. OfType' = OfType
  BY <1>1 DEF OfType
<1> QED
  BY <1>1, <1>2, <1>3, <1>4 DEF SearchInv, Searching, AsLaidOut

\* Where the search is when it is at an image.
LEMMA AtImageIs ==
  ASSUME SearchInv, Right, AtImage
  PROVE  \E n \in 1 .. Len(layout.images) :
            img3 = End + Before(layout, n) /\ \A k \in OfType : n <= k
<1>1. PICK n \in 1 .. (Len(layout.images) + 1) :
         img3 = End + Before(layout, n) /\ \A k \in OfType : n <= k
  BY DEF SearchInv, Searching, AtImage
<1>2. mem[img3] = kImage3Magic /\ Len(layout.images) \in Nat
      /\ layout.behind[1] # kImage3Magic
  BY LayoutFacts DEF AtImage
<1>3. n # Len(layout.images) + 1
  BY <1>1, <1>2, BehindAt
<1>4. n \in 1 .. Len(layout.images)
  BY <1>2, <1>3
<1> QED
  BY <1>1, <1>4

LEMMA NextImageKeeps ==
  ASSUME SearchInv, NextImage
  PROVE  SearchInv'
<1>1. /\ pc = "get_image3" /\ pc' = pc /\ layout' = layout
      /\ mem' = mem /\ type' = type /\ tag' = tag
      /\ AtImage /\ mem[Plus(img3, 4)] # type
      /\ img3' = Plus(img3, mem[Plus(img3, 1)])
  BY DEF NextImage, AtImage
<1>2. layout' \in Layouts /\ mem' = MemoryOf(layout')
  BY <1>1 DEF SearchInv
<1>3. ASSUME Right'
      PROVE  \E n \in 1 .. (Len(layout.images) + 1) :
                img3' = End + Before(layout, n) /\ \A k \in OfType : n <= k
  <2>1. Right
    BY <1>1, <1>3 DEF Right
  <2>2. PICK n \in 1 .. Len(layout.images) :
           img3 = End + Before(layout, n) /\ \A k \in OfType : n <= k
    BY <1>1, <2>1, AtImageIs
  <2>3. PICK im : im = layout.images[n]
    OBVIOUS
  <2>4. /\ layout \in Layout /\ Len(layout.images) \in Nat
        /\ DOMAIN layout.images = 1 .. Len(layout.images)
        /\ OfType \subseteq 1 .. Len(layout.images)
        /\ End \in Nat /\ Word \in Nat
    BY LayoutFacts, ImagedIs
  <2>5. im.size = Extent(im)
    BY <2>1, <2>3, <2>4 DEF Right
  <2>6. PICK a : a = Before(layout, n)
    OBVIOUS
  <2>7. PICK c : c = Before(layout, n + 1)
    OBVIOUS
  <2>8. PICK x : x = Extent(im)
    OBVIOUS
  <2>9. a \in Nat /\ c = a + x /\ x \in Nat
    <3>1. /\ a \in Nat /\ c = a + x
          /\ x = 5 + Len(TagsInMemory(im.tags))
          /\ Len(TagsInMemory(im.tags)) \in Nat
      BY <2>3, <2>4, <2>6, <2>7, <2>8, ImagePlace
    <3> QED
      BY <3>1
  <2>10. /\ mem[Plus(img3, 1)] = x /\ mem[Plus(img3, 4)] = im.type
         /\ End + c < Word
    BY <2>2, <2>3, <2>5, <2>6, <2>7, <2>8, HeaderAt
  <2>11. End + a \in Nat /\ (End + a) + x = End + c /\ (End + a) + x < Word
    BY <2>4, <2>9, <2>10
  <2>12. img3' = End + c
    BY <1>1, <2>2, <2>6, <2>9, <2>10, <2>11, PlusIs
  <2>13. n \notin OfType
    BY <1>1, <2>3, <2>10 DEF OfType
  <2>14. ASSUME NEW k \in OfType PROVE n + 1 <= k
    BY <2>2, <2>4, <2>13
  <2>15. n + 1 \in 1 .. (Len(layout.images) + 1)
    BY <2>4
  <2> QED
    BY <2>7, <2>12, <2>14, <2>15
<1>4. OfType' = OfType
  BY <1>1 DEF OfType
<1>5. ASSUME Right' PROVE Searching'
  BY <1>1, <1>3, <1>4, <1>5 DEF Searching
<1>6. AsLaidOut'
  BY <1>1 DEF AsLaidOut
<1> QED
  BY <1>2, <1>5, <1>6 DEF SearchInv

LEMMA TheImageKeeps ==
  ASSUME SearchInv, TheImage
  PROVE  SearchInv'
<1>1. /\ pc = "get_image3" /\ pc' = "find_tag" /\ layout' = layout
      /\ mem' = mem /\ type' = type /\ img3' = img3
      /\ AtImage /\ mem[Plus(img3, 4)] = type
      /\ tag' = Plus(img3, RootWords)
  BY DEF TheImage, AtImage
<1>2. layout' \in Layouts /\ mem' = MemoryOf(layout')
  BY <1>1 DEF SearchInv
<1>3. OfType' = OfType /\ TheOne' = TheOne /\ Data' = Data
  BY <1>1 DEF OfType, TheOne, Data
<1>4. ASSUME Right' PROVE Searching' /\ AsLaidOut'
  <2>1. Right
    BY <1>1, <1>4 DEF Right
  <2>2. PICK n \in 1 .. Len(layout.images) :
           img3 = End + Before(layout, n) /\ \A k \in OfType : n <= k
    BY <1>1, <2>1, AtImageIs
  <2>3. /\ layout \in Layout /\ Len(layout.images) \in Nat
        /\ DOMAIN layout.images = 1 .. Len(layout.images)
        /\ OfType \in SUBSET Nat /\ n \in 1 .. (Len(layout.images) + 1)
        /\ End \in Nat
    BY LayoutFacts, ImagedIs
  <2>4. n \in OfType
    <3>1. mem[Plus(img3, 4)] = layout.images[n].type
      BY <2>2, HeaderAt
    <3> QED
      BY <1>1, <2>3, <3>1 DEF OfType
  <2>5. First(OfType) = n
    BY <2>2, <2>3, <2>4, FirstIs
  <2>6. img3 = ImageAt(n)
    BY <2>2, <2>3, ImageAtIs
  <2>7. tag' = TagAt(img3, TheOne, 1)
    <3>1. TheOne.tags \in Seq(Tag)
      BY <2>4, TheOneIs
    <3>2. Len(TagsInMemory(SubSeq(TheOne.tags, 1, 1 - 1))) = 0
      <4>1. 1 - 1 = 0
        OBVIOUS
      <4> QED
        BY <3>1, <4>1, TagsEnds
    <3>3. Before(layout, n) \in Nat
      BY HeaderAt
    <3>4. tag' = End + (Before(layout, n) + 5)
      BY <1>1, <2>2, HeaderAt
    <3> DEFINE b == Before(layout, n)
    <3>5. b \in Nat /\ End \in Nat /\ img3 = End + b
      BY <2>2, <2>3, <3>3
    <3>6. TagAt(img3, TheOne, 1) = img3 + 5 + 0
      BY <3>2 DEF TagAt, RootWords
    <3> HIDE DEF b
    <3>7. End + (b + 5) = img3 + 5 + 0
      BY <3>5
    <3> QED
      BY <3>4, <3>6, <3>7 DEF b
  <2>8. Searching'
    <3>1. /\ 1 \in 1 .. (Len(TheOne.tags) + 1)
          /\ \A j \in Data : 1 <= j
      BY <2>4, TheOneIs
    <3>2. TagAt(img3, TheOne, 1)' = TagAt(img3, TheOne, 1)
      BY <1>1, <1>3 DEF TagAt
    <3> QED
      BY <1>1, <1>3, <2>7, <3>1, <3>2 DEF Searching
  <2>9. ImageAt(n)' = ImageAt(n)
    BY <1>1 DEF ImageAt
  <2>10. AsLaidOut'
    <3>1. pc' = "find_tag" /\ OfType' # {} /\ (img3 = ImageAt(First(OfType)))'
      <4>1. First(OfType)' = n
        BY <1>3, <2>5
      <4>2. ImageAt(First(OfType))' = ImageAt(n)
        BY <1>1, <4>1 DEF ImageAt
      <4> QED
        BY <1>1, <1>3, <2>4, <2>6, <4>2
    <3> QED
      BY <3>1 DEF AsLaidOut
  <2> QED
    BY <2>8, <2>10
<1> QED
  BY <1>2, <1>4 DEF SearchInv

\* Where the search is among the tags: at one of the image's, or behind them,
\* at what the layout has there.
LEMMA AtTagIs ==
  ASSUME SearchInv, Right, pc = "find_tag"
  PROVE  \E n \in OfType : \E k \in 1 .. (Len(TheOne.tags) + 1) :
            /\ First(OfType) = n /\ n \in 1 .. Len(layout.images)
            /\ img3 = End + Before(layout, n)
            /\ TheOne = layout.images[n]
            /\ TheOne.size = Extent(TheOne) /\ TagsRight(TheOne)
            /\ tag = TagAt(img3, TheOne, k) /\ \A j \in Data : k <= j
            /\ Extent(TheOne) \in Nat
            /\ k = Len(TheOne.tags) + 1 =>
                  /\ Data = {}
                  /\ tag = img3 + Extent(TheOne)
                  /\ tag = End + Before(layout, n + 1)
<1>1. OfType # {} /\ img3 = ImageAt(First(OfType))
  BY DEF SearchInv, AsLaidOut
<1>2. PICK n : n = First(OfType)
  OBVIOUS
<1>3. /\ n \in OfType /\ n \in 1 .. Len(layout.images)
      /\ TheOne = layout.images[n] /\ TheOne \in Image /\ TheOne.tags \in Seq(Tag)
      /\ Len(TheOne.tags) \in Nat /\ Data \subseteq 1 .. Len(TheOne.tags)
  BY <1>1, <1>2, TheOneIs DEF TheOne
<1>4. /\ layout \in Layout /\ Len(layout.images) \in Nat /\ End \in Nat
      /\ DOMAIN layout.images = 1 .. Len(layout.images)
  BY LayoutFacts, ImagedIs
<1>5. img3 = End + Before(layout, n)
  <2>1. n \in 1 .. (Len(layout.images) + 1)
    BY <1>3, <1>4
  <2> QED
    BY <1>1, <1>2, <2>1, ImageAtIs
<1>6. TheOne.size = Extent(TheOne) /\ TagsRight(TheOne)
  BY <1>3, <1>4 DEF Right
<1>7. PICK k \in 1 .. (Len(TheOne.tags) + 1) :
         tag = TagAt(img3, TheOne, k) /\ \A j \in Data : k <= j
  BY DEF SearchInv, Searching
<1>8. /\ Before(layout, n) \in Nat
      /\ Before(layout, n + 1) = Before(layout, n) + Extent(TheOne)
      /\ Extent(TheOne) = 5 + Len(TagsInMemory(TheOne.tags))
      /\ Len(TagsInMemory(TheOne.tags)) \in Nat
  BY <1>3, <1>4, ImagePlace
<1>9. Extent(TheOne) \in Nat
  BY <1>8
<1>10. ASSUME k = Len(TheOne.tags) + 1
       PROVE  /\ Data = {}
              /\ tag = img3 + Extent(TheOne)
              /\ tag = End + Before(layout, n + 1)
  <2>1. Data = {}
    <3>1. \A j \in Data : k <= j /\ j \in 1 .. Len(TheOne.tags)
      BY <1>3, <1>7
    <3> QED
      BY <1>3, <1>10, <3>1
  <2>2. k - 1 = Len(TheOne.tags)
    BY <1>3, <1>10
  <2>3. TagsInMemory(SubSeq(TheOne.tags, 1, k - 1)) = TagsInMemory(TheOne.tags)
    BY <1>3, <2>2, TagsEnds
  <2>4. tag = img3 + 5 + Len(TagsInMemory(TheOne.tags))
    BY <1>7, <2>3 DEF TagAt, RootWords
  <2> DEFINE b == Before(layout, n)
             c == Before(layout, n + 1)
             x == Extent(TheOne)
             y == Len(TagsInMemory(TheOne.tags))
  <2>5. /\ b \in Nat /\ c = b + x /\ x = 5 + y /\ y \in Nat
        /\ img3 = End + b /\ tag = img3 + 5 + y
    BY <1>5, <1>8, <2>4
  <2> HIDE DEF b, c, x, y
  <2>6. tag = img3 + x /\ tag = End + c
    BY <1>4, <2>5
  <2> QED
    BY <2>1, <2>6 DEF x, c
<1> QED
  BY <1>2, <1>3, <1>5, <1>6, <1>7, <1>9, <1>10

LEMMA TheTagKeeps ==
  ASSUME SearchInv, TheTag
  PROVE  SearchInv'
<1>1. /\ pc = "find_tag" /\ pc' = "found" /\ layout' = layout
      /\ mem' = mem /\ type' = type /\ img3' = img3 /\ tag' = tag
      /\ mem[tag] = kImage3TagData
  BY DEF TheTag
<1>2. layout' \in Layouts /\ mem' = MemoryOf(layout')
  BY <1>1 DEF SearchInv
<1>3. ASSUME Right' PROVE Searching' /\ AsLaidOut'
  <2>1. Right
    BY <1>1, <1>3 DEF Right
  <2>2. PICK n \in OfType : \E k \in 1 .. (Len(TheOne.tags) + 1) :
            /\ First(OfType) = n /\ n \in 1 .. Len(layout.images)
            /\ img3 = End + Before(layout, n)
            /\ TheOne = layout.images[n]
            /\ TheOne.size = Extent(TheOne) /\ TagsRight(TheOne)
            /\ tag = TagAt(img3, TheOne, k) /\ \A j \in Data : k <= j
            /\ Extent(TheOne) \in Nat
            /\ k = Len(TheOne.tags) + 1 =>
                  /\ Data = {}
                  /\ tag = img3 + Extent(TheOne)
                  /\ tag = End + Before(layout, n + 1)
    BY <1>1, <2>1, AtTagIs
  <2>3. PICK k \in 1 .. (Len(TheOne.tags) + 1) :
            /\ n \in 1 .. Len(layout.images)
            /\ tag = TagAt(img3, TheOne, k) /\ \A j \in Data : k <= j
            /\ k = Len(TheOne.tags) + 1 =>
                  /\ Data = {}
                  /\ tag = img3 + Extent(TheOne)
                  /\ tag = End + Before(layout, n + 1)
    BY <2>2
  <2>4. /\ Len(TheOne.tags) \in Nat
        /\ Data = {j \in 1 .. Len(TheOne.tags) :
                     TheOne.tags[j].magic = kImage3TagData}
    BY <2>2, TheOneIs
  <2>5. img3 = ImageAt(First(OfType))
    BY <1>1, <2>1 DEF SearchInv, AsLaidOut
  <2>6. IF Data # {} THEN tag = TagAt(img3, TheOne, First(Data))
        ELSE /\ First(OfType) = Len(layout.images)
             /\ layout.behind[1] = kImage3TagData
             /\ tag = img3 + TheOne.size
    <3>1. CASE k \in 1 .. Len(TheOne.tags)
      <4>1. mem[tag] = TheOne.tags[k].magic
        BY <2>2, <2>3, <3>1, TagHeaderAt
      <4>2. k \in Data
        BY <1>1, <2>4, <3>1, <4>1
      <4>3. Data \in SUBSET Nat
        BY <2>4
      <4>4. First(Data) = k
        BY <2>3, <4>2, <4>3, FirstIs
      <4> QED
        BY <2>3, <4>2, <4>4
    <3>2. CASE k = Len(TheOne.tags) + 1
      <4>1. Data = {} /\ tag = img3 + Extent(TheOne)
            /\ tag = End + Before(layout, n + 1)
        BY <2>3, <3>2
      <4>2. Len(layout.images) \in Nat /\ kImage3Magic # kImage3TagData
        BY LayoutFacts
      <4>3. n = Len(layout.images)
        <5> SUFFICES ASSUME n # Len(layout.images) PROVE FALSE
          OBVIOUS
        <5>1. n + 1 \in 1 .. Len(layout.images)
          BY <2>3, <4>2
        <5>2. mem[tag] = kImage3Magic
          BY <4>1, <5>1, HeaderAt
        <5> QED
          BY <1>1, <4>2, <5>2
      <4>4. mem[tag] = layout.behind[1]
        BY <4>1, <4>3, BehindAt
      <4> QED
        BY <1>1, <2>2, <4>1, <4>3, <4>4
    <3>3. k \in 1 .. Len(TheOne.tags) \/ k = Len(TheOne.tags) + 1
      BY <2>3, <2>4
    <3> QED
      BY <3>1, <3>2, <3>3
  <2>7. /\ OfType' = OfType /\ TheOne' = TheOne /\ Data' = Data
        /\ ImageAt(First(OfType))' = ImageAt(First(OfType))
    BY <1>1 DEF OfType, TheOne, Data, ImageAt
  <2>8. AsLaidOut'
    <3>1. /\ OfType' # {} /\ (img3 = ImageAt(First(OfType)))' /\ pc' = "found"
      BY <1>1, <2>2, <2>5, <2>7
    <3> QED
      BY <1>1, <2>6, <2>7, <3>1 DEF AsLaidOut, TheOne, Data
  <2>9. Searching'
    BY <1>1 DEF Searching
  <2> QED
    BY <2>8, <2>9
<1> QED
  BY <1>2, <1>3 DEF SearchInv

\* A step from one tag to the next, inside the image.
LEMMA NextTagInside ==
  ASSUME SearchInv, NextTag, Right, NEW n \in 1 .. Len(layout.images),
         NEW k \in 1 .. Len(TheOne.tags),
         img3 = End + Before(layout, n), TheOne = layout.images[n],
         TheOne.size = Extent(TheOne), TagsRight(TheOne),
         tag = TagAt(img3, TheOne, k), \A j \in Data : k <= j,
         Extent(TheOne) \in Nat, OfType # {}
  PROVE  /\ pc' = "find_tag"
         /\ tag' = TagAt(img3, TheOne, k + 1)
         /\ \A j \in Data : k + 1 <= j
<1>1. /\ mem[tag] # kImage3TagData
      /\ tag' = Plus(tag, mem[Plus(tag, 1)])
      /\ pc' = IF Beyond(tag') THEN "no_tag" ELSE pc
      /\ pc = "find_tag"
  BY DEF NextTag
<1>2. PICK t : t = TagAt(img3, TheOne, k + 1)
  OBVIOUS
<1>3. PICK d : d = TheOne.tags[k].length
  OBVIOUS
<1>4. PICK x : x = Extent(TheOne)
  OBVIOUS
<1>5. /\ tag \in Nat /\ mem[tag] = TheOne.tags[k].magic
      /\ mem[Plus(tag, 1)] = TheOne.tags[k].size
      /\ d \in Nat /\ t = tag + d /\ t <= img3 + x /\ t < Word
  BY <1>2, <1>3, <1>4, TagHeaderAt
<1>6. /\ Len(TheOne.tags) \in Nat
      /\ TheOne.tags \in Seq(Tag)
      /\ Data = {j \in 1 .. Len(TheOne.tags) :
                   TheOne.tags[j].magic = kImage3TagData}
  BY TheOneIs
<1>7. TheOne.tags[k].size = d
  BY <1>3, <1>6, LenProperties DEF TagsRight
<1>8. tag' = t
  BY <1>1, <1>5, <1>7, PlusIs
<1>9. \A j \in Data : k + 1 <= j
  <2>1. k \notin Data
    BY <1>1, <1>5, <1>6
  <2> QED
    BY <1>6, <2>1
<1>10. ~Beyond(t)
  <2>1. /\ Before(layout, n) \in Nat /\ End \in Nat /\ Word \in Nat
        /\ mem[Plus(img3, 1)] = x
    BY <1>4, HeaderAt, LayoutFacts
  <2>2. img3 \in Nat
    BY <2>1
  <2>3. tag >= img3
    <3>1. TagsInMemory(SubSeq(TheOne.tags, 1, k - 1)) \in Seq(Nat)
      <4>1. SubSeq(TheOne.tags, 1, k - 1) \in Seq(Tag)
        <5>1. 1 \in Int /\ k - 1 \in Int
              /\ \A i \in 1 .. (k - 1) : TheOne.tags[i] \in Tag
          BY <1>6, ElementOfSeq
        <5> QED
          BY <5>1, SubSeqProperties
      <4> QED
        BY <4>1, TagsEnds
    <3> DEFINE p == Len(TagsInMemory(SubSeq(TheOne.tags, 1, k - 1)))
    <3>2. p \in Nat
      BY <3>1, LenProperties
    <3>3. tag = img3 + 5 + p
      BY DEF TagAt, RootWords
    <3> HIDE DEF p
    <3> QED
      BY <2>2, <3>2, <3>3
  <2>4. /\ t - img3 \in Int /\ 0 <= t - img3 /\ t - img3 < Word
        /\ ~(t - img3 > x)
    <3>1. \A w, y, i, g, e \in Nat :
             g + e <= i + y /\ g + e < w /\ g >= i =>
                /\ (g + e) - i \in Int /\ 0 <= (g + e) - i /\ (g + e) - i < w
                /\ ~((g + e) - i > y)
      OBVIOUS
    <3>2. x \in Nat
      BY <1>4
    <3>3. tag + d <= img3 + x /\ tag + d < Word
      BY <1>5
    <3> QED
      BY <1>5, <2>1, <2>2, <2>3, <3>1, <3>2, <3>3
  <2>5. Offset(t) = t - img3
    BY <2>1, <2>4, WrapIs DEF Offset
  <2> QED
    BY <2>1, <2>4, <2>5 DEF Beyond
<1> QED
  BY <1>1, <1>2, <1>8, <1>9, <1>10

\* A step from behind the image's tags: a size of 0 leads nowhere, any other
\* beyond the image.
LEMMA NextTagBehind ==
  ASSUME SearchInv, NextTag, Right, NEW n \in 1 .. Len(layout.images),
         img3 = End + Before(layout, n), TheOne = layout.images[n],
         TheOne.size = Extent(TheOne), Extent(TheOne) \in Nat,
         tag = img3 + Extent(TheOne), tag = End + Before(layout, n + 1)
  PROVE  /\ \/ pc' = "no_tag"
            \/ pc' = "find_tag" /\ tag' = tag
         /\ ~(n = Len(layout.images) /\ layout.behind[1] = kImage3TagData)
<1>1. /\ mem[tag] # kImage3TagData
      /\ tag' = Plus(tag, mem[Plus(tag, 1)])
      /\ pc' = IF Beyond(tag') THEN "no_tag" ELSE "find_tag"
  BY DEF NextTag
<1>2. PICK x : x = Extent(TheOne)
  OBVIOUS
<1>3. PICK z : z = mem[Plus(tag, 1)]
  OBVIOUS
<1>4. PICK W : W = Len(InMemory(layout))
  OBVIOUS
<1>5. /\ Len(layout.images) \in Nat /\ Word \in Nat /\ End \in Nat
      /\ W \in Nat /\ End + W <= Word /\ layout \in Layout
      /\ Len(layout.behind) \in Nat
      /\ DOMAIN layout.images = 1 .. Len(layout.images)
  BY <1>4, LayoutFacts, ImagedIs
<1>6. /\ Before(layout, n) \in Nat /\ mem[Plus(img3, 1)] = x
      /\ x \in Nat /\ tag = img3 + x
  BY <1>2, HeaderAt
<1>7. img3 \in Nat /\ tag \in Nat
  BY <1>5, <1>6
<1>8. /\ z \in Nat /\ x + z < Word /\ tag < Word
      /\ ~(n = Len(layout.images) /\ layout.behind[1] = kImage3TagData)
  <2>1. CASE n = Len(layout.images)
    <3>1. PICK a : a = Before(layout, Len(layout.images) + 1)
      OBVIOUS
    <3>2. /\ tag = End + a /\ a \in Nat /\ mem[tag] = layout.behind[1]
          /\ z = layout.behind[2] /\ z \in Nat /\ tag < Word /\ a <= W
      BY <1>3, <1>4, <2>1, <3>1, BehindAt
    <3>3. W + z < Word
      BY <1>4, <3>2 DEF Right
    <3>4. img3 = End + Before(layout, n)
      OBVIOUS
    <3>5. x <= a
      BY <1>5, <1>6, <3>2, <3>4
    <3>6. x + z < Word
      BY <1>5, <1>6, <3>2, <3>3, <3>5, PlainBounds
    <3> QED
      BY <1>1, <3>2, <3>6
  <2>2. CASE n # Len(layout.images)
    <3>1. n + 1 \in 1 .. Len(layout.images)
      BY <1>5, <2>2
    <3>2. PICK a : a = Before(layout, n + 1)
      OBVIOUS
    <3>3. PICK im : im = layout.images[n + 1]
      OBVIOUS
    <3>4. PICK b : b = Before(layout, (n + 1) + 1)
      OBVIOUS
    <3>5. /\ tag = End + a /\ a \in Nat /\ z = im.size /\ End + b < Word
      BY <1>3, <3>1, <3>2, <3>3, <3>4, HeaderAt
    <3>6. im.size = Extent(im)
      BY <1>5, <3>1, <3>3 DEF Right
    <3>7. b = a + Extent(im) /\ Extent(im) \in Nat
      <4>1. /\ b = a + Extent(im) /\ Extent(im) = 5 + Len(TagsInMemory(im.tags))
            /\ Len(TagsInMemory(im.tags)) \in Nat
        BY <1>5, <3>1, <3>2, <3>3, <3>4, ImagePlace
      <4> QED
        BY <4>1
    <3>8. img3 = End + Before(layout, n)
      OBVIOUS
    <3>9. z \in Nat /\ a + z = b /\ x <= a
      BY <1>5, <1>6, <3>5, <3>6, <3>7, <3>8
    <3>10. x + z < Word /\ tag < Word
      <4>1. End + (a + z) < Word
        BY <3>5, <3>9
      <4>2. End + a < Word /\ a + z < Word
        BY <1>5, <3>5, <3>9, <4>1, PlainSums
      <4>3. x + z <= a + z
        BY <1>6, <3>5, <3>9
      <4>4. x + z \in Nat /\ a + z \in Nat
        BY <1>6, <3>5, <3>9
      <4> QED
        BY <1>5, <3>5, <4>2, <4>3, <4>4
    <3> QED
      BY <2>2, <3>9, <3>10
  <2> QED
    BY <2>1, <2>2
<1>9. CASE z = 0
  <2>1. tag' = tag
    <3>1. tag + 0 = tag /\ tag + 0 < Word
      BY <1>7, <1>8
    <3> QED
      BY <1>1, <1>3, <1>7, <1>9, <3>1, PlusIs
  <2>2. Offset(tag) = x
    <3>1. tag - img3 = x /\ x < Word /\ x \in Int /\ 0 <= x
      <4>2. x + 0 < Word /\ x + 0 = x
        BY <1>6, <1>8, <1>9
      <4> QED
        BY <1>6, <1>7, <4>2, PlainSums
    <3> QED
      BY <1>5, <3>1, WrapIs DEF Offset
  <2>3. ~Beyond(tag)
    BY <1>6, <2>2 DEF Beyond
  <2> QED
    BY <1>1, <1>8, <2>1, <2>3
<1>10. CASE z # 0
  <2>1. Offset(tag') = x + z
    <3>1. Word \in Nat /\ img3 \in Nat /\ x \in Nat /\ z \in Nat
      BY <1>5, <1>6, <1>7, <1>8
    <3>2. x + z < Word /\ img3 + x < Word
      BY <1>6, <1>8
    <3>3. Offset(Plus(img3 + x, z)) = x + z
      BY <3>1, <3>2, OffsetIs
    <3> QED
      BY <1>1, <1>3, <1>6, <3>3
  <2>2. x + z > x
    BY <1>6, <1>8, <1>10
  <2>3. Beyond(tag')
    BY <1>6, <2>1, <2>2 DEF Beyond
  <2> QED
    BY <1>1, <1>8, <2>3
<1> QED
  BY <1>9, <1>10

LEMMA NextTagKeeps ==
  ASSUME SearchInv, NextTag
  PROVE  SearchInv'
<1>1. /\ pc = "find_tag" /\ layout' = layout
      /\ mem' = mem /\ type' = type /\ img3' = img3
  BY DEF NextTag
<1>2. layout' \in Layouts /\ mem' = MemoryOf(layout')
  BY <1>1 DEF SearchInv
<1>3. ASSUME Right' PROVE Searching' /\ AsLaidOut'
  <2>1. Right
    BY <1>1, <1>3 DEF Right
  <2>2. PICK n \in OfType : \E k \in 1 .. (Len(TheOne.tags) + 1) :
            /\ First(OfType) = n /\ n \in 1 .. Len(layout.images)
            /\ img3 = End + Before(layout, n)
            /\ TheOne = layout.images[n]
            /\ TheOne.size = Extent(TheOne) /\ TagsRight(TheOne)
            /\ tag = TagAt(img3, TheOne, k) /\ \A j \in Data : k <= j
            /\ Extent(TheOne) \in Nat
            /\ k = Len(TheOne.tags) + 1 =>
                  /\ Data = {}
                  /\ tag = img3 + Extent(TheOne)
                  /\ tag = End + Before(layout, n + 1)
    BY <1>1, <2>1, AtTagIs
  <2>3. PICK k \in 1 .. (Len(TheOne.tags) + 1) :
            /\ n \in 1 .. Len(layout.images)
            /\ tag = TagAt(img3, TheOne, k) /\ \A j \in Data : k <= j
            /\ k = Len(TheOne.tags) + 1 =>
                  /\ Data = {}
                  /\ tag = img3 + Extent(TheOne)
                  /\ tag = End + Before(layout, n + 1)
    BY <2>2
  <2>4. Len(TheOne.tags) \in Nat
    BY <2>2, TheOneIs
  <2>5. img3 = ImageAt(First(OfType))
    BY <1>1, <2>1 DEF SearchInv, AsLaidOut
  <2>6. /\ OfType' = OfType /\ TheOne' = TheOne /\ Data' = Data
        /\ ImageAt(First(OfType))' = ImageAt(First(OfType))
    BY <1>1 DEF OfType, TheOne, Data, ImageAt
  <2>7. \A j : TagAt(img3, TheOne, j)' = TagAt(img3, TheOne, j)
    BY <1>1, <2>6 DEF TagAt
  <2>8. CASE k \in 1 .. Len(TheOne.tags)
    <3>1. /\ pc' = "find_tag" /\ tag' = TagAt(img3, TheOne, k + 1)
          /\ \A j \in Data : k + 1 <= j
      BY <2>1, <2>2, <2>3, <2>8, NextTagInside
    <3>2. k + 1 \in 1 .. (Len(TheOne.tags) + 1)
      BY <2>4, <2>8
    <3>3. Searching'
      BY <1>1, <2>6, <2>7, <3>1, <3>2 DEF Searching
    <3>4. AsLaidOut'
      <4>1. OfType' # {} /\ (img3 = ImageAt(First(OfType)))'
        BY <1>1, <2>2, <2>5, <2>6
      <4> QED
        BY <3>1, <4>1 DEF AsLaidOut
    <3> QED
      BY <3>3, <3>4
  <2>9. CASE k = Len(TheOne.tags) + 1
    <3>1. /\ Data = {} /\ tag = img3 + Extent(TheOne)
          /\ tag = End + Before(layout, n + 1)
      BY <2>3, <2>9
    <3>2. /\ \/ pc' = "no_tag"
             \/ pc' = "find_tag" /\ tag' = tag
          /\ ~(n = Len(layout.images) /\ layout.behind[1] = kImage3TagData)
      BY <2>1, <2>2, <3>1, NextTagBehind
    <3>3. Searching'
      BY <1>1, <2>3, <2>6, <2>7, <3>2 DEF Searching
    <3>4. AsLaidOut'
      <4>1. OfType' # {} /\ (img3 = ImageAt(First(OfType)))'
        BY <1>1, <2>2, <2>5, <2>6
      <4>2. First(OfType)' = n
        BY <2>2, <2>6
      <4> QED
        BY <1>1, <2>6, <3>1, <3>2, <4>1, <4>2 DEF AsLaidOut, TheOne, Data
    <3> QED
      BY <3>3, <3>4
  <2> QED
    BY <2>3, <2>4, <2>8, <2>9
<1> QED
  BY <1>2, <1>3 DEF SearchInv

LEMMA NextKeeps == SearchInv /\ [Next]_vars => SearchInv'
<1> SUFFICES ASSUME SearchInv, [Next]_vars PROVE SearchInv'
  OBVIOUS
<1>1. CASE UNCHANGED vars
  <2>1. /\ pc' = pc /\ layout' = layout /\ mem' = mem /\ type' = type
        /\ img3' = img3 /\ tag' = tag
    BY <1>1 DEF vars
  <2>2. Right' = Right /\ OfType' = OfType /\ TheOne' = TheOne /\ Data' = Data
    BY <2>1 DEF Right, OfType, TheOne, Data
  <2>3. ASSUME Searching PROVE Searching'
    BY <2>1, <2>2, <2>3 DEF Searching, TagAt
  <2>4. ASSUME AsLaidOut PROVE AsLaidOut'
    BY <2>1, <2>2, <2>4 DEF AsLaidOut, ImageAt, TagAt, TheOne, Data
  <2> QED
    BY <2>1, <2>2, <2>3, <2>4 DEF SearchInv
<1>2. CASE Next
  BY <1>2, NoImageKeeps, NextImageKeeps, TheImageKeeps, TheTagKeeps,
     NextTagKeeps DEF Next
<1> QED
  BY <1>1, <1>2

\* Whatever images are linked behind the loader, with headers that are right,
\* get_image3 comes to the first of the type and image3_find_tag to its first
\* DATA tag, and neither to anything when there is none, but for a DATA header
\* that lies just behind the last image.
THEOREM AsLaidOutCorrect == Spec => []AsLaidOut
<1>1. SearchInv => AsLaidOut
  BY DEF SearchInv, AsLaidOut
<1> QED
  BY <1>1, InitHolds, NextKeeps, PTL DEF Spec
=============================================================================
