------------------------- MODULE LocalProject_proofs -------------------------
(* Theorems about LocalProject and Answers, for any files, any number of     *)
(* changes, deployments and readers: its statuses, what they tell of issues, *)
(* that what has been checked can be read, what is referred to opens, and    *)
(* that the preview is what will be served.                                  *)
(*                                                                           *)
(* The last three rest on what the scan of the pages does: the order of the  *)
(* pages is an order (SlugBeforeIsOrder), so that there is one page at each  *)
(* place of the listing (ContentSlugsAre), whose path leads to its file      *)
(* again; those with a reference are files that can be read (ScanIs), in the *)
(* original and in translation (PagesOpen).  The rows of an ingestion are    *)
(* those of the pages that the scan of its copy finds (IngestedRows), and    *)
(* the choice of one page for an item from the rows is that from the pages   *)
(* (SameBest).                                                               *)
EXTENDS Answers, FiniteSetTheorems, SequenceTheorems, WellFoundedInduction, TLAPS

(* Any set of numbers has a least one.                                       *)
LEMMA Least ==
  ASSUME NEW S \in SUBSET Nat, S # {}
  PROVE  \E n \in S : \A m \in S : n <= m
  <1> DEFINE R == {p \in Nat \X Nat : p[1] < p[2]}
  <1>1. IsWellFoundedOn(R, Nat)
    BY NatLessThanWellFounded DEF OpToRel
  <1> HIDE DEF R
  <1>2. PICK n \in S : \A m \in S : ~ (<<m, n>> \in R)
    BY <1>1, WFMin
  <1>3. \A m \in S : ~(m < n)
    BY <1>2 DEF R
  <1> QED BY <1>2, <1>3

(* Sequences one after the other, place by place.                            *)
LEMMA FlattenIs ==
  ASSUME NEW X, NEW seqs \in Seq(X), seqs # <<>>
  PROVE  \E f : /\ FlattenSeq(seqs) = f[Len(seqs)]
                /\ \A i \in 1 .. Len(seqs) : f[i] = IF i = 1 THEN seqs[i] ELSE f[i - 1] \o seqs[i]
  <1> DEFINE n == Len(seqs)
             Flat(f, k) == f = [i \in 1 .. k |-> IF i = 1 THEN seqs[i] ELSE f[i - 1] \o seqs[i]]
  <1>0. n \in Nat /\ \A i \in 1 .. n : seqs[i] \in X
    OBVIOUS
  <1>1. \A k \in 1 .. n : \E f : Flat(f, k)
    <2> DEFINE S == {k \in 1 .. n : ~ \E f : Flat(f, k)}
    <2>1. SUFFICES ASSUME S # {} PROVE FALSE
      OBVIOUS
    <2>2. PICK k \in S : \A m \in S : k <= m
      <3> HIDE DEF Flat, n
      <3>1. S \in SUBSET Nat
        BY <1>0
      <3> HIDE DEF S
      <3> QED BY <2>1, <3>1, Least
    <2>3. CASE k = 1
      <3>1. Flat([i \in 1 .. 1 |-> seqs[i]], 1)
        OBVIOUS
      <3> QED BY <2>2, <2>3, <3>1
    <2>4. CASE k # 1
      <3>1. k - 1 \in 1 .. n /\ k - 1 \notin S
        <4> HIDE DEF Flat, n
        <4> QED BY <1>0, <2>2, <2>4
      <3>2. PICK g : Flat(g, k - 1)
        BY <3>1
      <3> DEFINE h == [i \in 1 .. k |-> IF i = k THEN g[k - 1] \o seqs[k] ELSE g[i]]
      <3>3. ASSUME NEW i \in 1 .. k PROVE h[i] = IF i = 1 THEN seqs[i] ELSE h[i - 1] \o seqs[i]
        <4>1. k \in Nat /\ 1 < k
          BY <1>0, <2>2, <2>4
        <4>2. CASE i = k
          <5>1. k - 1 \in 1 .. k /\ k - 1 # k /\ k \in 1 .. k
            BY <4>1
          <5>2. h[k - 1] = g[k - 1] /\ h[k] = g[k - 1] \o seqs[k]
            BY <5>1
          <5> HIDE DEF h, S, Flat
          <5>3. h[k] = h[k - 1] \o seqs[k]
            BY <5>2
          <5>4. k # 1
            BY <4>1
          <5> QED BY <4>2, <5>3, <5>4
        <4>3. CASE i # k
          <5>1. i \in 1 .. k - 1 /\ (i # 1 => i - 1 \in 1 .. k /\ i - 1 # k)
            BY <4>1, <4>3
          <5> QED BY <3>2, <4>3, <5>1
        <4> QED BY <4>2, <4>3
      <3>4. Flat(h, k)
        BY <3>3
      <3> QED BY <2>2, <3>4
    <2> QED BY <2>3, <2>4
  <1>2. n # 0
    OBVIOUS
  <1> DEFINE flatten[i \in 1 .. Len(seqs)] == IF i = 1 THEN seqs[i] ELSE flatten[i - 1] \o seqs[i]
  <1>3. FlattenSeq(seqs) = flatten[n]
    BY <1>2 DEF FlattenSeq
  <1>4. Flat(flatten, n)
    <2>1. flatten = CHOOSE f : Flat(f, n)
      OBVIOUS
    <2> HIDE DEF Flat, flatten
    <2> QED BY <1>0, <1>1, <1>2, <2>1
  <1> HIDE DEF flatten
  <1> QED BY <1>3, <1>4

LEMMA SeqHas ==
  ASSUME NEW X, NEW seqs \in Seq(X)
  PROVE  Len(seqs) \in Nat /\ \A i \in 1 .. Len(seqs) : seqs[i] \in X
  OBVIOUS

(* Step by step, from the one at k, whatever absorbs or holds the others.    *)
LEMMA FoldIn ==
  ASSUME NEW n \in Nat, NEW k \in 1 .. n, NEW Y, NEW f, f[k] \in Y,
         \A i \in k + 1 .. n : f[i - 1] \in Y => f[i] \in Y
  PROVE  \A i \in k .. n : f[i] \in Y
  <1> DEFINE S == {i \in k .. n : f[i] \notin Y}
  <1> SUFFICES ASSUME S # {} PROVE FALSE
    OBVIOUS
  <1>1. PICK i \in S : \A m \in S : i <= m
    <2>1. S \in SUBSET Nat
      OBVIOUS
    <2> HIDE DEF S
    <2> QED BY <2>1, Least
  <1>2. i # k /\ i \in k .. n
    BY <1>1
  <1>3. i \in k + 1 .. n /\ i - 1 \in k .. n /\ i - 1 < i
    BY <1>2
  <1>4. i - 1 \notin S
    <2> HIDE DEF S
    <2> QED BY <1>1, <1>3
  <1> QED BY <1>1, <1>3, <1>4

LEMMA FlattenIn ==
  ASSUME NEW X, <<>> \in X, \A s, t \in X : s \o t \in X, NEW seqs \in Seq(X)
  PROVE  FlattenSeq(seqs) \in X
  <1> DEFINE n == Len(seqs)
  <1>0. n \in Nat /\ \A i \in 1 .. n : seqs[i] \in X
    BY SeqHas
  <1>1. CASE seqs = <<>>
    BY <1>1 DEF FlattenSeq
  <1>2. CASE seqs # <<>>
    <2>1. PICK f : /\ FlattenSeq(seqs) = f[n]
                   /\ \A i \in 1 .. n : f[i] = IF i = 1 THEN seqs[i] ELSE f[i - 1] \o seqs[i]
      BY <1>2, FlattenIs
    <2>2. 1 \in 1 .. n
      BY <1>0, <1>2
    <2> HIDE DEF n
    <2>3. f[1] \in X
      BY <1>0, <2>1, <2>2
    <2>4. ASSUME NEW i \in 1 + 1 .. n, f[i - 1] \in X PROVE f[i] \in X
      <3>1. i \in 1 .. n /\ i # 1
        BY <1>0
      <3>2. f[i] = f[i - 1] \o seqs[i] /\ seqs[i] \in X
        BY <1>0, <2>1, <3>1
      <3> QED BY <2>4, <3>2
    <2>5. \A i \in 1 .. n : f[i] \in X
      BY <1>0, <2>2, <2>3, <2>4, FoldIn
    <2>6. n \in 1 .. n
      BY <1>0, <2>2
    <2> QED BY <2>1, <2>5, <2>6
  <1> QED BY <1>1, <1>2
-----------------------------------------------------------------------------
(* Orders of sequences.  A sequence fills cells, one for each place: with    *)
(* what it has there, or with nothing.  An order of the cells orders the     *)
(* sequences by the first cell in which they differ.                         *)
Places == Nat \ {0}
Filled(a) == [n \in Places |-> IF n <= Len(a) THEN {a[n]} ELSE {}]
CellsOf(X) == {{}} \cup {{x} : x \in X}
IsOrder(R, C) == \A x, y, z \in C : /\ <<x, x>> \notin R
                                    /\ <<x, y>> \in R /\ <<y, z>> \in R => <<x, z>> \in R
                                    /\ x # y => <<x, y>> \in R \/ <<y, x>> \in R

Earlier(R, f, g) == \E n \in Places : <<f[n], g[n]>> \in R /\ \A m \in 1 .. n - 1 : f[m] = g[m]

LEMMA FilledAre ==
  ASSUME NEW X, NEW a \in Seq(X)
  PROVE  /\ Filled(a) \in [Places -> CellsOf(X)] /\ Len(a) \in Nat
         /\ \A n \in Places : Filled(a)[n] = IF n <= Len(a) THEN {a[n]} ELSE {}
  <1>1. Len(a) \in Nat /\ \A n \in 1 .. Len(a) : a[n] \in X
    OBVIOUS
  <1>2. ASSUME NEW n \in Places PROVE (IF n <= Len(a) THEN {a[n]} ELSE {}) \in CellsOf(X)
    BY <1>1, <1>2 DEF Places, CellsOf
  <1> QED BY <1>1, <1>2 DEF Filled

LEMMA FilledDiffer ==
  ASSUME NEW X, NEW a \in Seq(X), NEW b \in Seq(X), Filled(a) = Filled(b)
  PROVE  a = b
  <1>1. /\ Len(a) \in Nat /\ Len(b) \in Nat
        /\ \A n \in Places : (IF n <= Len(a) THEN {a[n]} ELSE {}) = IF n <= Len(b) THEN {b[n]} ELSE {}
    BY FilledAre
  <1>2. \A n \in Places : (n <= Len(a) <=> n <= Len(b)) /\ (n <= Len(a) => a[n] = b[n])
    BY <1>1
  <1>3. Len(a) = Len(b)
    <2>1. ~(Len(a) < Len(b))
      BY <1>1, <1>2 DEF Places
    <2>2. ~(Len(b) < Len(a))
      BY <1>1, <1>2 DEF Places
    <2> QED BY <1>1, <2>1, <2>2
  <1>4. \A n \in 1 .. Len(a) : a[n] = b[n]
    BY <1>1, <1>2 DEF Places
  <1> QED BY <1>3, <1>4, SeqEqual

LEMMA EarlierIsOrder ==
  ASSUME NEW C, NEW R, IsOrder(R, C), NEW f \in [Places -> C], NEW g \in [Places -> C], NEW h \in [Places -> C]
  PROVE  /\ ~Earlier(R, f, f)
         /\ Earlier(R, f, g) /\ Earlier(R, g, h) => Earlier(R, f, h)
         /\ f # g => Earlier(R, f, g) \/ Earlier(R, g, f)
  <1>0. \A n \in Places : f[n] \in C /\ g[n] \in C /\ h[n] \in C
    OBVIOUS
  <1>1. ~Earlier(R, f, f)
    BY <1>0 DEF Earlier, IsOrder
  <1>2. ASSUME Earlier(R, f, g), Earlier(R, g, h) PROVE Earlier(R, f, h)
    <2>1. PICK m \in Places : <<f[m], g[m]>> \in R /\ \A k \in 1 .. m - 1 : f[k] = g[k]
      BY <1>2 DEF Earlier
    <2>2. PICK n \in Places : <<g[n], h[n]>> \in R /\ \A k \in 1 .. n - 1 : g[k] = h[k]
      BY <1>2 DEF Earlier
    <2>3. CASE m = n
      <3>1. <<f[m], h[m]>> \in R
        BY <1>0, <2>1, <2>2, <2>3 DEF IsOrder
      <3>2. \A k \in 1 .. m - 1 : f[k] = h[k]
        BY <2>1, <2>2, <2>3
      <3> QED BY <3>1, <3>2 DEF Earlier
    <2>4. CASE m < n
      <3>1. g[m] = h[m] /\ \A k \in 1 .. m - 1 : f[k] = h[k]
        BY <2>1, <2>2, <2>4 DEF Places
      <3> QED BY <2>1, <3>1 DEF Earlier
    <2>5. CASE n < m
      <3>1. f[n] = g[n] /\ \A k \in 1 .. n - 1 : f[k] = h[k]
        BY <2>1, <2>2, <2>5 DEF Places
      <3> QED BY <2>2, <3>1 DEF Earlier
    <2> QED BY <2>3, <2>4, <2>5 DEF Places
  <1>3. ASSUME f # g PROVE Earlier(R, f, g) \/ Earlier(R, g, f)
    <2> DEFINE D == {n \in Places : f[n] # g[n]}
    <2>1. D \in SUBSET Nat /\ D # {}
      BY <1>3 DEF Places
    <2>2. PICK n \in D : \A m \in D : n <= m
      <3> HIDE DEF D
      <3> QED BY <2>1, Least
    <2>3. \A m \in 1 .. n - 1 : f[m] = g[m] /\ g[m] = f[m]
      BY <2>2 DEF Places
    <2>4. <<f[n], g[n]>> \in R \/ <<g[n], f[n]>> \in R
      BY <1>0, <2>2 DEF IsOrder
    <2> QED BY <2>2, <2>3, <2>4 DEF Earlier
  <1> QED BY <1>1, <1>2, <1>3

(* A prefix, place by place.                                                 *)
LEMMA SamePrefix ==
  ASSUME NEW X, NEW a \in Seq(X), NEW b \in Seq(X), NEW k \in Nat, k <= Len(a), k <= Len(b)
  PROVE  SubSeq(a, 1, k) = SubSeq(b, 1, k) <=> \A m \in 1 .. k : a[m] = b[m]
  <1>1. Len(a) \in Nat /\ Len(b) \in Nat
    OBVIOUS
  <1>2. \A m \in 1 .. k : a[m] \in X /\ b[m] \in X
    BY <1>1
  <1>3. /\ SubSeq(a, 1, k) \in Seq(X) /\ Len(SubSeq(a, 1, k)) = k
        /\ \A m \in 1 .. k : SubSeq(a, 1, k)[m] = a[m]
    <2>1. /\ SubSeq(a, 1, k) \in Seq(X)
          /\ Len(SubSeq(a, 1, k)) = IF 1 <= k THEN k - 1 + 1 ELSE 0
          /\ \A i \in 1 .. k - 1 + 1 : SubSeq(a, 1, k)[i] = a[1 + i - 1]
      BY <1>2, SubSeqProperties
    <2> QED BY <2>1
  <1>4. /\ SubSeq(b, 1, k) \in Seq(X) /\ Len(SubSeq(b, 1, k)) = k
        /\ \A m \in 1 .. k : SubSeq(b, 1, k)[m] = b[m]
    <2>1. /\ SubSeq(b, 1, k) \in Seq(X)
          /\ Len(SubSeq(b, 1, k)) = IF 1 <= k THEN k - 1 + 1 ELSE 0
          /\ \A i \in 1 .. k - 1 + 1 : SubSeq(b, 1, k)[i] = b[1 + i - 1]
      BY <1>2, SubSeqProperties
    <2> QED BY <2>1
  <1>5. (\A m \in 1 .. k : a[m] = b[m]) => SubSeq(a, 1, k) = SubSeq(b, 1, k)
    BY <1>3, <1>4, SeqEqual
  <1> QED BY <1>3, <1>4, <1>5

LEMMA PrefixByPlaces ==
  ASSUME NEW X, NEW a \in Seq(X), NEW b \in Seq(X)
  PROVE  /\ IsPrefix(a, b) <=> Len(a) <= Len(b) /\ \A m \in 1 .. Len(a) : a[m] = b[m]
         /\ IsStrictPrefix(a, b) <=> Len(a) < Len(b) /\ \A m \in 1 .. Len(a) : a[m] = b[m]
  <1>1. Len(a) \in Nat /\ Len(b) \in Nat
    OBVIOUS
  <1>2. IsPrefix(a, b) <=> Len(a) <= Len(b) /\ \A m \in 1 .. Len(a) : a[m] = b[m]
    BY <1>1, SamePrefix DEF IsPrefix
  <1>3. Len(a) = Len(b) /\ (\A m \in 1 .. Len(a) : a[m] = b[m]) => a = b
    BY <1>1, SeqEqual
  <1> QED BY <1>1, <1>2, <1>3 DEF IsStrictPrefix

(* The order of names is that of their words, where nothing is the least.    *)
Words == DOMAIN WordRank
WordOrder == {p \in CellsOf(Words) \X CellsOf(Words) :
                 \/ p[1] = {} /\ p[2] # {}
                 \/ \E v, w \in Words : p[1] = {v} /\ p[2] = {w} /\ WordRank[v] < WordRank[w]}

LEMMA WordOrderIsOrder == IsOrder(WordOrder, CellsOf(Words))
  <1>1. \A w \in Words : WordRank[w] \in Nat
    BY ContentAssumption DEF Words
  <1>2. \A v, w \in Words : WordRank[v] = WordRank[w] => v = w
    BY ContentAssumption DEF Words
  <1>3. ASSUME NEW x \in CellsOf(Words) PROVE <<x, x>> \notin WordOrder
    BY <1>1, <1>3 DEF WordOrder
  <1>4. ASSUME NEW x \in CellsOf(Words), NEW y \in CellsOf(Words), x # y
        PROVE  <<x, y>> \in WordOrder \/ <<y, x>> \in WordOrder
    <2>1. CASE x = {} \/ y = {}
      BY <1>4, <2>1 DEF WordOrder
    <2>2. CASE x # {} /\ y # {}
      <3>1. PICK v \in Words : x = {v}
        BY <2>2 DEF CellsOf
      <3>2. PICK w \in Words : y = {w}
        BY <2>2 DEF CellsOf
      <3>3. WordRank[v] < WordRank[w] \/ WordRank[w] < WordRank[v]
        BY <1>1, <1>2, <1>4, <3>1, <3>2
      <3> QED BY <3>1, <3>2, <3>3 DEF WordOrder
    <2> QED BY <2>1, <2>2
  <1>5. ASSUME NEW x \in CellsOf(Words), NEW y \in CellsOf(Words), NEW z \in CellsOf(Words),
               <<x, y>> \in WordOrder, <<y, z>> \in WordOrder
        PROVE  <<x, z>> \in WordOrder
    <2>1. y # {} /\ z # {}
      BY <1>5 DEF WordOrder
    <2>2. CASE x = {}
      BY <2>1, <2>2 DEF WordOrder
    <2>3. CASE x # {}
      <3>1. PICK u \in Words, v \in Words : x = {u} /\ y = {v} /\ WordRank[u] < WordRank[v]
        BY <1>5, <2>3 DEF WordOrder
      <3>2. PICK w \in Words : z = {w} /\ WordRank[v] < WordRank[w]
        BY <1>5, <2>1, <3>1 DEF WordOrder
      <3>3. WordRank[u] < WordRank[w]
        BY <1>1, <3>1, <3>2
      <3> QED BY <3>1, <3>2, <3>3 DEF WordOrder
    <2> QED BY <2>2, <2>3
  <1> QED BY <1>3, <1>4, <1>5 DEF IsOrder

LEMMA BeforeIsEarlier ==
  ASSUME NEW a \in Names, NEW b \in Names
  PROVE  Before(a, b) <=> Earlier(WordOrder, Filled(a), Filled(b))
  <1> DEFINE c == Filled(a)
             d == Filled(b)
  <1>0. a \in Seq(Words) /\ b \in Seq(Words)
    BY DEF Names, Words
  <1>1. /\ Len(a) \in Nat /\ Len(b) \in Nat
        /\ \A n \in 1 .. Len(a) : a[n] \in Words
        /\ \A n \in 1 .. Len(b) : b[n] \in Words
    BY <1>0
  <1>2. \A n \in Places : /\ c[n] = IF n <= Len(a) THEN {a[n]} ELSE {}
                          /\ d[n] = IF n <= Len(b) THEN {b[n]} ELSE {}
                          /\ c[n] \in CellsOf(Words) /\ d[n] \in CellsOf(Words)
    BY <1>0, FilledAre
  <1> HIDE DEF c, d
  <1>5. /\ \A n \in Nat : n + 1 \in Places
        /\ \A n \in Nat : \A m \in 1 .. n : m \in Places
        /\ \A n \in Places : n - 1 \in Nat
    BY DEF Places
  <1>3. ASSUME Before(a, b) PROVE Earlier(WordOrder, c, d)
    <2>1. CASE IsStrictPrefix(a, b)
      <3> DEFINE n == Len(a) + 1
      <3>1. Len(a) < Len(b) /\ \A m \in 1 .. Len(a) : a[m] = b[m]
        BY <1>0, <2>1, PrefixByPlaces
      <3>2. n \in Places /\ c[n] = {} /\ d[n] # {}
        <4>1. n \in Places /\ ~(n <= Len(a)) /\ n <= Len(b)
          BY <1>1, <1>5, <3>1
        <4> HIDE DEF n
        <4> QED BY <1>2, <4>1
      <3>3. <<c[n], d[n]>> \in WordOrder
        BY <1>2, <3>2 DEF WordOrder
      <3>4. \A m \in 1 .. n - 1 : c[m] = d[m]
        <4>1. \A m \in 1 .. n - 1 : m \in Places /\ m <= Len(a) /\ m <= Len(b) /\ a[m] = b[m]
          BY <1>1, <1>5, <3>1
        <4> HIDE DEF n
        <4> QED BY <1>2, <4>1
      <3> QED BY <3>2, <3>3, <3>4 DEF Earlier
    <2>2. CASE ~IsStrictPrefix(a, b)
      <3>1. PICK n \in 1 .. Len(a) : /\ n <= Len(b) /\ SubSeq(a, 1, n - 1) = SubSeq(b, 1, n - 1)
                                     /\ WordRank[a[n]] < WordRank[b[n]]
        BY <1>3, <2>2 DEF Before
      <3>2. \A m \in 1 .. n - 1 : a[m] = b[m]
        <4>1. n - 1 \in Nat /\ n - 1 <= Len(a) /\ n - 1 <= Len(b)
          BY <1>1, <3>1
        <4> QED BY <1>0, <3>1, <4>1, SamePrefix
      <3>3. n \in Places /\ c[n] = {a[n]} /\ d[n] = {b[n]} /\ a[n] \in Words /\ b[n] \in Words
        <4>1. n \in Places /\ n <= Len(a) /\ n <= Len(b) /\ n \in 1 .. Len(b)
          BY <1>1, <1>5, <3>1
        <4> QED BY <1>1, <1>2, <3>1, <4>1
      <3>4. <<c[n], d[n]>> \in WordOrder
        BY <1>2, <3>1, <3>3 DEF WordOrder
      <3>5. \A m \in 1 .. n - 1 : c[m] = d[m]
        <4>1. \A m \in 1 .. n - 1 : m \in Places /\ m <= Len(a) /\ m <= Len(b)
          BY <1>1, <1>5, <3>1
        <4> QED BY <1>2, <3>2, <4>1
      <3> QED BY <3>3, <3>4, <3>5 DEF Earlier
    <2> QED BY <2>1, <2>2
  <1>4. ASSUME Earlier(WordOrder, c, d) PROVE Before(a, b)
    <2>1. PICK n \in Places : <<c[n], d[n]>> \in WordOrder /\ \A m \in 1 .. n - 1 : c[m] = d[m]
      BY <1>4 DEF Earlier
    <2>2. d[n] # {}
      BY <2>1 DEF WordOrder
    <2>3. n <= Len(b) /\ d[n] = {b[n]}
      BY <1>2, <2>2
    <2>4. \A m \in 1 .. n - 1 : m <= Len(a) /\ a[m] = b[m]
      <3> SUFFICES ASSUME NEW m \in 1 .. n - 1 PROVE m <= Len(a) /\ a[m] = b[m]
        OBVIOUS
      <3>1. m \in Places /\ m <= Len(b)
        BY <1>1, <2>3 DEF Places
      <3>2. c[m] = d[m] /\ d[m] = {b[m]}
        BY <1>2, <2>1, <3>1
      <3>3. m <= Len(a) /\ c[m] = {a[m]}
        BY <1>2, <3>1, <3>2
      <3> QED BY <3>2, <3>3
    <2>5. CASE n <= Len(a)
      <3>1. c[n] = {a[n]}
        BY <1>2, <2>5
      <3>2. WordRank[a[n]] < WordRank[b[n]]
        BY <2>1, <2>3, <3>1 DEF WordOrder
      <3>3. SubSeq(a, 1, n - 1) = SubSeq(b, 1, n - 1)
        <4>1. n - 1 \in Nat /\ n - 1 <= Len(a) /\ n - 1 <= Len(b)
          BY <1>1, <2>3, <2>5 DEF Places
        <4> QED BY <1>0, <2>4, <4>1, SamePrefix
      <3>4. n \in 1 .. Len(a)
        BY <1>1, <2>5 DEF Places
      <3> QED BY <2>3, <3>2, <3>3, <3>4 DEF Before
    <2>6. CASE ~(n <= Len(a))
      <3>1. n = Len(a) + 1
        <4>1. CASE n = 1
          BY <1>1, <2>6, <4>1
        <4>2. CASE n # 1
          <5>1. n - 1 \in 1 .. n - 1
            BY <4>2 DEF Places
          <5>2. n - 1 <= Len(a)
            BY <2>4, <5>1
          <5> QED BY <1>1, <2>6, <5>2 DEF Places
        <4> QED BY <4>1, <4>2
      <3>2. Len(a) < Len(b) /\ \A m \in 1 .. Len(a) : a[m] = b[m]
        BY <1>1, <2>3, <2>4, <3>1
      <3> QED BY <1>0, <3>2, PrefixByPlaces DEF Before
    <2> QED BY <2>5, <2>6
  <1> QED BY <1>3, <1>4 DEF c, d

LEMMA BeforeIsOrder ==
  \A x, y, z \in Names : /\ ~Before(x, x)
                         /\ Before(x, y) /\ Before(y, z) => Before(x, z)
                         /\ x # y => Before(x, y) \/ Before(y, x)
  <1> SUFFICES ASSUME NEW x \in Names, NEW y \in Names, NEW z \in Names
               PROVE  /\ ~Before(x, x)
                      /\ Before(x, y) /\ Before(y, z) => Before(x, z)
                      /\ x # y => Before(x, y) \/ Before(y, x)
    OBVIOUS
  <1>1. x \in Seq(Words) /\ y \in Seq(Words) /\ z \in Seq(Words)
    BY DEF Names, Words
  <1>2. /\ Filled(x) \in [Places -> CellsOf(Words)]
        /\ Filled(y) \in [Places -> CellsOf(Words)]
        /\ Filled(z) \in [Places -> CellsOf(Words)]
    BY <1>1, FilledAre
  <1>3. /\ ~Earlier(WordOrder, Filled(x), Filled(x))
        /\ Earlier(WordOrder, Filled(x), Filled(y)) /\ Earlier(WordOrder, Filled(y), Filled(z))
              => Earlier(WordOrder, Filled(x), Filled(z))
        /\ Filled(x) # Filled(y) => Earlier(WordOrder, Filled(x), Filled(y)) \/ Earlier(WordOrder, Filled(y), Filled(x))
    BY <1>2, WordOrderIsOrder, EarlierIsOrder
  <1>4. x # y => Filled(x) # Filled(y)
    BY <1>1, FilledDiffer
  <1> QED BY <1>3, <1>4, BeforeIsEarlier

(* The order of slugs is that of their names, where nothing is the greatest. *)
NameOrder == {p \in CellsOf(Names) \X CellsOf(Names) :
                 \/ p[1] # {} /\ p[2] = {}
                 \/ \E v, w \in Names : p[1] = {v} /\ p[2] = {w} /\ Before(v, w)}

LEMMA NameOrderIsOrder == IsOrder(NameOrder, CellsOf(Names))
  <1>1. ASSUME NEW x \in CellsOf(Names) PROVE <<x, x>> \notin NameOrder
    BY <1>1, BeforeIsOrder DEF NameOrder
  <1>2. ASSUME NEW x \in CellsOf(Names), NEW y \in CellsOf(Names), x # y
        PROVE  <<x, y>> \in NameOrder \/ <<y, x>> \in NameOrder
    <2>1. CASE x = {} \/ y = {}
      BY <1>2, <2>1 DEF NameOrder
    <2>2. CASE x # {} /\ y # {}
      <3>1. PICK v \in Names : x = {v}
        BY <2>2 DEF CellsOf
      <3>2. PICK w \in Names : y = {w}
        BY <2>2 DEF CellsOf
      <3>3. Before(v, w) \/ Before(w, v)
        BY <1>2, <3>1, <3>2, BeforeIsOrder
      <3> QED BY <3>1, <3>2, <3>3 DEF NameOrder
    <2> QED BY <2>1, <2>2
  <1>3. ASSUME NEW x \in CellsOf(Names), NEW y \in CellsOf(Names), NEW z \in CellsOf(Names),
               <<x, y>> \in NameOrder, <<y, z>> \in NameOrder
        PROVE  <<x, z>> \in NameOrder
    <2>1. x # {} /\ y # {}
      BY <1>3 DEF NameOrder
    <2>2. CASE z = {}
      BY <2>1, <2>2 DEF NameOrder
    <2>3. CASE z # {}
      <3>1. PICK v \in Names, w \in Names : y = {v} /\ z = {w} /\ Before(v, w)
        BY <1>3, <2>3 DEF NameOrder
      <3>2. PICK u \in Names : x = {u} /\ Before(u, v)
        BY <1>3, <2>1, <3>1 DEF NameOrder
      <3>3. Before(u, w)
        BY <3>1, <3>2, BeforeIsOrder
      <3> QED BY <3>1, <3>2, <3>3 DEF NameOrder
    <2> QED BY <2>2, <2>3
  <1> QED BY <1>1, <1>2, <1>3 DEF IsOrder

LEMMA SlugBeforeIsEarlier ==
  ASSUME NEW a \in Seq(Names), NEW b \in Seq(Names), b # <<>>
  PROVE  SlugBefore(a, b) <=> Earlier(NameOrder, Filled(a), Filled(b))
  <1> DEFINE c == Filled(a)
             d == Filled(b)
  <1>1. /\ Len(a) \in Nat /\ Len(b) \in Nat /\ Len(b) # 0
        /\ \A n \in 1 .. Len(a) : a[n] \in Names
        /\ \A n \in 1 .. Len(b) : b[n] \in Names
    BY SeqHas
  <1>2. \A n \in Places : /\ c[n] = IF n <= Len(a) THEN {a[n]} ELSE {}
                          /\ d[n] = IF n <= Len(b) THEN {b[n]} ELSE {}
                          /\ c[n] \in CellsOf(Names) /\ d[n] \in CellsOf(Names)
    BY FilledAre
  <1> HIDE DEF c, d
  <1>5. /\ \A n \in Nat : n + 1 \in Places
        /\ \A n \in Nat : \A m \in 1 .. n : m \in Places
        /\ \A n \in Places : n - 1 \in Nat
    BY DEF Places
  <1>3. ASSUME SlugBefore(a, b) PROVE Earlier(NameOrder, c, d)
    <2>1. PICK i \in 1 .. Len(a) : /\ i <= Len(b) /\ SubSeq(a, 1, i - 1) = SubSeq(b, 1, i - 1)
                                   /\ Before(a[i], b[i]) \/ (a[i] = b[i] /\ i < Len(a) /\ i = Len(b))
      BY <1>3 DEF SlugBefore
    <2>2. \A m \in 1 .. i - 1 : a[m] = b[m]
      <3>1. i - 1 \in Nat /\ i - 1 <= Len(a) /\ i - 1 <= Len(b)
        BY <1>1, <2>1
      <3> QED BY <2>1, <3>1, SamePrefix
    <2>3. \A m \in 1 .. i : m \in Places /\ m <= Len(a) /\ m <= Len(b)
      BY <1>1, <1>5, <2>1
    <2>4. \A m \in 1 .. i - 1 : c[m] = d[m]
      <3>1. \A m \in 1 .. i - 1 : m \in 1 .. i
        BY <1>1
      <3> QED BY <1>2, <2>2, <2>3, <3>1
    <2>5. i \in Places /\ i \in 1 .. i /\ i \in 1 .. Len(b)
      BY <1>1, <1>5, <2>1
    <2>6. CASE Before(a[i], b[i])
      <3>1. c[i] = {a[i]} /\ d[i] = {b[i]} /\ a[i] \in Names /\ b[i] \in Names
        BY <1>1, <1>2, <2>1, <2>3, <2>5
      <3>2. <<c[i], d[i]>> \in NameOrder
        BY <1>2, <2>5, <2>6, <3>1 DEF NameOrder
      <3> QED BY <2>4, <2>5, <3>2 DEF Earlier
    <2>7. CASE a[i] = b[i] /\ i < Len(a) /\ i = Len(b)
      <3> DEFINE n == i + 1
      <3>1. n \in Places /\ n <= Len(a) /\ ~(n <= Len(b)) /\ n - 1 = i
        BY <1>1, <1>5, <2>7
      <3> HIDE DEF n
      <3>2. c[n] # {} /\ d[n] = {}
        BY <1>2, <3>1
      <3>3. <<c[n], d[n]>> \in NameOrder
        BY <1>2, <3>1, <3>2 DEF NameOrder
      <3>4. c[i] = d[i]
        BY <1>2, <2>3, <2>5, <2>7
      <3>5. \A m \in 1 .. n - 1 : c[m] = d[m]
        <4>1. \A m \in 1 .. n - 1 : m = i \/ m \in 1 .. i - 1
          BY <1>1, <3>1
        <4> QED BY <2>4, <3>4, <4>1
      <3> QED BY <3>1, <3>3, <3>5 DEF Earlier
    <2> QED BY <2>1, <2>6, <2>7
  <1>4. ASSUME Earlier(NameOrder, c, d) PROVE SlugBefore(a, b)
    <2>1. PICK n \in Places : <<c[n], d[n]>> \in NameOrder /\ \A m \in 1 .. n - 1 : c[m] = d[m]
      BY <1>4 DEF Earlier
    <2>2. c[n] # {}
      BY <2>1 DEF NameOrder
    <2>3. n <= Len(a) /\ c[n] = {a[n]} /\ n \in 1 .. Len(a)
      <3>1. n <= Len(a) /\ c[n] = {a[n]}
        BY <1>2, <2>2
      <3> QED BY <1>1, <3>1 DEF Places
    <2>4. \A m \in 1 .. n - 1 : m <= Len(b) /\ a[m] = b[m]
      <3> SUFFICES ASSUME NEW m \in 1 .. n - 1 PROVE m <= Len(b) /\ a[m] = b[m]
        OBVIOUS
      <3>1. m \in Places /\ m <= Len(a)
        BY <1>1, <2>3 DEF Places
      <3>2. c[m] = d[m] /\ c[m] = {a[m]}
        BY <1>2, <2>1, <3>1
      <3>3. m <= Len(b) /\ d[m] = {b[m]}
        BY <1>2, <3>1, <3>2
      <3> QED BY <3>2, <3>3
    <2>5. CASE n <= Len(b)
      <3>1. d[n] = {b[n]}
        BY <1>2, <2>5
      <3>2. Before(a[n], b[n])
        BY <2>1, <2>3, <3>1 DEF NameOrder
      <3>3. SubSeq(a, 1, n - 1) = SubSeq(b, 1, n - 1)
        <4>1. n - 1 \in Nat /\ n - 1 <= Len(a) /\ n - 1 <= Len(b)
          BY <1>1, <2>3, <2>5
        <4> QED BY <2>4, <4>1, SamePrefix
      <3> QED BY <2>3, <2>5, <3>2, <3>3 DEF SlugBefore
    <2>6. CASE ~(n <= Len(b))
      <3> DEFINE i == n - 1
      <3>1. n # 1
        BY <1>1, <2>6
      <3>2. i \in 1 .. i /\ i \in 1 .. Len(a) /\ i < Len(a)
        BY <1>1, <2>3, <3>1
      <3>3. i <= Len(b) /\ a[i] = b[i]
        BY <2>4, <3>2
      <3>4. i = Len(b)
        BY <1>1, <2>6, <3>3 DEF Places
      <3>5. SubSeq(a, 1, i - 1) = SubSeq(b, 1, i - 1)
        <4>1. i - 1 \in Nat /\ i - 1 <= Len(a) /\ i - 1 <= Len(b) /\ \A m \in 1 .. i - 1 : m \in 1 .. n - 1
          BY <1>1, <3>2, <3>3
        <4> HIDE DEF i
        <4> QED BY <2>4, <4>1, SamePrefix
      <3> HIDE DEF i
      <3> QED BY <3>2, <3>3, <3>4, <3>5 DEF SlugBefore
    <2> QED BY <2>5, <2>6
  <1> QED BY <1>3, <1>4 DEF c, d

Slugs == Seq(Names) \ {<<>>}

(* The order in which collect_pages meets the pages is one: no page before   *)
(* itself, of two one before the other, whatever the directories (sorted     *)
(* entries of a directory, the files in it before the file of its name).     *)
THEOREM SlugBeforeIsOrder ==
  \A s, t, u \in Slugs : /\ ~SlugBefore(s, s)
                         /\ SlugBefore(s, t) /\ SlugBefore(t, u) => SlugBefore(s, u)
                         /\ s # t => SlugBefore(s, t) \/ SlugBefore(t, s)
  <1> SUFFICES ASSUME NEW s \in Slugs, NEW t \in Slugs, NEW u \in Slugs
               PROVE  /\ ~SlugBefore(s, s)
                      /\ SlugBefore(s, t) /\ SlugBefore(t, u) => SlugBefore(s, u)
                      /\ s # t => SlugBefore(s, t) \/ SlugBefore(t, s)
    OBVIOUS
  <1>1. s \in Seq(Names) /\ t \in Seq(Names) /\ u \in Seq(Names) /\ s # <<>> /\ t # <<>> /\ u # <<>>
    BY DEF Slugs
  <1>2. /\ Filled(s) \in [Places -> CellsOf(Names)]
        /\ Filled(t) \in [Places -> CellsOf(Names)]
        /\ Filled(u) \in [Places -> CellsOf(Names)]
    BY <1>1, FilledAre
  <1>3. /\ ~Earlier(NameOrder, Filled(s), Filled(s))
        /\ Earlier(NameOrder, Filled(s), Filled(t)) /\ Earlier(NameOrder, Filled(t), Filled(u))
              => Earlier(NameOrder, Filled(s), Filled(u))
        /\ Filled(s) # Filled(t) => Earlier(NameOrder, Filled(s), Filled(t)) \/ Earlier(NameOrder, Filled(t), Filled(s))
    BY <1>2, NameOrderIsOrder, EarlierIsOrder
  <1>4. s # t => Filled(s) # Filled(t)
    BY <1>1, FilledDiffer
  <1> QED BY <1>1, <1>3, <1>4, SlugBeforeIsEarlier

(* In a finite set with an order each place is that of one element.          *)
Below(S, R, x) == {y \in S : <<y, x>> \in R}
Ranked(S, R) == \A i \in 1 .. Cardinality(S) : \E x \in S : Cardinality(Below(S, R, x)) = i - 1

LEMMA Ranks ==
  ASSUME NEW S, IsFiniteSet(S), NEW R, IsOrder(R, S)
  PROVE  Ranked(S, R)
  <1> DEFINE below(x) == Below(S, R, x)
             rank == [x \in S |-> Cardinality(below(x)) + 1]
             n == Cardinality(S)
  <1>0. n \in Nat
    BY FS_CardinalityType
  <1>1. ASSUME NEW x \in S
        PROVE  IsFiniteSet(below(x)) /\ Cardinality(below(x)) \in Nat /\ Cardinality(below(x)) < n
    <2>1. below(x) \subseteq S /\ x \notin below(x)
      BY DEF Below, IsOrder
    <2> HIDE DEF below
    <2>2. below(x) # S
      BY <2>1
    <2> QED BY <2>1, <2>2, FS_Subset, FS_CardinalityType
  <1>2. \A x \in S : Cardinality(below(x)) + 1 \in 1 .. n
    <2> HIDE DEF below, n
    <2> QED BY <1>0, <1>1
  <1>3. ASSUME NEW x \in S, NEW y \in S, <<x, y>> \in R PROVE Cardinality(below(x)) < Cardinality(below(y))
    <2>1. below(x) \subseteq below(y) /\ x \in below(y) /\ x \notin below(x)
      BY <1>3 DEF Below, IsOrder
    <2>2. below(x) # below(y)
      BY <2>1
    <2> HIDE DEF below
    <2> QED BY <1>1, <2>1, <2>2, FS_Subset
  <1>4. rank \in Injection(S, 1 .. n)
    <2>1. rank \in [S -> 1 .. n]
      BY <1>2
    <2>2. ASSUME NEW x \in S, NEW y \in S, rank[x] = rank[y] PROVE x = y
      <3>1. Cardinality(below(x)) = Cardinality(below(y))
        <4>1. Cardinality(below(x)) + 1 = Cardinality(below(y)) + 1
          BY <2>2
        <4> HIDE DEF below
        <4> QED BY <1>1, <4>1
      <3>2. ~(Cardinality(below(x)) < Cardinality(below(x)))
        <4> HIDE DEF below
        <4> QED BY <1>1
      <3> HIDE DEF below, rank
      <3> QED BY <1>3, <3>1, <3>2 DEF IsOrder
    <2> HIDE DEF rank
    <2> QED BY <2>1, <2>2 DEF Injection, IsInjective
  <1>5. IsFiniteSet(1 .. n) /\ Cardinality(1 .. n) = n
    BY <1>0, FS_Interval
  <1>6. rank \in Surjection(S, 1 .. n)
    <2> HIDE DEF rank, below
    <2>1. Cardinality(S) = Cardinality(1 .. n)
      BY <1>5
    <2> QED BY <1>4, <1>5, <2>1, FS_Injection
  <1>7. ASSUME NEW i \in 1 .. n PROVE \E x \in S : Cardinality(below(x)) = i - 1
    <2>1. PICK x \in S : rank[x] = i
      <3> HIDE DEF rank
      <3> QED BY <1>6 DEF Surjection
    <2>2. Cardinality(below(x)) + 1 = i
      BY <2>1
    <2> HIDE DEF below, n
    <2> QED BY <1>0, <1>1, <2>2
  <1> QED BY <1>7 DEF Ranked

(* A file system: finitely many files with texts.                            *)
IsFileSystem(fs) == IsFiniteSet(DOMAIN fs) /\ DOMAIN fs \subseteq Paths /\ \A p \in DOMAIN fs : IsText(fs[p])
SlugOf(root, p) == SubSeq(p.dir, Len(root) + 1, Len(p.dir)) \o <<p.name>>

(* The slug of a page leads to its file again.                               *)
LEMMA SlugLeadsBack ==
  ASSUME NEW X, NEW root \in Seq(X), NEW p \in Paths, IsPrefix(root, p.dir)
  PROVE  /\ SlugOf(root, p) \in Slugs
         /\ root \o Front(SlugOf(root, p)) = p.dir /\ Last(SlugOf(root, p)) = p.name
         /\ Front(SlugOf(root, p)) \in Seq(Names)
  <1> DEFINE dir == p.dir
             k == Len(root)
             n == Len(dir)
             rest == SubSeq(dir, k + 1, n)
             slug == SlugOf(root, p)
             Y == X \cup Names
  <1>0. dir \in Seq(Names) /\ p.name \in Names
    BY DEF Paths
  <1>1. k \in Nat /\ n \in Nat /\ root \in Seq(Y) /\ dir \in Seq(Y)
    <2> HIDE DEF dir
    <2> QED BY <1>0
  <1>2. k <= n /\ \A m \in 1 .. k : root[m] = dir[m]
    <2> HIDE DEF Y
    <2> QED BY <1>1, PrefixByPlaces
  <1> HIDE DEF dir, Y
  <1>3. rest \in Seq(Names) /\ Len(rest) = n - k /\ \A m \in 1 .. n - k : rest[m] = dir[k + m]
    <2>1. \A m \in k + 1 .. n : dir[m] \in Names
      BY <1>0, <1>1
    <2>2. /\ rest \in Seq(Names)
          /\ Len(rest) = IF k + 1 <= n THEN n - (k + 1) + 1 ELSE 0
          /\ \A m \in 1 .. n - (k + 1) + 1 : rest[m] = dir[k + 1 + m - 1]
      BY <1>1, <2>1, SubSeqProperties
    <2> HIDE DEF rest
    <2>3. n - (k + 1) + 1 = n - k /\ \A m \in 1 .. n - k : k + 1 + m - 1 = k + m
      BY <1>1
    <2>4. (IF k + 1 <= n THEN n - (k + 1) + 1 ELSE 0) = n - k
      BY <1>1, <1>2
    <2>5. Len(rest) = n - k
      BY <2>2, <2>4
    <2>6. \A m \in 1 .. n - k : rest[m] = dir[k + m]
      BY <2>2, <2>3
    <2> QED BY <2>2, <2>5, <2>6
  <1>4. slug = rest \o <<p.name>>
    BY DEF SlugOf, dir
  <1> HIDE DEF rest, slug
  <1>5. slug \in Seq(Names) /\ Len(slug) = n - k + 1 /\ slug[n - k + 1] = p.name
        /\ \A m \in 1 .. n - k : slug[m] = rest[m]
    BY <1>0, <1>1, <1>2, <1>3, <1>4
  <1>6. slug \in Slugs
    BY <1>1, <1>2, <1>5 DEF Slugs
  <1>7. Front(slug) = rest
    <2>1. Front(slug) = SubSeq(slug, 1, n - k)
      <3>1. n - k + 1 - 1 = n - k
        BY <1>1
      <3> QED BY <1>5, <3>1 DEF Front
    <2>2. rest = SubSeq(rest, 1, n - k)
      BY <1>3, SubSeqFull
    <2>3. SubSeq(slug, 1, n - k) = SubSeq(rest, 1, n - k)
      <3>1. n - k \in Nat /\ n - k <= Len(slug) /\ n - k <= Len(rest)
        BY <1>1, <1>2, <1>3, <1>5
      <3> QED BY <1>3, <1>5, <3>1, SamePrefix
    <2> QED BY <2>1, <2>2, <2>3
  <1>8. Last(slug) = p.name
    BY <1>5 DEF Last
  <1>9. root \o rest = dir
    <2>1. root \o rest \in Seq(Y) /\ Len(root \o rest) = n
          /\ \A m \in 1 .. n : (root \o rest)[m] = IF m <= k THEN root[m] ELSE rest[m - k]
      <3>1. rest \in Seq(Y)
        BY <1>3 DEF Y
      <3> QED BY <1>1, <1>2, <1>3, <3>1
    <2>2. \A m \in 1 .. n : (root \o rest)[m] = dir[m]
      <3> SUFFICES ASSUME NEW m \in 1 .. n PROVE (root \o rest)[m] = dir[m]
        OBVIOUS
      <3>1. CASE m <= k
        BY <1>1, <1>2, <2>1, <3>1
      <3>2. CASE ~(m <= k)
        <4>1. m - k \in 1 .. n - k /\ k + (m - k) = m
          BY <1>1, <3>2
        <4> QED BY <1>3, <2>1, <3>2, <4>1
      <3> QED BY <3>1, <3>2
    <2> QED BY <1>1, <2>1, <2>2, SeqEqual
  <1> QED BY <1>3, <1>6, <1>7, <1>8, <1>9 DEF slug, dir

LEMMA SlugsAre ==
  ASSUME NEW fs, IsFileSystem(fs), NEW schema
  PROVE  LET root == SectionDir(schema, "content") IN
         /\ IsFiniteSet(SlugsIn(fs, root)) /\ SlugsIn(fs, root) \subseteq Slugs
         /\ \A slug \in SlugsIn(fs, root) : PagePath(schema, "content", slug) \in DOMAIN fs
  <1> DEFINE root == SectionDir(schema, "content")
             files == PagesIn(fs, root)
             slugs == SlugsIn(fs, root)
  <1>1. root \in Seq({Dir(schema, "content")})
    BY DEF SectionDir
  <1>2. files \subseteq DOMAIN fs /\ \A p \in files : p \in Paths /\ IsPrefix(root, p.dir) /\ p.ext = "mdx"
    BY DEF PagesIn, IsFileSystem
  <1>3. slugs = {SlugOf(root, p) : p \in files}
    BY DEF SlugsIn, SlugOf
  <1> HIDE DEF root, files, slugs
  <1>4. IsFiniteSet(slugs)
    <2> DEFINE f == [p \in files |-> SlugOf(root, p)]
    <2>1. f \in Surjection(files, slugs)
      BY <1>3 DEF Surjection
    <2>2. IsFiniteSet(files)
      BY <1>2, FS_Subset DEF IsFileSystem
    <2> HIDE DEF f
    <2> QED BY <2>1, <2>2, FS_Surjection
  <1>5. ASSUME NEW slug \in slugs PROVE slug \in Slugs /\ PagePath(schema, "content", slug) \in DOMAIN fs
    <2>1. PICK p \in files : slug = SlugOf(root, p)
      BY <1>3
    <2>2. slug \in Slugs /\ root \o Front(slug) = p.dir /\ Last(slug) = p.name
      BY <1>1, <1>2, <2>1, SlugLeadsBack
    <2>3. PagePath(schema, "content", slug) = [dir |-> p.dir, name |-> p.name, ext |-> p.ext]
      BY <1>2, <2>2 DEF PagePath, Path, root
    <2>4. p = [dir |-> p.dir, name |-> p.name, ext |-> p.ext]
      <3>1. p \in Paths
        BY <1>2
      <3> QED BY <3>1 DEF Paths
    <2> QED BY <1>2, <2>2, <2>3, <2>4
  <1> QED BY <1>4, <1>5 DEF root, slugs

(* The slugs in their order: one of them at each place.                      *)
LEMMA ContentSlugsAre ==
  ASSUME NEW fs, IsFileSystem(fs), NEW schema
  PROVE  /\ Len(ContentSlugs(fs, schema)) \in Nat
         /\ \A i \in 1 .. Len(ContentSlugs(fs, schema)) :
               ContentSlugs(fs, schema)[i] \in SlugsIn(fs, SectionDir(schema, "content"))
  <1> DEFINE slugs == SlugsIn(fs, SectionDir(schema, "content"))
             R == {x \in slugs \X slugs : SlugBefore(x[1], x[2])}
             n == Cardinality(slugs)
             at(i) == CHOOSE slug \in slugs : Cardinality({t \in slugs : SlugBefore(t, slug)}) = i - 1
  <1>1. IsFiniteSet(slugs) /\ slugs \subseteq Slugs
    BY SlugsAre
  <1>2. ContentSlugs(fs, schema) = [i \in 1 .. n |-> at(i)]
    BY DEF ContentSlugs
  <1> HIDE DEF slugs
  <1>3. n \in Nat
    BY <1>1, FS_CardinalityType
  <1>4. \A x, y \in slugs : <<x, y>> \in R <=> SlugBefore(x, y)
    OBVIOUS
  <1>5. IsOrder(R, slugs)
    <2> HIDE DEF R
    <2>1. ASSUME NEW x \in slugs, NEW y \in slugs, NEW z \in slugs
          PROVE  /\ <<x, x>> \notin R
                 /\ <<x, y>> \in R /\ <<y, z>> \in R => <<x, z>> \in R
                 /\ x # y => <<x, y>> \in R \/ <<y, x>> \in R
      BY <1>1, <1>4, SlugBeforeIsOrder
    <2> QED BY <2>1 DEF IsOrder
  <1>6. ASSUME NEW i \in 1 .. n PROVE at(i) \in slugs
    <2>1. \E x \in slugs : Cardinality({y \in slugs : <<y, x>> \in R}) = i - 1
      <3>1. PICK S, Q : S = slugs /\ Q = R
        OBVIOUS
      <3> HIDE DEF R, at
      <3>2. IsFiniteSet(S)
        BY <1>1, <3>1
      <3>3. IsOrder(Q, S)
        BY <1>5, <3>1
      <3>4. Ranked(S, Q)
        BY <3>2, <3>3, Ranks
      <3> QED BY <1>6, <3>1, <3>4 DEF Below, Ranked
    <2>2. \A x \in slugs : {y \in slugs : <<y, x>> \in R} = {t \in slugs : SlugBefore(t, x)}
      <3> HIDE DEF R
      <3> QED BY <1>4
    <2> HIDE DEF R
    <2> QED BY <2>1, <2>2
  <1> HIDE DEF at, n
  <1>7. Len([i \in 1 .. n |-> at(i)]) = n
    BY <1>3
  <1> QED BY <1>2, <1>3, <1>6, <1>7 DEF slugs
-----------------------------------------------------------------------------
(* What the scan of a file system finds: the pages it lists are files there  *)
(* that nothing keeps from being pages, about items of the project.          *)
Pages(fs, schema, modid) ==
    {slug \in SlugsIn(fs, SectionDir(schema, "content")) : PageIssue(fs[PagePath(schema, "content", slug)], modid) = None}
OwnItems(modid) == {l \in Locations \ {Malformed} : l.ns = modid}
Listed(fs, schema, modid) == [ref : Names, slug : Pages(fs, schema, modid), ids : Seq(OwnItems(modid))]

IsScan(good, scan) == \E list \in Seq(good) : \E found : scan = [pages |-> list, issues |-> found]

(* What nothing keeps from being a page.                                     *)
LEMMA PageIs ==
  ASSUME NEW text, IsText(text), NEW modid, PageIssue(text, modid) = None, None \notin PageIssues
  PROVE  /\ ParseFrontmatter(text) # None
         /\ text.ids \in Seq(OwnItems(modid)) /\ text.ids # <<>>
         /\ text.ref \in Names \cup {None}
  <1>1. /\ ParseFrontmatter(text) = None => PageIssue(text, modid) = "invalid_frontmatter"
        /\ ParseFrontmatter(text) # None /\ ParseFrontmatter(text).ids = <<>> => PageIssue(text, modid) = "missing_ids"
        /\ ParseFrontmatter(text) # None /\ ParseFrontmatter(text).ids # <<>>
              /\ (\E i \in DOMAIN ParseFrontmatter(text).ids : ParseFrontmatter(text).ids[i].ns # modid)
              => PageIssue(text, modid) = "invalid_id"
    BY DEF PageIssue
  <1>2. "invalid_frontmatter" # None /\ "missing_ids" # None /\ "invalid_id" # None
    <2>1. "invalid_frontmatter" \in PageIssues /\ "missing_ids" \in PageIssues /\ "invalid_id" \in PageIssues
      BY DEF PageIssues
    <2> QED BY <2>1
  <1>3. ParseFrontmatter(text) # None /\ ParseFrontmatter(text).ids # <<>>
    BY <1>1, <1>2
  <1>4. ValidFrontmatter(text) /\ ParseFrontmatter(text).ids = text.ids
    BY <1>3 DEF ParseFrontmatter
  <1>5. text.ids # <<>> /\ \A i \in DOMAIN text.ids : text.ids[i].ns = modid
    BY <1>1, <1>2, <1>3, <1>4
  <1>6. text.ids \in Seq(Locations \cup {Malformed}) /\ text.ref \in Names \cup {None, Malformed}
    BY DEF IsText
  <1>7. Malformed \notin Range(text.ids) /\ text.ref # Malformed
    BY <1>4 DEF ValidFrontmatter
  <1>8. text.ids \in Seq(OwnItems(modid))
    <2>1. PICK ids : ids = text.ids
      OBVIOUS
    <2>2. DOMAIN ids = 1 .. Len(ids) /\ Len(ids) \in Nat /\ \A i \in 1 .. Len(ids) : ids[i] \in Locations \cup {Malformed}
      BY <1>6, <2>1
    <2>3. \A i \in 1 .. Len(ids) : ids[i] \in OwnItems(modid)
      BY <1>5, <1>7, <2>1, <2>2 DEF OwnItems, Range
    <2>4. ids = [i \in 1 .. Len(ids) |-> ids[i]]
      BY <1>6, <2>1, <2>2
    <2>5. ids \in [1 .. Len(ids) -> OwnItems(modid)]
      BY <2>3, <2>4
    <2> QED BY <2>1, <2>2, <2>5
  <1> QED BY <1>3, <1>5, <1>6, <1>7, <1>8

(* What a page is called is a name: its own, that of its item, its slug's.   *)
LEMMA RefIs ==
  ASSUME NEW existing, NEW custom \in Names \cup {None}, NEW modid, NEW ids \in Seq(OwnItems(modid)), ids # <<>>,
         NEW slug \in Slugs
  PROVE  DeriveRef(existing, custom, ids, slug) \in Names
  <1> DEFINE primary == FlattenSeq(ids[1].path)
  <1>1. \A seqs \in Seq(Names) : FlattenSeq(seqs) \in Names
    <2>1. <<>> \in Names /\ \A s, t \in Names : s \o t \in Names
      BY DEF Names
    <2> QED BY <2>1, FlattenIn
  <1>2. primary \in Names
    <2>1. ids[1] \in Locations
      <3>1. Len(ids) \in Nat /\ Len(ids) # 0 /\ \A i \in 1 .. Len(ids) : ids[i] \in OwnItems(modid)
        OBVIOUS
      <3>2. 1 \in 1 .. Len(ids)
        BY <3>1
      <3> QED BY <3>1, <3>2 DEF OwnItems
    <2>2. ids[1].path \in Seq(Names)
      BY <2>1 DEF Locations
    <2> QED BY <1>1, <2>2
  <1>3. Last(slug) \in Names /\ FlattenSeq(slug) \in Names
    <2>1. slug \in Seq(Names) /\ slug # <<>>
      BY DEF Slugs
    <2>2. Len(slug) \in Nat /\ Len(slug) # 0 /\ \A i \in 1 .. Len(slug) : slug[i] \in Names
      BY <2>1
    <2>3. Len(slug) \in 1 .. Len(slug)
      BY <2>2
    <2> QED BY <1>1, <2>1, <2>2, <2>3 DEF Last
  <1> HIDE DEF primary
  <1>4. DeriveRef(existing, custom, ids, slug) =
           IF custom # None /\ custom \notin existing THEN custom
           ELSE IF Len(ids) = 1 /\ primary \notin existing THEN primary
           ELSE IF Last(slug) \notin existing THEN Last(slug)
           ELSE FlattenSeq(slug)
    BY DEF DeriveRef, primary
  <1> QED BY <1>2, <1>3, <1>4

LEMMA PageAdded ==
  ASSUME NEW fs, IsFileSystem(fs), NEW schema, NEW modid, None \notin PageIssues, NEW scan,
         NEW slug \in SlugsIn(fs, SectionDir(schema, "content")), IsScan(Listed(fs, schema, modid), scan)
  PROVE  IsScan(Listed(fs, schema, modid), AddPage(fs, schema, modid, scan, slug))
  <1> DEFINE path == PagePath(schema, "content", slug)
             issue == PageIssue(fs[path], modid)
             ref == DeriveRef({p.ref : p \in Range(scan.pages)}, fs[path].ref, fs[path].ids, slug)
             page == ContentPage(ref, slug, fs[path].ids)
             good == Listed(fs, schema, modid)
             next == AddPage(fs, schema, modid, scan, slug)
  <1>1. next = IF issue # None THEN [scan EXCEPT !.issues = @ \cup {[kind |-> issue, path |-> path]}]
               ELSE [scan EXCEPT !.pages = Append(@, page)]
    BY DEF AddPage
  <1>2. ASSUME issue = None PROVE page \in good
    <2>1. slug \in Slugs /\ path \in DOMAIN fs
      BY SlugsAre
    <2>2. IsText(fs[path])
      BY <2>1 DEF IsFileSystem
    <2>3. fs[path].ids \in Seq(OwnItems(modid)) /\ fs[path].ids # <<>> /\ fs[path].ref \in Names \cup {None}
      <3> HIDE DEF path
      <3> QED BY <1>2, <2>2, PageIs
    <2>4. ref \in Names
      BY <2>1, <2>3, RefIs
    <2>5. slug \in Pages(fs, schema, modid)
      BY <1>2 DEF Pages
    <2> HIDE DEF path, ref
    <2> QED BY <2>3, <2>4, <2>5 DEF Listed, ContentPage
  <1> HIDE DEF path, issue, ref, page, good, next
  <1>3. PICK list \in Seq(good) : \E found : scan = [pages |-> list, issues |-> found]
    BY DEF IsScan, good
  <1>4. PICK found : scan = [pages |-> list, issues |-> found]
    BY <1>3
  <1>5. CASE issue # None
    <2>1. next = [pages |-> list, issues |-> found \cup {[kind |-> issue, path |-> path]}]
      BY <1>1, <1>4, <1>5
    <2> QED BY <1>4, <2>1 DEF IsScan, good, next
  <1>6. CASE issue = None
    <2>1. next = [pages |-> Append(list, page), issues |-> found]
      BY <1>1, <1>4, <1>6
    <2>2. Append(list, page) \in Seq(good)
      BY <1>2, <1>4, <1>6
    <2> QED BY <2>1, <2>2 DEF IsScan, good, next
  <1> QED BY <1>5, <1>6

(* Page after page, by the first that does not hold.                         *)
LEMMA ScanIs ==
  ASSUME NEW fs, IsFileSystem(fs), NEW schema, NEW modid, None \notin PageIssues
  PROVE  IsScan(Listed(fs, schema, modid), ScanContentPages(fs, schema, modid))
  <1> DEFINE slugs == ContentSlugs(fs, schema)
             n == Len(slugs)
             none == [pages |-> <<>>, issues |-> {}]
             Adds(scan, slug) == AddPage(fs, schema, modid, scan, slug)
             Scanned(f, k) == f = [i \in 0 .. k |-> IF i = 0 THEN none ELSE Adds(f[i - 1], slugs[i])]
             good == Listed(fs, schema, modid)
  <1>0. n \in Nat /\ \A i \in 1 .. n : slugs[i] \in SlugsIn(fs, SectionDir(schema, "content"))
    BY ContentSlugsAre
  <1>1. \A k \in 0 .. n : \E f : Scanned(f, k)
    <2> DEFINE S == {k \in 0 .. n : ~ \E f : Scanned(f, k)}
    <2> HIDE DEF slugs, n, none, Adds
    <2>1. SUFFICES ASSUME S # {} PROVE FALSE
      OBVIOUS
    <2>2. PICK k \in S : \A m \in S : k <= m
      <3> HIDE DEF Scanned
      <3>1. S \in SUBSET Nat
        BY <1>0
      <3> HIDE DEF S
      <3> QED BY <2>1, <3>1, Least
    <2>3. CASE k = 0
      <3>1. Scanned([i \in 0 .. 0 |-> none], 0)
        OBVIOUS
      <3> QED BY <2>2, <2>3, <3>1
    <2>4. CASE k # 0
      <3>1. k - 1 \in 0 .. n /\ k - 1 \notin S
        <4> HIDE DEF Scanned
        <4> QED BY <1>0, <2>2, <2>4
      <3>2. PICK g : Scanned(g, k - 1)
        BY <3>1
      <3> DEFINE h == [i \in 0 .. k |-> IF i = k THEN Adds(g[k - 1], slugs[k]) ELSE g[i]]
      <3>3. ASSUME NEW i \in 0 .. k PROVE h[i] = IF i = 0 THEN none ELSE Adds(h[i - 1], slugs[i])
        <4>1. k \in Nat /\ 0 < k
          BY <1>0, <2>2, <2>4
        <4>2. CASE i = k
          <5>1. k - 1 \in 0 .. k /\ k - 1 # k /\ k \in 0 .. k /\ k # 0
            BY <4>1
          <5>2. h[k - 1] = g[k - 1] /\ h[k] = Adds(g[k - 1], slugs[k])
            BY <5>1
          <5> HIDE DEF h, S, Scanned
          <5>3. h[k] = Adds(h[k - 1], slugs[k])
            BY <5>2
          <5> QED BY <4>2, <5>1, <5>3
        <4>3. CASE i # k
          <5>1. i \in 0 .. k - 1 /\ (i # 0 => i - 1 \in 0 .. k /\ i - 1 # k)
            BY <4>1, <4>3
          <5>2. h[i] = g[i] /\ (i # 0 => h[i - 1] = g[i - 1])
            BY <4>3, <5>1
          <5>3. g[i] = IF i = 0 THEN none ELSE Adds(g[i - 1], slugs[i])
            BY <3>2, <5>1
          <5> HIDE DEF h, S, Scanned
          <5> QED BY <5>2, <5>3
        <4> QED BY <4>2, <4>3
      <3>4. Scanned(h, k)
        BY <3>3
      <3> QED BY <2>2, <3>4
    <2> QED BY <2>3, <2>4
  <1> DEFINE scanned[i \in 0 .. Len(slugs)] == IF i = 0 THEN none ELSE AddPage(fs, schema, modid, scanned[i - 1], slugs[i])
  <1>2. ScanContentPages(fs, schema, modid) = scanned[n]
    BY DEF ScanContentPages
  <1>3. Scanned(scanned, n)
    <2>1. scanned = CHOOSE f : Scanned(f, n)
      OBVIOUS
    <2>2. n \in 0 .. n
      BY <1>0
    <2> HIDE DEF Scanned, scanned, n
    <2> QED BY <1>1, <2>1, <2>2
  <1> HIDE DEF scanned, n, slugs
  <1>4. \A i \in 0 .. n : scanned[i] = IF i = 0 THEN none ELSE Adds(scanned[i - 1], slugs[i])
    BY <1>3
  <1> DEFINE S == {i \in 0 .. n : ~IsScan(good, scanned[i])}
  <1>5. S = {}
    <2>1. SUFFICES ASSUME S # {} PROVE FALSE
      OBVIOUS
    <2>2. PICK i \in S : \A m \in S : i <= m
      <3>1. S \in SUBSET Nat
        BY <1>0
      <3> HIDE DEF S
      <3> QED BY <2>1, <3>1, Least
    <2>3. CASE i = 0
      <3>1. scanned[i] = [pages |-> <<>>, issues |-> {}]
        BY <1>4, <2>2, <2>3
      <3> HIDE DEF good
      <3>2. <<>> \in Seq(good)
        OBVIOUS
      <3> QED BY <2>2, <3>1, <3>2 DEF IsScan
    <2>4. CASE i # 0
      <3>1. i - 1 \in 0 .. n /\ i \in 1 .. n /\ i - 1 \notin S
        <4>1. i \in 0 .. n
          BY <2>2
        <4>2. i - 1 \in 0 .. n /\ i \in 1 .. n /\ ~(i <= i - 1)
          BY <1>0, <2>4, <4>1
        <4> HIDE DEF S
        <4> QED BY <2>2, <4>2
      <3>2. IsScan(good, scanned[i - 1])
        BY <3>1
      <3>3. scanned[i] = AddPage(fs, schema, modid, scanned[i - 1], slugs[i])
        BY <1>4, <2>2, <2>4
      <3>4. IsScan(good, scanned[i])
        BY <1>0, <3>1, <3>2, <3>3, PageAdded
      <3> QED BY <2>2, <3>4
    <2> QED BY <2>3, <2>4
  <1> HIDE DEF good
  <1>6. n \in 0 .. n
    BY <1>0
  <1> QED BY <1>2, <1>5, <1>6 DEF good
-----------------------------------------------------------------------------
(* The rows of the pages that an ingestion makes of a file system.           *)
LEMMA MaxIn ==
  ASSUME NEW S \in SUBSET Nat, IsFiniteSet(S), S # {}
  PROVE  Max(S) \in S /\ \A n \in S : n <= Max(S)
  <1> DEFINE above(n) == {m \in S : n < m}
             sizes == {Cardinality(above(n)) : n \in S}
  <1>1. \A n \in S : IsFiniteSet(above(n)) /\ Cardinality(above(n)) \in Nat
    BY FS_Subset, FS_CardinalityType
  <1>2. PICK k \in sizes : \A l \in sizes : k <= l
    <2>1. sizes \in SUBSET Nat /\ sizes # {}
      BY <1>1
    <2> HIDE DEF sizes
    <2> QED BY <2>1, Least
  <1>3. PICK n \in S : k = Cardinality(above(n))
    OBVIOUS
  <1>4. ASSUME NEW m \in S, n < m PROVE FALSE
    <2>1. above(m) \subseteq above(n) /\ m \in above(n) /\ m \notin above(m)
      <3>1. m \in Nat /\ n \in Nat /\ \A x \in S : x \in Nat
        OBVIOUS
      <3>2. \A x \in S : m < x => n < x
        BY <1>4, <3>1
      <3>3. ~(m < m)
        BY <3>1
      <3> QED BY <1>4, <3>2, <3>3
    <2>2. Cardinality(above(m)) < Cardinality(above(n))
      <3> HIDE DEF above
      <3> QED BY <1>1, <2>1, FS_Subset, FS_CardinalityType
    <2>3. Cardinality(above(n)) <= Cardinality(above(m))
      BY <1>2, <1>3
    <2> HIDE DEF above
    <2> QED BY <1>1, <2>2, <2>3
  <1>5. \E x \in S : \A y \in S : x >= y
    BY <1>4
  <1>6. Max(S) \in S /\ \A y \in S : Max(S) >= y
    BY <1>5 DEF Max
  <1> QED BY <1>6

(* Of the pages with the same reference the last one stays.                  *)
PagesFound(fs, schema, modid) == PagesByRef(ScanContentPages(fs, schema, modid))
ListOf(fs, schema, modid) == ScanContentPages(fs, schema, modid).pages
AtRef(list, ref) == {i \in DOMAIN list : list[i].ref = ref}

LEMMA LastAtRef ==
  ASSUME NEW X, NEW list \in Seq(X), NEW i \in 1 .. Len(list)
  PROVE  LET last == Max(AtRef(list, list[i].ref))
         IN  last \in 1 .. Len(list) /\ list[last].ref = list[i].ref
  <1> DEFINE at == AtRef(list, list[i].ref)
  <1>1. DOMAIN list = 1 .. Len(list) /\ Len(list) \in Nat
    OBVIOUS
  <1>2. i \in at /\ at \subseteq 1 .. Len(list)
    BY <1>1 DEF AtRef
  <1>3. IsFiniteSet(at) /\ at \in SUBSET Nat
    <2> HIDE DEF at
    <2>1. IsFiniteSet(1 .. Len(list)) /\ 1 .. Len(list) \subseteq Nat
      BY <1>1, FS_Interval
    <2> QED BY <1>2, <2>1, FS_Subset
  <1>4. Max(at) \in at
    <2> HIDE DEF at
    <2> QED BY <1>2, <1>3, MaxIn
  <1> QED BY <1>2, <1>4 DEF AtRef

LEMMA PagesFoundAre ==
  ASSUME NEW fs, IsFileSystem(fs), NEW schema, NEW modid, None \notin PageIssues
  PROVE  LET list == ListOf(fs, schema, modid)
         IN  /\ list \in Seq(Listed(fs, schema, modid)) /\ Len(list) \in Nat
             /\ Range(list) = {list[i] : i \in 1 .. Len(list)}
             /\ PagesFound(fs, schema, modid) = {list[Max(AtRef(list, list[i].ref))] : i \in 1 .. Len(list)}
             /\ PagesFound(fs, schema, modid) \subseteq Range(list)
             /\ PagesFound(fs, schema, modid) \subseteq Listed(fs, schema, modid)
  <1> DEFINE good == Listed(fs, schema, modid)
             scan == ScanContentPages(fs, schema, modid)
             list == ListOf(fs, schema, modid)
             found == PagesFound(fs, schema, modid)
  <1>1. list \in Seq(good)
    <2>1. PICK l \in Seq(good) : \E issues0 : scan = [pages |-> l, issues |-> issues0]
      BY ScanIs DEF IsScan
    <2> QED BY <2>1 DEF ListOf
  <1>2. found = {list[Max(AtRef(list, p.ref))] : p \in Range(list)}
    BY DEF PagesFound, PagesByRef, ListOf, AtRef
  <1> HIDE DEF good, scan, list, found
  <1>3. DOMAIN list = 1 .. Len(list) /\ Len(list) \in Nat /\ \A i \in 1 .. Len(list) : list[i] \in good
    BY <1>1
  <1>4. Range(list) = {list[i] : i \in 1 .. Len(list)}
    BY <1>3 DEF Range
  <1>5. found = {list[Max(AtRef(list, list[i].ref))] : i \in 1 .. Len(list)}
    BY <1>2, <1>4
  <1>6. \A i \in 1 .. Len(list) : Max(AtRef(list, list[i].ref)) \in 1 .. Len(list)
    BY <1>1, LastAtRef
  <1>7. found \subseteq Range(list) /\ found \subseteq good
    BY <1>3, <1>4, <1>5, <1>6
  <1> QED BY <1>1, <1>3, <1>4, <1>5, <1>7 DEF good, list, found

(* The rows of the pages, and of their items.                                *)
RowsAreOf(rows, pages) ==
    /\ rows.pages = {[ref |-> p.ref, slug |-> p.slug] : p \in pages}
    /\ rows.itemPages = UNION {{[item |-> l, ref |-> p.ref] : l \in Range(p.ids)} : p \in pages}
    /\ \A p \in pages : Range(p.ids) \subseteq rows.items

LEMMA IngestedRows ==
  ASSUME NEW fs, IsFileSystem(fs), NEW schema, NEW modid, NEW db, NEW v, NEW known,
         None \notin PageIssues, modid \notin BuiltinNamespaces
  PROVE  LET rows == Ingest(fs, schema, modid, db, v, known).rows
         IN  DOMAIN rows = DOMAIN NoRows /\ RowsAreOf(rows, PagesFound(fs, schema, modid))
  <1> DEFINE prepared == Prepare(fs, schema, modid)
             rows == Ingest(fs, schema, modid, db, v, known).rows
             pages == PagesFound(fs, schema, modid)
  <1>1. prepared.pages = pages
    BY DEF Prepare, PagesFound
  <1>2. \A p \in pages : Range(p.ids) \subseteq OwnItems(modid)
    <2> SUFFICES ASSUME NEW p \in pages PROVE Range(p.ids) \subseteq OwnItems(modid)
      OBVIOUS
    <2>1. p \in Listed(fs, schema, modid)
      BY PagesFoundAre
    <2>2. p.ids \in Seq(OwnItems(modid))
      BY <2>1 DEF Listed
    <2> QED BY <2>2 DEF Range
  <1> HIDE DEF prepared, pages
  <1>3. \E last, accepted : rows = RowsOf(prepared, db, v, AddedItems(prepared, modid) \cup last, accepted)
    <2>1. Ingest(fs, schema, modid, db, v, known) = Execute(prepared, modid, db, v, known)
      BY DEF Ingest, prepared
    <2>2. \E last, accepted : Execute(prepared, modid, db, v, known).rows
                                  = RowsOf(prepared, db, v, AddedItems(prepared, modid) \cup last, accepted)
      BY DEF Execute
    <2> QED BY <2>1, <2>2
  <1>4. PICK last, accepted : rows = RowsOf(prepared, db, v, AddedItems(prepared, modid) \cup last, accepted)
    BY <1>3
  <1> HIDE DEF rows
  <1>5. DOMAIN rows = DOMAIN NoRows
    BY <1>4 DEF RowsOf, NoRows
  <1>6. /\ rows.pages = {[ref |-> p.ref, slug |-> p.slug] : p \in pages}
        /\ rows.itemPages = UNION {{[item |-> l, ref |-> p.ref] : l \in Range(p.ids)} : p \in pages}
        /\ rows.items = {l \in AddedItems(prepared, modid) \cup last : l.ns \notin BuiltinNamespaces}
    BY <1>1, <1>4 DEF RowsOf
  <1>7. ASSUME NEW p \in pages, NEW l \in Range(p.ids) PROVE l \in rows.items
    <2>1. l # Malformed /\ l.ns = modid
      BY <1>2, <1>7 DEF OwnItems
    <2>2. l \in OnPages(prepared)
      BY <1>1, <1>7 DEF OnPages
    <2>3. l \in AddedItems(prepared, modid)
      BY <2>1, <2>2 DEF AddedItems
    <2> QED BY <1>6, <2>1, <2>3
  <1> QED BY <1>5, <1>6, <1>7 DEF RowsAreOf, rows, pages
-----------------------------------------------------------------------------
(* A translation of a page is a content page: its directory, without that of *)
(* the translations, is in the content section.                              *)
LEMMA TranslationsAreContent ==
  ASSUME NEW slug \in Slugs, NEW locale
  PROVE  LET path == InLocale(schemaVersion, PagePath(schemaVersion, "content", slug), locale)
         IN  IsContentPage(path) /\ path.ext = "mdx"
  <1> DEFINE T == Dir(schemaVersion, "translated")
             C == Dir(schemaVersion, "content")
             page == PagePath(schemaVersion, "content", slug)
             path == InLocale(schemaVersion, page, locale)
             X == Names \cup {T, C, <<locale>>}
             front == Front(slug)
             dir == path.dir
             inside == SubSeq(dir, 3, Len(dir))
  <1>1. front \in Seq(X)
    <2>1. slug \in Seq(Names) /\ Len(slug) \in Nat /\ \A i \in 1 .. Len(slug) - 1 : slug[i] \in Names
      BY DEF Slugs
    <2>2. front \in Seq(Names)
      BY <2>1, SubSeqProperties DEF Front
    <2> HIDE DEF front
    <2> QED BY <2>2
  <1>2. path.dir = <<T>> \o <<<<locale>>>> \o (<<C>> \o front) /\ path.ext = "mdx"
    BY DEF InLocale, PagePath, Path, TranslationsDir, SectionDir
  <1>3. T \in X /\ C \in X /\ <<locale>> \in X
    OBVIOUS
  <1>4. SectionDir(schemaVersion, "content") = <<C>> /\ TranslationsDir(schemaVersion) = <<T>>
    BY DEF TranslationsDir, SectionDir
  <1> HIDE DEF T, C, X, front, path, page
  <1>5. dir \in Seq(X) /\ Len(dir) \in Nat /\ Len(dir) >= 3 /\ dir[1] = T /\ dir[3] = C
    <2> DEFINE place == <<locale>>
    <2>1. place \in X
      BY <1>3
    <2>2. dir = <<T>> \o <<place>> \o (<<C>> \o front)
      BY <1>2
    <2> HIDE DEF place
    <2>3. <<C>> \o front \in Seq(X) /\ Len(<<C>> \o front) >= 1 /\ (<<C>> \o front)[1] = C
      BY <1>1, <1>3
    <2>4. <<T>> \o <<place>> \in Seq(X) /\ Len(<<T>> \o <<place>>) = 2 /\ (<<T>> \o <<place>>)[1] = T
      BY <1>3, <2>1
    <2> QED BY <2>2, <2>3, <2>4
  <1>6. inside \in Seq(X) /\ Len(inside) >= 1 /\ inside[1] = C
    <2>1. \A i \in 3 .. Len(dir) : dir[i] \in X
      BY <1>5
    <2> HIDE DEF dir
    <2>2. /\ inside \in Seq(X)
          /\ Len(inside) = IF 3 <= Len(dir) THEN Len(dir) - 3 + 1 ELSE 0
          /\ \A i \in 1 .. Len(dir) - 3 + 1 : inside[i] = dir[3 + i - 1]
      BY <1>5, <2>1, SubSeqProperties
    <2> HIDE DEF inside
    <2>3. 1 \in 1 .. Len(dir) - 3 + 1 /\ 3 + 1 - 1 = 3
      BY <1>5
    <2>4. inside[1] = dir[3]
      BY <2>2, <2>3
    <2> QED BY <1>5, <2>2, <2>4
  <1>7. IsPrefix(<<T>>, dir) /\ IsPrefix(<<C>>, inside)
    <2> HIDE DEF dir, inside
    <2>1. PICK t, c : t = <<T>> /\ c = <<C>>
      OBVIOUS
    <2>2. t \in Seq(X) /\ c \in Seq(X) /\ Len(t) = 1 /\ Len(c) = 1 /\ t[1] = T /\ c[1] = C
      BY <1>3, <2>1
    <2>3. \A m \in 1 .. 1 : m = 1
      OBVIOUS
    <2>4. IsPrefix(t, dir)
      BY <1>5, <2>2, <2>3, PrefixByPlaces
    <2>5. IsPrefix(c, inside)
      BY <1>6, <2>2, <2>3, PrefixByPlaces
    <2> QED BY <2>1, <2>4, <2>5
  <1>8. inside = SubSeq(path.dir, Len(TranslationsDir(schemaVersion)) + 2, Len(path.dir))
    <2>1. Len(<<T>>) + 2 = 3
      OBVIOUS
    <2> QED BY <1>4, <2>1
  <1> HIDE DEF inside
  <1>9. IsContentPage(path)
    BY <1>4, <1>7, <1>8 DEF IsContentPage
  <1> QED BY <1>2, <1>9 DEF path, page

(* A page that was found in checked files opens in every locale.             *)
LEMMA PagesOpen ==
  ASSUME LocalProjectAssumption, NEW fs, IsFileSystem(fs), InvalidFiles(fs) = {},
         NEW slug \in Pages(fs, schemaVersion, Modid), NEW locale
  PROVE  LET path == ContentPagePath(fs, locale, slug)
         IN  ReadPageError(fs, path) \in {None, "malformed_markdown"} /\ fs[path].ids # <<>>
  <1> DEFINE page == PagePath(schemaVersion, "content", slug)
             path == ContentPagePath(fs, locale, slug)
  <1>1. slug \in Slugs /\ page \in DOMAIN fs /\ PageIssue(fs[page], Modid) = None
    BY SlugsAre DEF Pages
  <1>2. None \notin PageIssues
    BY DEF LocalProjectAssumption
  <1>3. ParseFrontmatter(fs[page]) # None /\ fs[page].ids # <<>>
    <2>1. IsText(fs[page])
      BY <1>1 DEF IsFileSystem
    <2> HIDE DEF page
    <2> QED BY <1>1, <1>2, <2>1, PageIs
  <1>4. path \in DOMAIN fs /\ ParseFrontmatter(fs[path]) # None /\ fs[path].ids # <<>>
    <2>1. CASE locale # None /\ InLocale(schemaVersion, page, locale) \in DOMAIN fs
      <3>1. path = InLocale(schemaVersion, page, locale)
        BY <2>1 DEF ContentPagePath, Localized
      <3>2. IsContentPage(path) /\ path.ext = "mdx"
        BY <1>1, <3>1, TranslationsAreContent
      <3>3. ValidFile(fs, path)
        <4> HIDE DEF path, page
        <4> QED BY <2>1, <3>1 DEF InvalidFiles
      <3> HIDE DEF path, page
      <3> QED BY <2>1, <3>1, <3>2, <3>3 DEF ValidFile
    <2>2. CASE ~(locale # None /\ InLocale(schemaVersion, page, locale) \in DOMAIN fs)
      <3>1. path = page
        BY <2>2 DEF ContentPagePath, Localized
      <3> HIDE DEF path, page
      <3> QED BY <1>1, <1>3, <3>1
    <2> QED BY <2>1, <2>2
  <1> HIDE DEF path
  <1>5. ReadPageError(fs, path) \in {None, "malformed_markdown"}
    BY <1>4 DEF ReadPageError
  <1> QED BY <1>4, <1>5 DEF path
-----------------------------------------------------------------------------
(* The inductive invariant.                                                  *)
CopiesOf == {None} \cup SUBSET DOMAIN Catalog[schemaVersion]
DeploymentsOf == [status : {"loading", "success", "error"}, active : BOOLEAN, copy : CopiesOf]
Copied(d) == deployments[d].copy # None

Types ==
    /\ schemaVersion \in SchemaVersions
    /\ checkout \in SUBSET DOMAIN Catalog[schemaVersion]
    /\ deployments \in Seq(DeploymentsOf)
    /\ job \in Steps \cup {None}
    /\ DOMAIN dbRows = DOMAIN NoRows
    /\ ingested \in {None} \cup 1 .. Latest
    /\ reader # None =>
          /\ DOMAIN reader = {"deployment", "ref", "locale", "slug", "justified"}
          /\ reader.deployment \in 1 .. Latest /\ reader.justified \in BOOLEAN
    /\ \A m \in met : m[1] \in 1 .. Latest
    /\ \A i \in issues \cup reports :
          i.deployment \in 1 .. Latest /\ i.kind \in {"file", "ingestor", "internal", "page"}

(* The statuses follow the job: only the last deployment has one, one        *)
(* deployment is active at most, and who reads reads one that succeeded.     *)
Statuses ==
    /\ job # None => Latest >= 1
    /\ \A d \in 1 .. Latest :
          /\ deployments[d].status = "loading" <=> (d = Latest /\ job \in Steps \ {"remove"})
          /\ deployments[d].active => deployments[d].status = "success"
    /\ \A d, e \in 1 .. Latest : deployments[d].active /\ deployments[e].active => d = e
    /\ reader # None => deployments[reader.deployment].status = "success"
    /\ \A i \in issues \cup reports : i.kind = "page" => deployments[i.deployment].status = "success"

(* Whatever has to be told is told, or there is a task that will tell it.    *)
Told(d) == \E i \in issues \cup reports : i.deployment = d
AllTold ==
    /\ \A d \in 1 .. Latest : deployments[d].status = "error" => Told(d)
    /\ \A m \in met : Told(m[1])

(* The deployment that is active has its copy, as the one that becomes it.   *)
Kept ==
    /\ \A d \in 1 .. Latest : deployments[d].active => Copied(d)
    /\ job \in {"ingest", "activate"} => Copied(Latest)
    /\ job = "remove" => deployments[Latest].active

(* The copies have been checked; what is made of a copy are pages of it.     *)
PagesOf(d) == Pages(CopyOf(d), schemaVersion, Modid)
FoundOf(d) == PagesFound(CopyOf(d), schemaVersion, Modid)
CopiesValid == \A d \in 1 .. Latest : Copied(d) => InvalidFiles(CopyOf(d)) = {}
RowsValid ==
    /\ job = "copy" => ingested # Latest
    /\ ingested # None => (Copied(ingested) => RowsAreOf(dbRows, FoundOf(ingested)))
ReaderValid ==
    reader # None /\ reader.slug # None /\ reader.justified =>
        (Copied(reader.deployment) => reader.slug \in PagesOf(reader.deployment))
ReportsValid ==
    \A i \in issues \cup reports : i.kind = "page" /\ i.justified =>
        (Copied(i.deployment) => ReadPageError(CopyOf(i.deployment), i.file) = "malformed_markdown")

Checked == CopiesValid /\ RowsValid /\ ReaderValid /\ ReportsValid
IInv == Types /\ Statuses /\ AllTold /\ Kept /\ Checked
-----------------------------------------------------------------------------
LEMMA DeploymentsAre ==
  ASSUME Types
  PROVE  /\ Latest \in Nat /\ DOMAIN deployments = 1 .. Latest
         /\ \A d \in 1 .. Latest : deployments[d] \in DeploymentsOf
  BY DEF Types, Latest

LEMMA ContentsAre ==
  ASSUME LocalProjectAssumption, schemaVersion \in SchemaVersions, NEW names \in SUBSET DOMAIN Catalog[schemaVersion]
  PROVE  IsFileSystem(Contents(names))
  <1> DEFINE named == Catalog[schemaVersion]
             at == [f \in names |-> named[f].path]
             paths == {named[f].path : f \in names}
  <1>1. DOMAIN Contents(names) = paths
    BY DEF Contents
  <1>2. IsFiniteSet(DOMAIN named) /\ \A f \in DOMAIN named : named[f].path \in Paths
    BY DEF LocalProjectAssumption
  <1>3. IsFiniteSet(names)
    BY <1>2, FS_Subset
  <1>4. at \in Surjection(names, paths)
    BY DEF Surjection
  <1>5. IsFiniteSet(paths)
    <2> HIDE DEF at, paths
    <2> QED BY <1>3, <1>4, FS_Surjection
  <1>6. paths \subseteq Paths
    BY <1>2
  <1>7. ASSUME NEW p \in paths PROVE IsText(Contents(names)[p])
    <2>1. PICK f \in names : named[f].path = p /\ Contents(names)[p] = named[f].text
      BY <1>7 DEF Contents
    <2> QED BY <2>1 DEF LocalProjectAssumption
  <1> HIDE DEF named, paths
  <1> QED BY <1>1, <1>5, <1>6, <1>7 DEF IsFileSystem

(* What holds of a copy holds as long as there is the copy.                  *)
LEMMA CopyStays ==
  ASSUME schemaVersion' = schemaVersion, NEW d, deployments'[d].copy = deployments[d].copy
  PROVE  /\ CopyOf(d)' = CopyOf(d)
         /\ PagesOf(d)' = PagesOf(d) /\ FoundOf(d)' = FoundOf(d)
         /\ InvalidFiles(CopyOf(d))' = InvalidFiles(CopyOf(d))
         /\ \A file : ReadPageError(CopyOf(d), file)' = ReadPageError(CopyOf(d), file)
  <1>1. CopyOf(d)' = CopyOf(d)
    BY DEF CopyOf, Contents
  <1>2. PagesOf(d)' = PagesOf(d) /\ FoundOf(d)' = FoundOf(d)
    BY <1>1 DEF PagesOf, FoundOf
  <1>3. \A file : ValidFile(CopyOf(d), file)' = ValidFile(CopyOf(d), file)
    BY <1>1 DEF ValidFile, IsContentPage
  <1>4. InvalidFiles(CopyOf(d))' = InvalidFiles(CopyOf(d))
    BY <1>1, <1>3 DEF InvalidFiles
  <1>5. \A file : ReadPageError(CopyOf(d), file)' = ReadPageError(CopyOf(d), file)
    BY <1>1 DEF ReadPageError
  <1> QED BY <1>1, <1>2, <1>4, <1>5

KeepsOrLoses(d) == deployments'[d].copy \in {deployments[d].copy, None}

LEMMA CopiesStayValid ==
  ASSUME CopiesValid, schemaVersion' = schemaVersion,
         \A d \in 1 .. Latest' : Copied(d)' => d \in 1 .. Latest /\ KeepsOrLoses(d)
  PROVE  CopiesValid'
  <1> SUFFICES ASSUME NEW d \in 1 .. Latest', Copied(d)' PROVE (InvalidFiles(CopyOf(d)) = {})'
    BY DEF CopiesValid
  <1>1. d \in 1 .. Latest /\ deployments'[d].copy = deployments[d].copy /\ Copied(d)
    BY DEF Copied, KeepsOrLoses
  <1> QED BY <1>1, CopyStays DEF CopiesValid

LEMMA RowsStayValid ==
  ASSUME RowsValid, schemaVersion' = schemaVersion, ingested' = ingested, dbRows' = dbRows,
         job' = "copy" => ingested # Latest', ingested # None => KeepsOrLoses(ingested)
  PROVE  RowsValid'
  <1> SUFFICES ASSUME ingested # None, Copied(ingested)' PROVE RowsAreOf(dbRows, FoundOf(ingested))'
    BY DEF RowsValid
  <1>1. PICK d : d = ingested
    OBVIOUS
  <1>2. deployments'[d].copy = deployments[d].copy /\ Copied(d)
    BY <1>1 DEF Copied, KeepsOrLoses
  <1>3. FoundOf(d)' = FoundOf(d)
    BY <1>2, CopyStays
  <1>4. FoundOf(ingested)' = FoundOf(d)'
    BY <1>1 DEF FoundOf, CopyOf
  <1>5. RowsAreOf(dbRows, FoundOf(ingested))
    BY <1>1, <1>2 DEF RowsValid
  <1> QED BY <1>1, <1>3, <1>4, <1>5 DEF RowsAreOf

LEMMA ReaderStaysValid ==
  ASSUME ReaderValid, schemaVersion' = schemaVersion, reader' # None => reader' = reader /\ KeepsOrLoses(reader.deployment)
  PROVE  ReaderValid'
  <1> SUFFICES ASSUME reader' # None, reader.slug # None, reader.justified, reader' = reader, Copied(reader.deployment)'
               PROVE (reader.slug \in PagesOf(reader.deployment))'
    BY DEF ReaderValid
  <1>1. PICK d : d = reader.deployment
    OBVIOUS
  <1>2. deployments'[d].copy = deployments[d].copy /\ Copied(d)
    BY <1>1 DEF Copied, KeepsOrLoses
  <1>3. PagesOf(d)' = PagesOf(d)
    BY <1>2, CopyStays
  <1>4. PagesOf(reader.deployment)' = PagesOf(d)'
    BY <1>1 DEF PagesOf, CopyOf
  <1> QED BY <1>1, <1>2, <1>3, <1>4 DEF ReaderValid

LEMMA ReportsStayValid ==
  ASSUME ReportsValid, schemaVersion' = schemaVersion,
         \A i \in issues' \cup reports' : i.kind = "page" => i \in issues \cup reports /\ KeepsOrLoses(i.deployment)
  PROVE  ReportsValid'
  <1> SUFFICES ASSUME NEW i \in issues' \cup reports', i.kind = "page", i.justified, Copied(i.deployment)'
               PROVE (ReadPageError(CopyOf(i.deployment), i.file) = "malformed_markdown")'
    BY DEF ReportsValid
  <1>1. i \in issues \cup reports /\ KeepsOrLoses(i.deployment)
    OBVIOUS
  <1>2. deployments'[i.deployment].copy = deployments[i.deployment].copy /\ Copied(i.deployment)
    BY <1>1 DEF Copied, KeepsOrLoses
  <1>3. ReadPageError(CopyOf(i.deployment), i.file)' = ReadPageError(CopyOf(i.deployment), i.file)
    BY <1>2, CopyStays
  <1> QED BY <1>1, <1>2, <1>3 DEF ReportsValid
-----------------------------------------------------------------------------
LEMMA Initial == ASSUME LocalProjectAssumption, Init PROVE IInv
  <1> USE DEF Init
  <1>1. Latest = 0 /\ 1 .. Latest = {}
    BY DEF Latest
  <1>2. Types
    <2>1. checkout \in SUBSET DOMAIN Catalog[schemaVersion]
      BY DEF LocalProjectAssumption
    <2> QED BY <1>1, <2>1 DEF Types
  <1>3. Statuses
    BY <1>1 DEF Statuses
  <1>4. AllTold
    BY <1>1 DEF AllTold
  <1>5. Checked
    <2>1. job # "copy"
      BY DEF LocalProjectAssumption, Steps
    <2> QED BY <1>1, <2>1 DEF Checked, CopiesValid, RowsValid, ReaderValid, ReportsValid
  <1>6. Kept
    <2>1. job \notin {"ingest", "activate", "remove"}
      BY DEF LocalProjectAssumption, Steps
    <2> QED BY <1>1, <2>1 DEF Kept
  <1> QED BY <1>2, <1>3, <1>4, <1>5, <1>6 DEF IInv

(* The author's changes.                                                     *)
LEMMA ChangeStep ==
  ASSUME IInv, NEW new \in SUBSET DOMAIN Catalog[schemaVersion], Change(new) PROVE IInv'
  <1> USE DEF Change
  <1>1. Types'
    BY DEF IInv, Types, Latest, DeploymentsOf, CopiesOf
  <1>2. Statuses'
    BY DEF IInv, Statuses, Latest
  <1>3. AllTold'
    BY DEF IInv, AllTold, Told, Latest
  <1>4. Checked'
    <2>1. \A d : KeepsOrLoses(d)
      BY DEF KeepsOrLoses
    <2>2. Latest' = Latest
      BY DEF Latest
    <2>3. CopiesValid'
      BY <2>1, <2>2, CopiesStayValid DEF IInv, Checked
    <2>4. RowsValid'
      BY <2>1, <2>2, RowsStayValid DEF IInv, Checked, RowsValid
    <2>5. ReaderValid'
      BY <2>1, ReaderStaysValid DEF IInv, Checked
    <2>6. ReportsValid'
      BY <2>1, ReportsStayValid DEF IInv, Checked
    <2> QED BY <2>3, <2>4, <2>5, <2>6 DEF Checked
  <1>5. Kept'
    BY DEF IInv, Kept, Copied, Latest
  <1> QED BY <1>1, <1>2, <1>3, <1>4, <1>5 DEF IInv

LEMMA StartStep == ASSUME LocalProjectAssumption, IInv, StartDeployment PROVE IInv'
  <1> USE DEF StartDeployment
  <1> DEFINE new == [status |-> "loading", active |-> FALSE, copy |-> None]
             n == Latest
  <1>1. new \in DeploymentsOf
    BY DEF DeploymentsOf, CopiesOf
  <1>2. n \in Nat /\ Latest' = n + 1 /\ deployments' \in Seq(DeploymentsOf)
        /\ deployments'[n + 1] = new /\ \A d \in 1 .. n : deployments'[d] = deployments[d]
    <2>1. deployments \in Seq(DeploymentsOf) /\ deployments' = Append(deployments, new)
      BY DEF IInv, Types
    <2> HIDE DEF new
    <2> QED BY <1>1, <2>1 DEF Latest
  <1>9. deployments'[n + 1].status = "loading" /\ ~deployments'[n + 1].active /\ deployments'[n + 1].copy = None
    <2> HIDE DEF StartDeployment, n
    <2> QED BY <1>2
  <1> HIDE DEF n, new
  <1>3. 1 .. Latest' = 1 .. n \cup {n + 1} /\ n + 1 \notin 1 .. n /\ 1 .. n \subseteq 1 .. Latest'
    BY <1>2
  <1>4. Types'
    <2>1. (deployments \in Seq(DeploymentsOf))' /\ "copy" \in Steps
      BY <1>2 DEF DeploymentsOf, CopiesOf, Steps
    <2>2. (ingested \in {None} \cup 1 .. Latest)'
      BY <1>3 DEF IInv, Types, n
    <2> QED BY <1>3, <2>1, <2>2 DEF IInv, Types, n
  <1>5. Statuses'
    <2>1. (job # None => Latest >= 1)'
      BY <1>2
    <2>2. ASSUME NEW d \in 1 .. Latest'
          PROVE  /\ deployments'[d].status = "loading" <=> (d = Latest' /\ job' \in Steps \ {"remove"})
                 /\ deployments'[d].active => d \in 1 .. n /\ deployments'[d].status = "success"
      <3>1. CASE d = n + 1
        BY <1>2, <1>9, <3>1 DEF Steps
      <3>2. CASE d \in 1 .. n
        <4>1. d # Latest' /\ deployments'[d] = deployments[d] /\ job \notin Steps
          BY <1>2, <1>3, <3>2 DEF LocalProjectAssumption
        <4> QED BY <3>2, <4>1 DEF IInv, Statuses, n
      <3> QED BY <1>3, <3>1, <3>2
    <2>3. ASSUME NEW d \in 1 .. Latest', NEW e \in 1 .. Latest', deployments'[d].active, deployments'[e].active PROVE d = e
      <3>1. d \in 1 .. n /\ e \in 1 .. n
        BY <2>2, <2>3
      <3> QED BY <1>2, <2>3, <3>1 DEF IInv, Statuses, n
    <2>4. reader' # None => deployments'[reader'.deployment].status = "success"
      BY <1>2 DEF IInv, Statuses, Types, n
    <2>5. \A i \in issues' \cup reports' : i.kind = "page" => deployments'[i.deployment].status = "success"
      BY <1>2 DEF IInv, Statuses, Types, n
    <2> QED BY <2>1, <2>2, <2>3, <2>4, <2>5 DEF Statuses
  <1>6. AllTold'
    <2>1. \A d : Told(d)' <=> Told(d)
      BY DEF Told
    <2>2. ASSUME NEW d \in 1 .. Latest', deployments'[d].status = "error" PROVE Told(d)
      <3>1. d # n + 1
        BY <1>9, <2>2
      <3>2. d \in 1 .. n /\ deployments'[d] = deployments[d]
        BY <1>2, <1>3, <3>1
      <3> QED BY <2>2, <3>2 DEF IInv, AllTold, n
    <2>3. \A m \in met' : Told(m[1])'
      BY <2>1 DEF IInv, AllTold
    <2> QED BY <2>1, <2>2, <2>3 DEF AllTold
  <1>7. Checked'
    <2>1. \A d \in 1 .. n : KeepsOrLoses(d)
      BY <1>2 DEF KeepsOrLoses
    <2>2. CopiesValid'
      <3>1. \A d \in 1 .. Latest' : Copied(d)' => d \in 1 .. n /\ KeepsOrLoses(d)
        BY <1>9, <1>3, <2>1 DEF Copied
      <3> QED BY <3>1, CopiesStayValid DEF IInv, Checked, n
    <2>3. RowsValid'
      <3>1. ingested # Latest'
        BY <1>2, <1>3 DEF IInv, Types, n, LocalProjectAssumption
      <3>2. ingested # None => KeepsOrLoses(ingested)
        BY <2>1 DEF IInv, Types, n
      <3> QED BY <3>1, <3>2, RowsStayValid DEF IInv, Checked
    <2>4. ReaderValid'
      <3>1. reader # None => KeepsOrLoses(reader.deployment)
        BY <2>1 DEF IInv, Types, n
      <3> QED BY <3>1, ReaderStaysValid DEF IInv, Checked
    <2>5. ReportsValid'
      <3>1. \A i \in issues \cup reports : KeepsOrLoses(i.deployment)
        BY <2>1 DEF IInv, Types, n
      <3> QED BY <3>1, ReportsStayValid DEF IInv, Checked
    <2> QED BY <2>2, <2>3, <2>4, <2>5 DEF Checked
  <1>8. Kept'
    <2>1. job' = "copy"
      OBVIOUS
    <2>2. ASSUME NEW d \in 1 .. Latest', deployments'[d].active PROVE Copied(d)'
      <3>1. d # n + 1
        BY <1>9, <2>2
      <3>2. d \in 1 .. n /\ deployments'[d] = deployments[d]
        BY <1>2, <1>3, <3>1
      <3> QED BY <2>2, <3>2 DEF IInv, Kept, Copied, n
    <2> QED BY <2>1, <2>2 DEF Kept
  <1> QED BY <1>4, <1>5, <1>6, <1>7, <1>8 DEF IInv
-----------------------------------------------------------------------------
LEMMA FunctionIsSeq == ASSUME NEW X, NEW n \in Nat, NEW f \in [1 .. n -> X] PROVE f \in Seq(X) /\ Len(f) = n
  OBVIOUS

LEMMA CopyStep == ASSUME LocalProjectAssumption, IInv, CopyFiles PROVE IInv'
  <1>1. PICK n : n = Latest
    OBVIOUS
  <1> DEFINE fs == Contents(checkout)
             invalid == InvalidFiles(fs)
             said == {Report(n, "file", p, TRUE) : p \in invalid}
  <1>2. /\ job = "copy" /\ n \in 1 .. n /\ n \in Nat /\ deployments[n].status = "loading"
        /\ UNCHANGED <<schemaVersion, checkout, dbRows, ingested, dbKnown, reader, issues, met, changes, reads>>
    <2>1. job = "copy" /\ job # None /\ job \in Steps \ {"remove"}
      BY DEF CopyFiles, LocalProjectAssumption, Steps
    <2>2. n \in Nat /\ n >= 1
      BY <1>1, <2>1, DeploymentsAre DEF IInv, Statuses
    <2> QED BY <1>1, <2>1, <2>2 DEF CopyFiles, IInv, Statuses
  <1>3. \/ /\ invalid = {} /\ job' = "ingest" /\ reports' = reports
           /\ deployments' = [deployments EXCEPT ![n].copy = checkout]
        \/ /\ invalid # {} /\ job' = "fail" /\ reports' = reports \cup said /\ deployments' = deployments
    BY <1>1 DEF CopyFiles
  <1>4. checkout \in SUBSET DOMAIN Catalog[schemaVersion] /\ DOMAIN deployments = 1 .. n
        /\ \A d \in 1 .. n : deployments[d] \in DeploymentsOf
    BY <1>1, DeploymentsAre DEF IInv, Types
  <1>5. /\ DOMAIN deployments' = 1 .. n /\ deployments' \in Seq(DeploymentsOf) /\ Latest' = n
        /\ \A d \in 1 .. n : /\ deployments'[d] \in DeploymentsOf
                             /\ deployments'[d].status = deployments[d].status
                             /\ deployments'[d].active = deployments[d].active
                             /\ d # n => deployments'[d].copy = deployments[d].copy
                             /\ d = n /\ Copied(d)' /\ invalid = {} => CopyOf(d)' = fs
                             /\ d = n /\ invalid = {} => deployments'[d].copy = checkout
    <2> HIDE DEF fs, invalid, said
    <2>1. CASE deployments' = deployments /\ invalid # {}
      <3>1. deployments \in Seq(DeploymentsOf)
        BY DEF IInv, Types
      <3> QED BY <1>1, <1>4, <2>1, <3>1 DEF Latest
    <2>2. CASE deployments' = [deployments EXCEPT ![n].copy = checkout]
      <3>1. deployments[n] \in DeploymentsOf /\ checkout \in CopiesOf
        BY <1>2, <1>4 DEF CopiesOf
      <3>2. [deployments[n] EXCEPT !.copy = checkout] \in DeploymentsOf
        BY <3>1 DEF DeploymentsOf
      <3>3. /\ deployments' = [d \in 1 .. n |-> IF d = n THEN [deployments[n] EXCEPT !.copy = checkout] ELSE deployments[d]]
        BY <1>4, <2>2
      <3>4. deployments' \in Seq(DeploymentsOf) /\ Latest' = n
        <4>1. deployments' \in [1 .. n -> DeploymentsOf]
          BY <1>2, <1>4, <3>2, <3>3
        <4> QED BY <1>2, <4>1, FunctionIsSeq DEF Latest
      <3>5. deployments'[n] = [deployments[n] EXCEPT !.copy = checkout] /\ deployments'[n].copy = checkout
            /\ deployments'[n].status = deployments[n].status /\ deployments'[n].active = deployments[n].active
        BY <1>2, <3>1, <3>3 DEF DeploymentsOf
      <3>6. (Copied(n)' => CopyOf(n)' = fs)
        <4>1. Contents(checkout)' = fs
          BY <1>2 DEF Contents, fs
        <4>2. ASSUME deployments'[n].copy # None PROVE CopyOf(n)' = Contents(checkout)'
          BY <1>2, <3>5, <4>2 DEF CopyOf
        <4> QED BY <4>1, <4>2 DEF Copied
      <3>7. \A d \in 1 .. n : d # n => deployments'[d] = deployments[d]
        BY <3>3
      <3>8. schemaVersion' = schemaVersion /\ DOMAIN deployments' = 1 .. n
        BY <1>2, <3>3
      <3>9. \A d \in 1 .. n : deployments'[d] \in DeploymentsOf
        BY <1>4, <3>2, <3>3
      <3> QED BY <3>4, <3>5, <3>6, <3>7, <3>8, <3>9
    <2> QED BY <1>3, <2>1, <2>2
  <1>6. \A i \in issues' \cup reports' :
           i \in issues \cup reports \/ (i.deployment = n /\ i.kind = "file" /\ i.justified = TRUE)
    BY <1>2, <1>3 DEF Report
  <1>7. issues \cup reports \subseteq issues' \cup reports' /\ "ingest" \in Steps /\ "fail" \in Steps
    BY <1>2, <1>3 DEF Steps
  <1>8. job' \in {"ingest", "fail"}
    BY <1>3
  <1> HIDE DEF fs, invalid, said
  <1>9. Types'
    <2>1. (DOMAIN dbRows = DOMAIN NoRows)'
      BY <1>2 DEF IInv, Types, NoRows
    <2>2. \A i \in issues' \cup reports' : i.deployment \in 1 .. Latest' /\ i.kind \in {"file", "ingestor", "internal", "page"}
      BY <1>1, <1>2, <1>5, <1>6 DEF IInv, Types
    <2>3. (deployments \in Seq(DeploymentsOf))'
      BY <1>2, <1>5 DEF DeploymentsOf, CopiesOf
    <2> QED BY <1>1, <1>2, <1>5, <1>7, <1>8, <2>1, <2>2, <2>3 DEF IInv, Types
  <1>10. Statuses'
    <2>1. job' # None /\ Latest' >= 1 /\ job' \in Steps \ {"remove"}
      BY <1>2, <1>5, <1>7, <1>8 DEF LocalProjectAssumption
    <2>2. job \in Steps \ {"remove"}
      BY <1>2 DEF Steps
    <2>3. \A i \in issues' \cup reports' : i.kind = "page" => i \in issues \cup reports
      BY <1>6
    <2>4. \A i \in issues' \cup reports' : i.kind = "page" => deployments'[i.deployment].status = "success"
      BY <1>1, <1>5, <2>3 DEF IInv, Statuses, Types
    <2>5. reader' # None => deployments'[reader'.deployment].status = "success"
      BY <1>1, <1>2, <1>5 DEF IInv, Statuses, Types
    <2>6. \A d \in 1 .. Latest' :
          /\ deployments'[d].status = "loading" <=> (d = Latest' /\ job' \in Steps \ {"remove"})
          /\ deployments'[d].active => deployments'[d].status = "success"
      BY <1>1, <1>5, <2>1, <2>2 DEF IInv, Statuses
    <2>7. \A d, e \in 1 .. Latest' : deployments'[d].active /\ deployments'[e].active => d = e
      BY <1>1, <1>5 DEF IInv, Statuses
    <2> QED BY <2>1, <2>4, <2>5, <2>6, <2>7 DEF Statuses
  <1>11. AllTold'
    <2>1. \A d : Told(d) => Told(d)'
      BY <1>7 DEF Told
    <2>2. \A d \in 1 .. Latest' : deployments'[d].status = "error" => Told(d)'
      BY <1>1, <1>5, <2>1 DEF IInv, AllTold
    <2>3. \A m \in met' : Told(m[1])'
      BY <1>2, <2>1 DEF IInv, AllTold
    <2> QED BY <2>2, <2>3 DEF AllTold
  <1>12. Checked'
    <2>1. \A d \in 1 .. n : deployments[d].status = "success" => KeepsOrLoses(d)
      BY <1>2, <1>5 DEF KeepsOrLoses
    <2>2. CopiesValid'
      <3>1. CASE invalid # {}
        <4>1. \A d \in 1 .. Latest' : Copied(d)' => d \in 1 .. Latest /\ KeepsOrLoses(d)
          BY <1>1, <1>3, <1>5, <3>1 DEF KeepsOrLoses
        <4> QED BY <1>2, <4>1, CopiesStayValid DEF IInv, Checked
      <3>2. CASE invalid = {}
        <4> SUFFICES ASSUME NEW d \in 1 .. n, Copied(d)' PROVE (InvalidFiles(CopyOf(d)) = {})'
          BY <1>5 DEF CopiesValid
        <4>1. CASE d = n
          <5>1. CopyOf(d)' = fs
            BY <1>5, <3>2, <4>1
          <5>2. \A file : ValidFile(CopyOf(d), file)' = ValidFile(fs, file)
            BY <1>2, <5>1 DEF ValidFile, IsContentPage
          <5>3. InvalidFiles(CopyOf(d))' = InvalidFiles(fs)
            BY <5>1, <5>2 DEF InvalidFiles
          <5> QED BY <3>2, <5>3 DEF invalid
        <4>2. CASE d # n
          <5>1. deployments'[d].copy = deployments[d].copy /\ Copied(d)
            BY <1>5, <4>2 DEF Copied
          <5> QED BY <1>1, <1>2, <5>1, CopyStays DEF IInv, Checked, CopiesValid
        <4> QED BY <4>1, <4>2
      <3> QED BY <3>1, <3>2
    <2>3. RowsValid'
      <3>1. ingested # None => KeepsOrLoses(ingested)
        <4>1. ingested # n
          BY <1>1, <1>2 DEF IInv, Checked, RowsValid
        <4>2. ingested # None => ingested \in 1 .. n
          BY <1>1 DEF IInv, Types
        <4> QED BY <1>5, <4>1, <4>2 DEF KeepsOrLoses
      <3>2. job' # "copy"
        BY <1>8
      <3> QED BY <1>2, <3>1, <3>2, RowsStayValid DEF IInv, Checked
    <2>4. ReaderValid'
      <3>1. reader # None => KeepsOrLoses(reader.deployment)
        BY <1>1, <2>1 DEF IInv, Types, Statuses
      <3> QED BY <1>2, <3>1, ReaderStaysValid DEF IInv, Checked
    <2>5. ReportsValid'
      <3>1. \A i \in issues' \cup reports' : i.kind = "page" => i \in issues \cup reports
        BY <1>6
      <3>2. \A i \in issues \cup reports : i.kind = "page" => KeepsOrLoses(i.deployment)
        BY <1>1, <2>1 DEF IInv, Types, Statuses
      <3> QED BY <1>2, <3>1, <3>2, ReportsStayValid DEF IInv, Checked
    <2> QED BY <2>2, <2>3, <2>4, <2>5 DEF Checked
  <1>13. Kept'
    <2>1. ASSUME NEW d \in 1 .. n, deployments'[d].active PROVE Copied(d)'
      <3>1. deployments[d].active /\ d # n
        BY <1>1, <1>2, <1>5, <2>1 DEF IInv, Statuses
      <3>2. Copied(d)
        BY <1>1, <3>1 DEF IInv, Kept
      <3> QED BY <1>5, <3>1, <3>2 DEF Copied
    <2>2. ASSUME job' = "ingest" PROVE Copied(n)'
      <3>1. deployments'[n].copy = checkout
        BY <1>2, <1>3, <1>5, <2>2 DEF invalid, fs
      <3>2. checkout # None
        BY DEF LocalProjectAssumption, IInv, Types
      <3> QED BY <3>1, <3>2 DEF Copied
    <2>3. job' \notin {"activate", "remove"}
      BY <1>8
    <2> QED BY <1>5, <2>1, <2>2, <2>3 DEF Kept, Copied
  <1> QED BY <1>9, <1>10, <1>11, <1>12, <1>13 DEF IInv
-----------------------------------------------------------------------------
LEMMA CopyIsFileSystem ==
  ASSUME LocalProjectAssumption, Types, NEW d \in 1 .. Latest PROVE IsFileSystem(CopyOf(d))
  <1>1. CASE deployments[d].copy = None
    <2>1. CopyOf(d) = <<>>
      BY <1>1 DEF CopyOf
    <2>2. DOMAIN <<>> = {} /\ IsFiniteSet({})
      BY FS_EmptySet
    <2> QED BY <2>1, <2>2 DEF IsFileSystem
  <1>2. CASE deployments[d].copy # None
    <2>1. deployments[d].copy \in CopiesOf
      BY DeploymentsAre DEF DeploymentsOf
    <2>2. deployments[d].copy \in SUBSET DOMAIN Catalog[schemaVersion] /\ schemaVersion \in SchemaVersions
      BY <1>2, <2>1 DEF CopiesOf, Types
    <2> QED BY <1>2, <2>2, ContentsAre DEF CopyOf
  <1> QED BY <1>1, <1>2

(* What has a row is a page of the copy.                                     *)
LEMMA RowsArePages ==
  ASSUME LocalProjectAssumption, Types, NEW d \in 1 .. Latest, RowsAreOf(dbRows, FoundOf(d)), NEW row \in dbRows.pages
  PROVE  row.ref \in Names /\ row.slug \in PagesOf(d)
  <1>1. FoundOf(d) \subseteq Listed(CopyOf(d), schemaVersion, Modid)
    <2>1. PICK fs : fs = CopyOf(d) /\ IsFileSystem(fs)
      BY CopyIsFileSystem
    <2>2. PagesFound(fs, schemaVersion, Modid) \subseteq Listed(fs, schemaVersion, Modid)
      BY <2>1, PagesFoundAre DEF LocalProjectAssumption
    <2> QED BY <2>1, <2>2 DEF FoundOf
  <1>2. PICK p \in FoundOf(d) : row = [ref |-> p.ref, slug |-> p.slug]
    BY DEF RowsAreOf
  <1>3. p.ref \in Names /\ p.slug \in PagesOf(d)
    BY <1>1 DEF Listed, PagesOf
  <1> QED BY <1>2, <1>3

LEMMA CommitStep == ASSUME LocalProjectAssumption, IInv, CommitVersion PROVE IInv'
  <1>1. PICK n : n = Latest
    OBVIOUS
  <1> DEFINE result == Ingest(CopyOf(Latest), schemaVersion, Modid, WithOthers(NoRows), Modid, dbKnown)
             said == {Report(Latest, "ingestor", p, TRUE) : p \in result.bad}
  <1>2. /\ job = "ingest" /\ reports' = reports \cup said
        /\ UNCHANGED <<schemaVersion, checkout, deployments, reader, issues, met, changes, reads>>
        /\ \/ dbRows' = result.rows /\ ingested' = n /\ job' = "activate"
           \/ dbRows' = dbRows /\ ingested' = ingested /\ job' = "fail"
    BY <1>1 DEF CommitVersion
  <1>3. n \in 1 .. n /\ n \in Nat /\ job \in Steps \ {"remove", "copy"}
    <2>1. job # None /\ job \in Steps \ {"remove", "copy"}
      BY <1>2 DEF LocalProjectAssumption, Steps
    <2>2. n \in Nat /\ n >= 1
      BY <1>1, <2>1, DeploymentsAre DEF IInv, Statuses
    <2> QED BY <2>1, <2>2
  <1>4. DOMAIN result.rows = DOMAIN NoRows /\ RowsAreOf(result.rows, FoundOf(n))
    <2>1. PICK fs, schema, db, known : fs = CopyOf(Latest) /\ schema = schemaVersion /\ db = WithOthers(NoRows) /\ known = dbKnown
      OBVIOUS
    <2>2. IsFileSystem(fs)
      BY <1>1, <1>3, <2>1, CopyIsFileSystem DEF IInv
    <2>3. LET rows == Ingest(fs, schema, Modid, db, Modid, known).rows
          IN  DOMAIN rows = DOMAIN NoRows /\ RowsAreOf(rows, PagesFound(fs, schema, Modid))
      BY <2>2, IngestedRows DEF LocalProjectAssumption
    <2>4. PagesFound(fs, schema, Modid) = FoundOf(n)
      BY <1>1, <2>1 DEF FoundOf
    <2> QED BY <2>1, <2>3, <2>4
  <1>5. \A i \in said : i.deployment = n /\ i.kind = "ingestor" /\ i.justified = TRUE
    BY <1>1 DEF Report
  <1>6. Latest' = n /\ \A d : KeepsOrLoses(d)
    BY <1>1, <1>2 DEF Latest, KeepsOrLoses
  <1>7. job' \in {"activate", "fail"}
    BY <1>2
  <1> HIDE DEF said, result
  <1>8. Types'
    <2>1. (DOMAIN dbRows = DOMAIN NoRows)'
      BY <1>2, <1>4 DEF IInv, Types, NoRows
    <2>2. \A i \in issues' \cup reports' : i.deployment \in 1 .. Latest' /\ i.kind \in {"file", "ingestor", "internal", "page"}
      BY <1>1, <1>2, <1>3, <1>5, <1>6 DEF IInv, Types
    <2>3. (deployments \in Seq(DeploymentsOf))'
      BY <1>2 DEF IInv, Types, DeploymentsOf, CopiesOf
    <2>4. (ingested \in {None} \cup 1 .. Latest)'
      BY <1>1, <1>2, <1>3, <1>6 DEF IInv, Types
    <2>5. (job \in Steps \cup {None})'
      BY <1>7 DEF Steps
    <2> QED BY <1>1, <1>2, <1>6, <2>1, <2>2, <2>3, <2>4, <2>5 DEF IInv, Types
  <1>9. Statuses'
    <2>1. Latest' >= 1 /\ job' \in Steps \ {"remove"}
      BY <1>3, <1>6, <1>7 DEF Steps
    <2>2. \A i \in issues' \cup reports' : i.kind = "page" => i \in issues \cup reports
      BY <1>2, <1>5
    <2> QED BY <1>1, <1>2, <1>3, <1>6, <2>1, <2>2 DEF IInv, Statuses
  <1>10. AllTold'
    <2>1. \A d : Told(d) => Told(d)'
      BY <1>2 DEF Told
    <2> QED BY <1>1, <1>2, <1>6, <2>1 DEF IInv, AllTold
  <1>11. Checked'
    <2>1. CopiesValid'
      BY <1>1, <1>2, <1>6, CopiesStayValid DEF IInv, Checked
    <2>2. RowsValid'
      <3>1. CASE dbRows' = dbRows /\ ingested' = ingested
        BY <1>2, <1>6, <1>7, <3>1, RowsStayValid DEF IInv, Checked
      <3>2. CASE dbRows' = result.rows /\ ingested' = n
        <4>1. FoundOf(n)' = FoundOf(n)
          BY <1>2, CopyStays
        <4>2. FoundOf(ingested)' = FoundOf(n)'
          BY <3>2 DEF FoundOf, CopyOf
        <4>3. RowsAreOf(dbRows, FoundOf(ingested))'
          BY <1>4, <3>2, <4>1, <4>2 DEF RowsAreOf
        <4>4. job' # "copy"
          BY <1>7
        <4> QED BY <4>3, <4>4 DEF RowsValid
      <3> QED BY <1>2, <3>1, <3>2
    <2>3. ReaderValid'
      BY <1>2, <1>6, ReaderStaysValid DEF IInv, Checked
    <2>4. ReportsValid'
      <3>1. \A i \in issues' \cup reports' : i.kind = "page" => i \in issues \cup reports
        BY <1>2, <1>5
      <3> QED BY <1>2, <1>6, <3>1, ReportsStayValid DEF IInv, Checked
    <2> QED BY <2>1, <2>2, <2>3, <2>4 DEF Checked
  <1>12. Kept'
    <2>1. Copied(n)
      BY <1>1, <1>2 DEF IInv, Kept
    <2> QED BY <1>1, <1>2, <1>6, <1>7, <2>1 DEF IInv, Kept, Copied
  <1> QED BY <1>8, <1>9, <1>10, <1>11, <1>12 DEF IInv
-----------------------------------------------------------------------------
LEMMA ActivateStep == ASSUME LocalProjectAssumption, IInv, Activate PROVE IInv'
  <1>1. PICK n : n = Latest
    OBVIOUS
  <1>2. /\ job = "activate" /\ job' = "remove" /\ deployments' = ActivateLast(deployments)
        /\ UNCHANGED <<schemaVersion, checkout, dbRows, ingested, dbKnown, reader, reports, issues, met, changes, reads>>
    BY DEF Activate
  <1>3. n \in 1 .. n /\ n \in Nat /\ job \in Steps \ {"remove"} /\ job' \in Steps /\ job' # "copy"
    <2>1. job # None /\ job \in Steps \ {"remove"} /\ job' \in Steps
      BY <1>2 DEF LocalProjectAssumption, Steps
    <2>2. n \in Nat /\ n >= 1
      BY <1>1, <2>1, DeploymentsAre DEF IInv, Statuses
    <2> QED BY <1>2, <2>1, <2>2
  <1>4. DOMAIN deployments = 1 .. n /\ \A d \in 1 .. n : deployments[d] \in DeploymentsOf
    BY <1>1, DeploymentsAre DEF IInv
  <1>5. n = Len(deployments)
    BY <1>1 DEF Latest
  <1>6. deployments' = [d \in 1 .. n |-> [deployments[d] EXCEPT !.active = (d = n),
                                                              !.status = IF d = n THEN "success" ELSE deployments[d].status]]
    BY <1>2, <1>4, <1>5 DEF ActivateLast
  <1>7. \A d \in 1 .. n : /\ deployments'[d] \in DeploymentsOf
                          /\ deployments'[d].active <=> d = n
                          /\ deployments'[d].status = IF d = n THEN "success" ELSE deployments[d].status
                          /\ deployments'[d].copy = deployments[d].copy
    BY <1>4, <1>6 DEF DeploymentsOf
  <1>8. deployments' \in Seq(DeploymentsOf) /\ Latest' = n
    <2>1. deployments' \in [1 .. n -> DeploymentsOf]
      BY <1>6, <1>7
    <2> QED BY <1>3, <2>1, FunctionIsSeq DEF Latest
  <1>9. Types'
    <2>1. (DOMAIN dbRows = DOMAIN NoRows)'
      BY <1>2 DEF IInv, Types, NoRows
    <2>2. (deployments \in Seq(DeploymentsOf))'
      BY <1>2, <1>8 DEF DeploymentsOf, CopiesOf
    <2> QED BY <1>1, <1>2, <1>3, <1>8, <2>1, <2>2 DEF IInv, Types
  <1>10. Statuses'
    <2>1. Latest' >= 1 /\ ~(job' \in Steps \ {"remove"})
      BY <1>2, <1>3, <1>8
    <2>2. \A d \in 1 .. n : /\ deployments'[d].status # "loading"
                            /\ deployments[d].status = "success" => deployments'[d].status = "success"
                            /\ deployments'[d].active => d = n /\ deployments'[d].status = "success"
      BY <1>1, <1>3, <1>7 DEF IInv, Statuses
    <2>3. reader' # None => deployments'[reader'.deployment].status = "success"
      BY <1>1, <1>2, <2>2 DEF IInv, Statuses, Types
    <2>4. \A i \in issues' \cup reports' : i.kind = "page" => deployments'[i.deployment].status = "success"
      BY <1>1, <1>2, <2>2 DEF IInv, Statuses, Types
    <2> QED BY <1>8, <2>1, <2>2, <2>3, <2>4 DEF Statuses
  <1>11. AllTold'
    <2>1. \A d : Told(d)' <=> Told(d)
      BY <1>2 DEF Told
    <2>2. \A d \in 1 .. Latest' : deployments'[d].status = "error" => Told(d)'
      BY <1>1, <1>7, <1>8, <2>1 DEF IInv, AllTold
    <2>3. \A m \in met' : Told(m[1])'
      BY <1>2, <2>1 DEF IInv, AllTold
    <2> QED BY <2>2, <2>3 DEF AllTold
  <1>12. Checked'
    <2>1. \A d \in 1 .. n : KeepsOrLoses(d)
      BY <1>7 DEF KeepsOrLoses
    <2>2. CopiesValid'
      BY <1>1, <1>2, <1>8, <2>1, CopiesStayValid DEF IInv, Checked
    <2>3. RowsValid'
      <3>1. ingested # None => KeepsOrLoses(ingested)
        BY <1>1, <2>1 DEF IInv, Types
      <3> QED BY <1>2, <1>3, <3>1, RowsStayValid DEF IInv, Checked
    <2>4. ReaderValid'
      <3>1. reader # None => KeepsOrLoses(reader.deployment)
        BY <1>1, <2>1 DEF IInv, Types
      <3> QED BY <1>2, <3>1, ReaderStaysValid DEF IInv, Checked
    <2>5. ReportsValid'
      <3>1. \A i \in issues \cup reports : KeepsOrLoses(i.deployment)
        BY <1>1, <2>1 DEF IInv, Types
      <3> QED BY <1>2, <3>1, ReportsStayValid DEF IInv, Checked
    <2> QED BY <2>2, <2>3, <2>4, <2>5 DEF Checked
  <1>13. Kept'
    <2>1. Copied(n)
      BY <1>1, <1>2 DEF IInv, Kept
    <2> QED BY <1>2, <1>3, <1>7, <1>8, <2>1 DEF Kept, Copied
  <1> QED BY <1>9, <1>10, <1>11, <1>12, <1>13 DEF IInv

LEMMA RemoveStep == ASSUME LocalProjectAssumption, IInv, RemovePrevious PROVE IInv'
  <1>1. PICK n : n = Latest
    OBVIOUS
  <1>2. /\ job = "remove" /\ job' = None
        /\ deployments' = [d \in 1 .. n |-> [deployments[d] EXCEPT !.copy = IF d = n THEN deployments[d].copy ELSE None]]
        /\ UNCHANGED <<schemaVersion, checkout, dbRows, ingested, dbKnown, reader, reports, issues, met, changes, reads>>
    BY <1>1 DEF RemovePrevious
  <1>3. n \in Nat /\ job' \notin Steps
    BY <1>1, <1>2, DeploymentsAre DEF IInv, LocalProjectAssumption
  <1>4. \A d \in 1 .. n : deployments[d] \in DeploymentsOf
    BY <1>1, DeploymentsAre DEF IInv
  <1>5. \A d \in 1 .. n : /\ deployments'[d] \in DeploymentsOf
                          /\ deployments'[d].active = deployments[d].active
                          /\ deployments'[d].status = deployments[d].status
                          /\ deployments'[d].copy \in {deployments[d].copy, None}
                          /\ d = n => deployments'[d].copy = deployments[d].copy
    BY <1>2, <1>4 DEF DeploymentsOf, CopiesOf
  <1>6. deployments' \in Seq(DeploymentsOf) /\ Latest' = n
    <2>1. deployments' \in [1 .. n -> DeploymentsOf]
      BY <1>2, <1>5
    <2> QED BY <1>3, <2>1, FunctionIsSeq DEF Latest
  <1>7. Types'
    <2>1. (DOMAIN dbRows = DOMAIN NoRows)'
      BY <1>2 DEF IInv, Types, NoRows
    <2>2. (deployments \in Seq(DeploymentsOf))'
      BY <1>2, <1>6 DEF DeploymentsOf, CopiesOf
    <2> QED BY <1>1, <1>2, <1>6, <2>1, <2>2 DEF IInv, Types
  <1>8. Statuses'
    <2>1. \A d \in 1 .. n : deployments[d].status # "loading"
      <3>1. job \notin Steps \ {"remove"}
        BY <1>2
      <3> QED BY <1>1, <3>1 DEF IInv, Statuses
    <2>2. reader' # None => deployments'[reader'.deployment].status = "success"
      BY <1>1, <1>2, <1>5 DEF IInv, Statuses, Types
    <2>3. \A i \in issues' \cup reports' : i.kind = "page" => deployments'[i.deployment].status = "success"
      BY <1>1, <1>2, <1>5 DEF IInv, Statuses, Types
    <2>4. \A d \in 1 .. n : deployments'[d].active => deployments'[d].status = "success"
      BY <1>1, <1>5 DEF IInv, Statuses
    <2>5. \A d, e \in 1 .. n : deployments'[d].active /\ deployments'[e].active => d = e
      BY <1>1, <1>5 DEF IInv, Statuses
    <2>6. \A d \in 1 .. n : deployments'[d].status # "loading"
      BY <1>5, <2>1
    <2> QED BY <1>2, <1>3, <1>6, <2>2, <2>3, <2>4, <2>5, <2>6 DEF Statuses
  <1>9. AllTold'
    <2>1. \A d : Told(d)' <=> Told(d)
      BY <1>2 DEF Told
    <2>2. \A d \in 1 .. Latest' : deployments'[d].status = "error" => Told(d)'
      BY <1>1, <1>5, <1>6, <2>1 DEF IInv, AllTold
    <2>3. \A m \in met' : Told(m[1])'
      BY <1>2, <2>1 DEF IInv, AllTold
    <2> QED BY <2>2, <2>3 DEF AllTold
  <1>10. Checked'
    <2>1. \A d \in 1 .. n : KeepsOrLoses(d)
      BY <1>5 DEF KeepsOrLoses
    <2>2. CopiesValid'
      BY <1>1, <1>2, <1>6, <2>1, CopiesStayValid DEF IInv, Checked
    <2>3. RowsValid'
      <3>1. ingested # None => KeepsOrLoses(ingested)
        BY <1>1, <2>1 DEF IInv, Types
      <3>2. job' # "copy"
        BY <1>3 DEF Steps
      <3> QED BY <1>2, <3>1, <3>2, RowsStayValid DEF IInv, Checked
    <2>4. ReaderValid'
      <3>1. reader # None => KeepsOrLoses(reader.deployment)
        BY <1>1, <2>1 DEF IInv, Types
      <3> QED BY <1>2, <3>1, ReaderStaysValid DEF IInv, Checked
    <2>5. ReportsValid'
      <3>1. \A i \in issues \cup reports : KeepsOrLoses(i.deployment)
        BY <1>1, <2>1 DEF IInv, Types
      <3> QED BY <1>2, <3>1, ReportsStayValid DEF IInv, Checked
    <2> QED BY <2>2, <2>3, <2>4, <2>5 DEF Checked
  <1>11. Kept'
    <2>1. ASSUME NEW d \in 1 .. n, deployments'[d].active PROVE Copied(d)'
      <3>1. deployments[d].active /\ deployments[n].active /\ n \in 1 .. n
        BY <1>1, <1>2, <1>3, <1>5, <2>1 DEF IInv, Kept
      <3>2. d = n /\ Copied(d)
        BY <1>1, <3>1 DEF IInv, Statuses, Kept
      <3> QED BY <1>5, <3>2 DEF Copied
    <2>2. job' \notin {"ingest", "activate", "remove"}
      BY <1>3 DEF Steps
    <2> QED BY <1>6, <2>1, <2>2 DEF Kept
  <1> QED BY <1>7, <1>8, <1>9, <1>10, <1>11 DEF IInv
-----------------------------------------------------------------------------
LEMMA FailStep == ASSUME LocalProjectAssumption, IInv, Fail PROVE IInv'
  <1>1. PICK n : n = Latest
    OBVIOUS
  <1> DEFINE said == IF HasErrors(Latest) THEN {} ELSE {Report(Latest, "internal", None, TRUE)}
  <1>2. /\ job \in {"fail", "activate"} /\ job' = None /\ reports' = reports \cup said
        /\ deployments' = [deployments EXCEPT ![n].status = "error", ![n].copy = None]
        /\ UNCHANGED <<schemaVersion, checkout, dbRows, ingested, dbKnown, reader, issues, met, changes, reads>>
    BY <1>1 DEF Fail, EndFailed
  <1>3. n \in 1 .. n /\ n \in Nat /\ deployments[n].status = "loading" /\ job' \notin Steps
    <2>1. job # None /\ job \in Steps \ {"remove"}
      BY <1>2 DEF LocalProjectAssumption, Steps
    <2>2. n \in Nat /\ n >= 1
      BY <1>1, <2>1, DeploymentsAre DEF IInv, Statuses
    <2> QED BY <1>1, <1>2, <2>1, <2>2 DEF IInv, Statuses, LocalProjectAssumption
  <1>4. DOMAIN deployments = 1 .. n /\ \A d \in 1 .. n : deployments[d] \in DeploymentsOf
    BY <1>1, DeploymentsAre DEF IInv
  <1>5. /\ deployments' \in [1 .. n -> DeploymentsOf] /\ deployments'[n].status = "error" /\ deployments'[n].copy = None
        /\ deployments'[n].active = deployments[n].active
        /\ \A d \in 1 .. n : d # n => deployments'[d] = deployments[d]
    <2>1. PICK row : row = [deployments[n] EXCEPT !.status = "error", !.copy = None]
      OBVIOUS
    <2>2. row \in DeploymentsOf /\ row.status = "error" /\ row.copy = None /\ row.active = deployments[n].active
      <3>1. deployments[n] \in DeploymentsOf
        BY <1>3, <1>4
      <3> QED BY <2>1, <3>1 DEF DeploymentsOf, CopiesOf
    <2>3. deployments' = [d \in 1 .. n |-> IF d = n THEN row ELSE deployments[d]]
      BY <1>2, <1>3, <1>4, <2>1
    <2>4. deployments' \in [1 .. n -> DeploymentsOf]
      BY <1>4, <2>2, <2>3
    <2>5. deployments'[n] = row /\ \A d \in 1 .. n : d # n => deployments'[d] = deployments[d]
      BY <1>3, <2>3
    <2> QED BY <2>2, <2>4, <2>5
  <1>6. deployments' \in Seq(DeploymentsOf) /\ Latest' = n /\ ~deployments'[n].active
    <2>1. ~deployments[n].active
      BY <1>1, <1>3 DEF IInv, Statuses
    <2> QED BY <1>3, <1>5, <2>1, FunctionIsSeq DEF Latest
  <1>7. \A i \in said : i.deployment = n /\ i.kind = "internal"
    BY <1>1 DEF Report
  <1>8. \E i \in issues' \cup reports' : i.deployment = n
    <2>1. CASE HasErrors(Latest)
      BY <1>1, <1>2, <2>1 DEF HasErrors
    <2>2. CASE ~HasErrors(Latest)
      <3>1. PICK r : r = Report(Latest, "internal", None, TRUE)
        OBVIOUS
      <3>2. r \in reports'
        BY <1>2, <2>2, <3>1
      <3>3. r.deployment = n
        BY <1>1, <3>1 DEF Report
      <3> QED BY <3>2, <3>3
    <2> QED BY <2>1, <2>2
  <1> HIDE DEF said
  <1>9. Types'
    <2>1. (DOMAIN dbRows = DOMAIN NoRows)'
      BY <1>2 DEF IInv, Types, NoRows
    <2>2. (deployments \in Seq(DeploymentsOf))'
      BY <1>2, <1>6 DEF DeploymentsOf, CopiesOf
    <2>3. \A i \in issues' \cup reports' : i.deployment \in 1 .. Latest' /\ i.kind \in {"file", "ingestor", "internal", "page"}
      BY <1>1, <1>2, <1>3, <1>6, <1>7 DEF IInv, Types
    <2> QED BY <1>1, <1>2, <1>6, <2>1, <2>2, <2>3 DEF IInv, Types
  <1>10. Statuses'
    <2>1. \A d \in 1 .. n : /\ deployments'[d].status # "loading"
                            /\ deployments[d].status = "success" => deployments'[d].status = "success"
                            /\ deployments'[d].active => deployments[d].active /\ deployments'[d].status = "success"
      BY <1>1, <1>3, <1>5, <1>6 DEF IInv, Statuses
    <2>2. reader' # None => deployments'[reader'.deployment].status = "success"
      BY <1>1, <1>2, <2>1 DEF IInv, Statuses, Types
    <2>3. \A i \in issues' \cup reports' : i.kind = "page" => deployments'[i.deployment].status = "success"
      <3>1. \A i \in issues' \cup reports' : i.kind = "page" => i \in issues \cup reports
        BY <1>2, <1>7
      <3> QED BY <1>1, <3>1, <2>1 DEF IInv, Statuses, Types
    <2>4. \A d, e \in 1 .. n : deployments'[d].active /\ deployments'[e].active => d = e
      BY <1>1, <2>1 DEF IInv, Statuses
    <2> QED BY <1>2, <1>3, <1>6, <2>1, <2>2, <2>3, <2>4 DEF Statuses
  <1>11. AllTold'
    <2>1. \A d : Told(d) => Told(d)'
      BY <1>2 DEF Told
    <2>2. ASSUME NEW d \in 1 .. n, deployments'[d].status = "error" PROVE Told(d)'
      <3>1. CASE d = n
        BY <1>8, <3>1 DEF Told
      <3>2. CASE d # n
        BY <1>1, <1>5, <2>1, <2>2, <3>2 DEF IInv, AllTold
      <3> QED BY <3>1, <3>2
    <2>3. \A m \in met' : Told(m[1])'
      BY <1>2, <2>1 DEF IInv, AllTold
    <2> QED BY <1>6, <2>2, <2>3 DEF AllTold
  <1>12. Checked'
    <2>1. \A d \in 1 .. n : KeepsOrLoses(d)
      BY <1>5 DEF KeepsOrLoses
    <2>2. CopiesValid'
      BY <1>1, <1>2, <1>6, <2>1, CopiesStayValid DEF IInv, Checked
    <2>3. RowsValid'
      <3>1. ingested # None => KeepsOrLoses(ingested)
        BY <1>1, <2>1 DEF IInv, Types
      <3>2. job' # "copy"
        BY <1>3 DEF Steps
      <3> QED BY <1>2, <3>1, <3>2, RowsStayValid DEF IInv, Checked
    <2>4. ReaderValid'
      <3>1. reader # None => KeepsOrLoses(reader.deployment)
        BY <1>1, <2>1 DEF IInv, Types
      <3> QED BY <1>2, <3>1, ReaderStaysValid DEF IInv, Checked
    <2>5. ReportsValid'
      <3>1. \A i \in issues \cup reports : KeepsOrLoses(i.deployment)
        BY <1>1, <2>1 DEF IInv, Types
      <3>2. \A i \in issues' \cup reports' : i.kind = "page" => i \in issues \cup reports
        BY <1>2, <1>7
      <3> QED BY <1>2, <3>1, <3>2, ReportsStayValid DEF IInv, Checked
    <2> QED BY <2>2, <2>3, <2>4, <2>5 DEF Checked
  <1>13. Kept'
    <2>1. ASSUME NEW d \in 1 .. n, deployments'[d].active PROVE Copied(d)'
      <3>1. d # n /\ deployments'[d] = deployments[d]
        BY <1>5, <1>6, <2>1
      <3>2. Copied(d)
        BY <1>1, <2>1, <3>1 DEF IInv, Kept
      <3> QED BY <3>1, <3>2 DEF Copied
    <2>2. job' \notin {"ingest", "activate", "remove"}
      BY <1>3 DEF Steps
    <2> QED BY <1>6, <2>1, <2>2 DEF Kept
  <1> QED BY <1>9, <1>10, <1>11, <1>12, <1>13 DEF IInv

(* What leaves the deployments, the database and the job alone.              *)
LEMMA ReadersStep ==
  ASSUME IInv, UNCHANGED <<schemaVersion, checkout, deployments, job, dbRows, ingested>>,
         reader' # None =>
             /\ DOMAIN reader' = {"deployment", "ref", "locale", "slug", "justified"} /\ reader'.justified \in BOOLEAN
             /\ reader'.deployment \in 1 .. Latest /\ deployments[reader'.deployment].status = "success",
         ReaderValid',
         \A m \in met' : m \in met \/ (m[1] \in 1 .. Latest /\ Told(m[1])'),
         \A d : Told(d) => Told(d)',
         \A i \in issues' \cup reports' : i \in issues \cup reports \/
             (i.kind = "page" /\ i.deployment \in 1 .. Latest /\ deployments[i.deployment].status = "success"),
         ReportsValid'
  PROVE  IInv'
  <1>1. Latest' = Latest /\ \A d : KeepsOrLoses(d)
    BY DEF Latest, KeepsOrLoses
  <1>2. Types'
    <2>1. (DOMAIN dbRows = DOMAIN NoRows)'
      BY DEF IInv, Types, NoRows
    <2>2. (deployments \in Seq(DeploymentsOf))'
      BY DEF IInv, Types, DeploymentsOf, CopiesOf
    <2>3. \A m \in met' : m[1] \in 1 .. Latest'
      BY <1>1 DEF IInv, Types
    <2>4. \A i \in issues' \cup reports' : i.deployment \in 1 .. Latest' /\ i.kind \in {"file", "ingestor", "internal", "page"}
      BY <1>1 DEF IInv, Types
    <2> QED BY <1>1, <2>1, <2>2, <2>3, <2>4 DEF IInv, Types
  <1>3. Statuses'
    <2>1. \A i \in issues' \cup reports' : i.kind = "page" => deployments[i.deployment].status = "success"
      BY DEF IInv, Statuses
    <2> QED BY <1>1, <2>1 DEF IInv, Statuses
  <1>4. AllTold'
    <2>1. \A m \in met' : Told(m[1])'
      BY DEF IInv, AllTold
    <2> QED BY <1>1, <2>1 DEF IInv, AllTold
  <1>5. Checked'
    <2>1. CopiesValid'
      BY <1>1, CopiesStayValid DEF IInv, Checked
    <2>2. RowsValid'
      <3>1. job' = "copy" => ingested # Latest'
        BY <1>1 DEF IInv, Checked, RowsValid
      <3> QED BY <1>1, <3>1, RowsStayValid DEF IInv, Checked
    <2> QED BY <2>1, <2>2 DEF Checked
  <1>6. Kept'
    BY <1>1 DEF IInv, Kept, Copied
  <1> QED BY <1>2, <1>3, <1>4, <1>5, <1>6 DEF IInv

LEMMA ActiveIs ==
  ASSUME Types, ActiveOnes # {}
  PROVE  ActiveDeployment \in 1 .. Latest /\ deployments[ActiveDeployment].active
  <1>1. IsFiniteSet(1 .. Latest) /\ 1 .. Latest \subseteq Nat
    BY DeploymentsAre, FS_Interval
  <1>2. ActiveOnes \subseteq 1 .. Latest
    BY DEF ActiveOnes
  <1>3. ActiveOnes \in SUBSET Nat /\ IsFiniteSet(ActiveOnes)
    BY <1>1, <1>2, FS_Subset
  <1>4. ActiveDeployment \in ActiveOnes
    BY <1>3, MaxIn DEF ActiveDeployment
  <1> QED BY <1>4 DEF ActiveOnes

LEMMA RequestStep == ASSUME LocalProjectAssumption, IInv, NEW ref, NEW locale, Request(ref, locale) PROVE IInv'
  <1>1. PICK d : d = ActiveDeployment
    OBVIOUS
  <1>2. d \in 1 .. Latest /\ deployments[d].active
    <2>1. ActiveOnes # {}
      BY DEF Request, ActiveDeployment
    <2> QED BY <1>1, <2>1, ActiveIs DEF IInv
  <1>3. /\ reader' = [deployment |-> d, ref |-> ref, locale |-> locale, slug |-> None, justified |-> FALSE]
        /\ UNCHANGED <<schemaVersion, checkout, deployments, job, dbRows, ingested, dbKnown, reports, issues, met, changes>>
    BY <1>1 DEF Request
  <1>4. /\ DOMAIN reader' = {"deployment", "ref", "locale", "slug", "justified"} /\ reader'.justified = FALSE
        /\ reader'.deployment = d
    BY <1>3
  <1>5. deployments[d].status = "success"
    BY <1>2 DEF IInv, Statuses
  <1>6. ReaderValid'
    BY <1>4 DEF ReaderValid
  <1>7. ReportsValid'
    <2>1. \A e : KeepsOrLoses(e)
      BY <1>3 DEF KeepsOrLoses
    <2> QED BY <1>3, <2>1, ReportsStayValid DEF IInv, Checked
  <1>8. \A e : Told(e) => Told(e)'
    BY <1>3 DEF Told
  <1> QED BY <1>2, <1>3, <1>4, <1>5, <1>6, <1>7, <1>8, ReadersStep

LEMMA FindStep == ASSUME LocalProjectAssumption, IInv, FindPage PROVE IInv'
  <1>1. PICK slug : slug = GetProjectPagePath(Db, Modid, reader.ref)
    OBVIOUS
  <1>2. /\ reader # None /\ reader' = IF slug = None THEN None
                     ELSE [reader EXCEPT !.slug = slug, !.justified = (ingested = reader.deployment)]
        /\ UNCHANGED <<schemaVersion, checkout, deployments, job, dbRows, ingested, dbKnown, reports, issues, met, changes, reads>>
    BY <1>1 DEF FindPage
  <1>3. slug # None => \E row \in dbRows.pages : slug = row.slug
    <2>1. Db[Modid] = dbRows
      BY DEF Db, WithOthers
    <2>2. PICK rows : rows = {p \in dbRows.pages : p.ref = reader.ref}
      OBVIOUS
    <2>3. slug = IF rows = {} THEN None ELSE (CHOOSE p \in rows : TRUE).slug
      BY <1>1, <2>1, <2>2 DEF GetProjectPagePath
    <2> QED BY <2>2, <2>3
  <1>4. /\ DOMAIN reader = {"deployment", "ref", "locale", "slug", "justified"}
        /\ reader.deployment \in 1 .. Latest /\ deployments[reader.deployment].status = "success"
    BY <1>2 DEF IInv, Types, Statuses
  <1>5. reader' # None => /\ slug # None
                          /\ DOMAIN reader' = {"deployment", "ref", "locale", "slug", "justified"}
                          /\ reader'.justified = (ingested = reader.deployment)
                          /\ reader'.deployment = reader.deployment /\ reader'.slug = slug
    BY <1>2, <1>4
  <1>6. ReaderValid'
    <2> SUFFICES ASSUME reader' # None, reader'.justified, Copied(reader.deployment)'
                 PROVE  (reader.slug \in PagesOf(reader.deployment))'
      BY DEF ReaderValid
    <2>1. PICK d : d = reader.deployment
      OBVIOUS
    <2>2. reader'.deployment = d /\ ingested = d /\ reader'.slug = slug
      BY <1>5, <2>1
    <2>3. PagesOf(reader.deployment)' = PagesOf(d)'
      BY <2>2 DEF PagesOf, CopyOf
    <2>4. PagesOf(d)' = PagesOf(d)
      BY <1>2, CopyStays
    <2>5. Copied(d)
      BY <1>2, <2>2 DEF Copied
    <2>6. d # None
      BY <1>4, <2>1, DeploymentsAre DEF LocalProjectAssumption, IInv
    <2>7. FoundOf(ingested) = FoundOf(d) /\ (Copied(ingested) <=> Copied(d))
      BY <2>2 DEF FoundOf, CopyOf, Copied
    <2>8. RowsAreOf(dbRows, FoundOf(d))
      BY <2>2, <2>5, <2>6, <2>7 DEF IInv, Checked, RowsValid
    <2>9. slug \in PagesOf(d)
      BY <1>3, <1>4, <1>5, <2>1, <2>8, RowsArePages DEF IInv
    <2> QED BY <2>2, <2>3, <2>4, <2>9
  <1>7. ReportsValid'
    <2>1. \A e : KeepsOrLoses(e)
      BY <1>2 DEF KeepsOrLoses
    <2> QED BY <1>2, <2>1, ReportsStayValid DEF IInv, Checked
  <1>8. \A e : Told(e) => Told(e)'
    BY <1>2 DEF Told
  <1> QED BY <1>2, <1>4, <1>5, <1>6, <1>7, <1>8, ReadersStep
-----------------------------------------------------------------------------
LEMMA ReadStep == ASSUME LocalProjectAssumption, IInv, ReadContentPage PROVE IInv'
  <1>1. PICK d, copy, path : d = reader.deployment /\ copy = CopyOf(d) /\ path = ContentPagePath(copy, reader.locale, reader.slug)
    OBVIOUS
  <1> DEFINE bad == ReadPageError(copy, path) # None \/ copy[path].ids = <<>>
             report == Report(d, "page", path, reader.justified /\ deployments[d].copy # None)
  <1>2. /\ reader # None /\ reader.slug # None /\ reader' = None
        /\ reports' = reports \cup IF bad THEN {report} ELSE {}
        /\ met' = met \cup IF bad THEN {<<d, path>>} ELSE {}
        /\ UNCHANGED <<schemaVersion, checkout, deployments, job, dbRows, ingested, dbKnown, issues, changes, reads>>
    BY <1>1 DEF ReadContentPage
  <1>3. /\ report.deployment = d /\ report.kind = "page" /\ report.file = path
        /\ report.justified = (reader.justified /\ Copied(d))
    BY DEF Report, Copied
  <1>4. d \in 1 .. Latest /\ deployments[d].status = "success"
    BY <1>1, <1>2 DEF IInv, Types, Statuses
  <1>5. bad /\ reader.justified /\ Copied(d) => ReadPageError(copy, path) = "malformed_markdown"
    <2> SUFFICES ASSUME bad, reader.justified, Copied(d) PROVE ReadPageError(copy, path) = "malformed_markdown"
      OBVIOUS
    <2>1. PICK slug, locale : slug = reader.slug /\ locale = reader.locale
      OBVIOUS
    <2>2. slug \in PagesOf(d)
      <3>1. Copied(reader.deployment) <=> Copied(d)
        BY <1>1 DEF Copied
      <3>2. PagesOf(reader.deployment) = PagesOf(d)
        BY <1>1 DEF PagesOf, CopyOf
      <3> QED BY <1>2, <2>1, <3>1, <3>2 DEF IInv, Checked, ReaderValid
    <2>3. slug \in Pages(copy, schemaVersion, Modid)
      BY <1>1, <2>2 DEF PagesOf
    <2>4. IsFileSystem(copy)
      BY <1>1, <1>4, CopyIsFileSystem DEF IInv
    <2>5. InvalidFiles(copy) = {}
      <3>1. InvalidFiles(CopyOf(d)) = {}
        BY <1>4 DEF IInv, Checked, CopiesValid
      <3> QED BY <1>1, <3>1
    <2>6. ReadPageError(copy, path) \in {None, "malformed_markdown"} /\ copy[path].ids # <<>>
      <3>1. path = ContentPagePath(copy, locale, slug)
        BY <1>1, <2>1
      <3> HIDE DEF bad
      <3> QED BY <2>3, <2>4, <2>5, <3>1, PagesOpen
    <2> QED BY <2>6
  <1> HIDE DEF bad, report
  <1>6. \A i \in issues' \cup reports' : i \in issues \cup reports \/ (bad /\ i = report)
    BY <1>2
  <1>7. \A e : Told(e) => Told(e)'
    BY <1>2 DEF Told
  <1>8. \A m \in met' : m \in met \/ (m[1] \in 1 .. Latest /\ Told(m[1])')
    <2> SUFFICES ASSUME NEW m \in met', m \notin met PROVE m[1] \in 1 .. Latest /\ Told(m[1])'
      OBVIOUS
    <2>1. bad /\ m = <<d, path>> /\ report \in reports'
      BY <1>2
    <2>2. m[1] = d
      BY <2>1
    <2> QED BY <1>3, <1>4, <2>1, <2>2 DEF Told
  <1>9. ReaderValid'
    BY <1>2 DEF ReaderValid
  <1>10. ReportsValid'
    <2> SUFFICES ASSUME NEW i \in issues' \cup reports', i.kind = "page", i.justified, Copied(i.deployment)'
                 PROVE (ReadPageError(CopyOf(i.deployment), i.file) = "malformed_markdown")'
      BY DEF ReportsValid
    <2>1. Copied(i.deployment)
      BY <1>2 DEF Copied
    <2>2. ReadPageError(CopyOf(i.deployment), i.file)' = ReadPageError(CopyOf(i.deployment), i.file)
      BY <1>2, CopyStays
    <2>3. CASE i \in issues \cup reports
      BY <2>1, <2>2, <2>3 DEF IInv, Checked, ReportsValid
    <2>4. CASE bad /\ i = report
      <3>1. i.deployment = d /\ i.file = path /\ reader.justified /\ Copied(d)
        BY <1>3, <2>4
      <3>2. ReadPageError(CopyOf(d), path) = "malformed_markdown"
        BY <1>1, <1>5, <2>4, <3>1
      <3> QED BY <2>2, <3>1, <3>2
    <2> QED BY <1>6, <2>3, <2>4
  <1>11. \A i \in issues' \cup reports' : i \in issues \cup reports \/
             (i.kind = "page" /\ i.deployment \in 1 .. Latest /\ deployments[i.deployment].status = "success")
    BY <1>3, <1>4, <1>6
  <1> QED BY <1>2, <1>7, <1>8, <1>9, <1>10, <1>11, ReadersStep

LEMMA StoreStep == ASSUME IInv, NEW report \in reports, StoreIssue(report) PROVE IInv'
  <1>1. /\ reports' = reports \ {report}
        /\ issues' = issues \cup IF \E i \in issues : SameIssue(i, report) THEN {} ELSE {report}
        /\ UNCHANGED <<schemaVersion, checkout, deployments, job, dbRows, ingested, dbKnown, reader, met, changes, reads>>
    BY DEF StoreIssue
  <1>2. issues' \cup reports' \subseteq issues \cup reports
    BY <1>1
  <1>3. ASSUME NEW d, Told(d) PROVE Told(d)'
    <2>1. PICK i \in issues \cup reports : i.deployment = d
      BY <1>3 DEF Told
    <2>2. CASE i \in issues' \cup reports'
      BY <2>1, <2>2 DEF Told
    <2>3. CASE i \notin issues' \cup reports'
      <3>1. i = report /\ \E j \in issues : SameIssue(j, report)
        BY <1>1, <2>1, <2>3
      <3>2. PICK j \in issues : j.deployment = report.deployment
        BY <3>1 DEF SameIssue
      <3>3. j \in issues' /\ j.deployment = d
        BY <1>1, <2>1, <3>1, <3>2
      <3> QED BY <3>3 DEF Told
    <2> QED BY <2>2, <2>3
  <1>4. \A d : KeepsOrLoses(d)
    BY <1>1 DEF KeepsOrLoses
  <1>5. ReaderValid'
    BY <1>1, <1>4, ReaderStaysValid DEF IInv, Checked
  <1>6. ReportsValid'
    BY <1>1, <1>2, <1>4, ReportsStayValid DEF IInv, Checked
  <1>7. reader' # None => /\ DOMAIN reader' = {"deployment", "ref", "locale", "slug", "justified"} /\ reader'.justified \in BOOLEAN
                          /\ reader'.deployment \in 1 .. Latest /\ deployments[reader'.deployment].status = "success"
    BY <1>1 DEF IInv, Types, Statuses
  <1> QED BY <1>1, <1>2, <1>3, <1>5, <1>6, <1>7, ReadersStep

(* Nothing but a step of the model, or none.                                 *)
LEMMA Stutter == ASSUME IInv, UNCHANGED vars PROVE IInv'
  <1> USE DEF vars
  <1>1. \A d : KeepsOrLoses(d)
    BY DEF KeepsOrLoses
  <1>2. ReaderValid'
    BY <1>1, ReaderStaysValid DEF IInv, Checked
  <1>3. ReportsValid'
    BY <1>1, ReportsStayValid DEF IInv, Checked
  <1>4. \A d : Told(d) => Told(d)'
    BY DEF Told
  <1>5. reader' # None => /\ DOMAIN reader' = {"deployment", "ref", "locale", "slug", "justified"} /\ reader'.justified \in BOOLEAN
                          /\ reader'.deployment \in 1 .. Latest /\ deployments[reader'.deployment].status = "success"
    BY DEF IInv, Types, Statuses
  <1> QED BY <1>2, <1>3, <1>4, <1>5, ReadersStep

LEMMA Inductive == Spec => []IInv
  <1>1. Init => IInv
    BY Initial, LocalProjectAssumption
  <1>2. IInv /\ [Next]_vars => IInv'
    <2> SUFFICES ASSUME IInv, [Next]_vars PROVE IInv'
      OBVIOUS
    <2> USE LocalProjectAssumption
    <2>1. ASSUME NEW f \in DOMAIN Catalog[schemaVersion] \ checkout, Write(f) PROVE IInv'
      <3>1. PICK new : /\ new = {g \in checkout : Catalog[schemaVersion][g].path # Catalog[schemaVersion][f].path} \cup {f}
                       /\ Change(new)
        BY <2>1 DEF Write
      <3>2. new \in SUBSET DOMAIN Catalog[schemaVersion]
        BY <3>1 DEF IInv, Types
      <3> QED BY <3>1, <3>2, ChangeStep
    <2>2. ASSUME NEW f \in Deletable \cap checkout, Delete(f) PROVE IInv'
      <3>1. PICK new : new = checkout \ {f} /\ Change(new)
        BY <2>2 DEF Delete
      <3>2. new \in SUBSET DOMAIN Catalog[schemaVersion]
        BY <3>1 DEF IInv, Types
      <3> QED BY <3>1, <3>2, ChangeStep
    <2>3. CASE StartDeployment
      BY <2>3, StartStep
    <2>4. CASE CopyFiles
      BY <2>4, CopyStep
    <2>5. CASE CommitVersion
      BY <2>5, CommitStep
    <2>6. CASE Activate
      BY <2>6, ActivateStep
    <2>7. CASE RemovePrevious
      BY <2>7, RemoveStep
    <2>8. CASE Fail
      BY <2>8, FailStep
    <2>9. ASSUME NEW request \in SomeRequests, Request(request[1], request[2]) PROVE IInv'
      BY <2>9, RequestStep
    <2>10. CASE FindPage
      BY <2>10, FindStep
    <2>11. CASE ReadContentPage
      BY <2>11, ReadStep
    <2>12. ASSUME NEW report \in reports, StoreIssue(report) PROVE IInv'
      BY <2>12, StoreStep
    <2>13. CASE UNCHANGED vars
      BY <2>13, Stutter
    <2> QED BY <2>1, <2>2, <2>3, <2>4, <2>5, <2>6, <2>7, <2>8, <2>9, <2>10, <2>11, <2>12, <2>13 DEF Next
  <1> QED BY <1>1, <1>2, PTL DEF Spec
-----------------------------------------------------------------------------
(* The best of some references: those in D come first, then the smaller      *)
(* ones.  There is one, and only one.                                        *)
BetterRef(D, r, s) == (r \in D /\ s \notin D) \/ ((r \in D <=> s \in D) /\ Before(r, s))
IsBest(S, D, r) == r \in S /\ \A s \in S : ~BetterRef(D, s, r)

LEMMA BestExists ==
  ASSUME NEW S \in SUBSET Names, IsFiniteSet(S), S # {}, NEW D
  PROVE  /\ \E r \in S : IsBest(S, D, r)
         /\ \A r, t : IsBest(S, D, r) /\ IsBest(S, D, t) => r = t
  <1> DEFINE R == {p \in S \X S : BetterRef(D, p[1], p[2])}
  <1>1. \A x, y \in S : <<x, y>> \in R <=> BetterRef(D, x, y)
    OBVIOUS
  <1> HIDE DEF R
  <1>2. ASSUME NEW x \in S, NEW y \in S, NEW z \in S
        PROVE  /\ ~BetterRef(D, x, x)
               /\ BetterRef(D, x, y) /\ BetterRef(D, y, z) => BetterRef(D, x, z)
               /\ x # y => BetterRef(D, x, y) \/ BetterRef(D, y, x)
    <2>1. x \in Names /\ y \in Names /\ z \in Names
      OBVIOUS
    <2>2. /\ ~Before(x, x)
          /\ Before(x, y) /\ Before(y, z) => Before(x, z)
          /\ x # y => Before(x, y) \/ Before(y, x)
      BY <2>1, BeforeIsOrder
    <2> QED BY <2>2 DEF BetterRef
  <1>3. IsOrder(R, S)
    BY <1>1, <1>2 DEF IsOrder
  <1>4. PICK r \in S : Cardinality(Below(S, R, r)) = 0
    <2>1. Ranked(S, R)
      BY <1>3, Ranks
    <2>2. Cardinality(S) \in Nat /\ Cardinality(S) # 0
      BY FS_CardinalityType, FS_EmptySet
    <2>3. 1 \in 1 .. Cardinality(S) /\ 1 - 1 = 0
      BY <2>2
    <2> QED BY <2>1, <2>3 DEF Ranked
  <1>5. Below(S, R, r) = {}
    <2>1. IsFiniteSet(Below(S, R, r))
      <3>1. Below(S, R, r) \subseteq S
        BY DEF Below
      <3> QED BY <3>1, FS_Subset
    <2> QED BY <1>4, <2>1, FS_EmptySet
  <1>6. IsBest(S, D, r)
    BY <1>1, <1>5 DEF Below, IsBest
  <1> QED BY <1>2, <1>6 DEF IsBest

(* Pages as a scan finds them, their references and those about an item.     *)
ArePages(pages) == IsFiniteSet(pages) /\ \E S, X : pages \subseteq [ref : Names, slug : S, ids : Seq(X)]
RefsIn(pages) == {p.ref : p \in pages}
RefsAbout(pages, loc) == {p.ref : p \in {q \in pages : loc \in Range(q.ids)}}
DedicatedIn(rows) == {ref \in Names : Cardinality({p \in rows.itemPages : p.ref = ref}) = 1}

LEMMA FoundArePages ==
  ASSUME NEW fs, IsFileSystem(fs), NEW schema, NEW modid, None \notin PageIssues
  PROVE  ArePages(PagesFound(fs, schema, modid))
  <1> DEFINE list == ListOf(fs, schema, modid)
             found == PagesFound(fs, schema, modid)
             f == [i \in 1 .. Len(list) |-> list[i]]
  <1>1. /\ Len(list) \in Nat /\ Range(list) = {list[i] : i \in 1 .. Len(list)}
        /\ found \subseteq Range(list) /\ found \subseteq Listed(fs, schema, modid)
    BY PagesFoundAre
  <1> HIDE DEF list, found
  <1>2. f \in Surjection(1 .. Len(list), Range(list))
    BY <1>1 DEF Surjection
  <1>3. IsFiniteSet(1 .. Len(list))
    BY <1>1, FS_Interval
  <1>4. IsFiniteSet(Range(list))
    <2> HIDE DEF f
    <2> QED BY <1>2, <1>3, FS_Surjection
  <1>5. IsFiniteSet(found)
    BY <1>1, <1>4, FS_Subset
  <1> QED BY <1>1, <1>5 DEF ArePages, Listed, found

LEMMA RefsAre ==
  ASSUME NEW pages, ArePages(pages), NEW loc
  PROVE  /\ RefsAbout(pages, loc) \subseteq RefsIn(pages) /\ RefsIn(pages) \subseteq Names
         /\ IsFiniteSet(RefsAbout(pages, loc))
  <1>1. RefsAbout(pages, loc) \subseteq RefsIn(pages)
    BY DEF RefsAbout, RefsIn
  <1>2. RefsIn(pages) \subseteq Names
    BY DEF ArePages, RefsIn
  <1>3. IsFiniteSet(RefsIn(pages))
    <2> DEFINE f == [p \in pages |-> p.ref]
    <2>1. f \in Surjection(pages, RefsIn(pages))
      BY DEF Surjection, RefsIn
    <2> HIDE DEF f
    <2> QED BY <2>1, FS_Surjection DEF ArePages
  <1> QED BY <1>1, <1>2, <1>3, FS_Subset

(* The view project_item_page_best has the best of the references, if any.   *)
LEMMA BestPageIs ==
  ASSUME NEW db, NEW v, NEW pages, ArePages(pages), RowsAreOf(db[v], pages), NEW loc
  PROVE  LET refs == RefsAbout(pages, loc)
             best == BestPage(db, v, loc)
         IN  /\ refs = {} => best = None
             /\ refs # {} => IsBest(refs, DedicatedIn(db[v]), best) /\ best \in RefsIn(pages) /\ best # None
  <1> DEFINE refs == RefsAbout(pages, loc)
             rows == db[v]
             D == DedicatedIn(rows)
             best == BestPage(db, v, loc)
             Count(ref) == Cardinality({p \in rows.itemPages : p.ref = ref})
             Better(r, s) == (Count(r) = 1 /\ Count(s) # 1) \/ ((Count(r) = 1) = (Count(s) = 1) /\ Before(r, s))
  <1> DEFINE asked == {p.ref : p \in {q \in rows.itemPages : q.item = loc}}
  <1>1. asked = refs
    <2>1. rows.itemPages = UNION {{[item |-> l, ref |-> p.ref] : l \in Range(p.ids)} : p \in pages}
      BY DEF RowsAreOf
    <2>2. ASSUME NEW q \in rows.itemPages, q.item = loc PROVE q.ref \in refs
      <3>1. PICK p \in pages : \E l \in Range(p.ids) : q = [item |-> l, ref |-> p.ref]
        BY <2>1
      <3>2. PICK l \in Range(p.ids) : q = [item |-> l, ref |-> p.ref]
        BY <3>1
      <3>3. l = loc /\ q.ref = p.ref
        BY <2>2, <3>2
      <3> QED BY <3>3 DEF RefsAbout
    <2>3. ASSUME NEW p \in pages, loc \in Range(p.ids) PROVE p.ref \in asked
      <3>1. [item |-> loc, ref |-> p.ref] \in rows.itemPages
        BY <2>1, <2>3
      <3> HIDE DEF rows
      <3> QED BY <3>1
    <2> HIDE DEF rows
    <2> QED BY <2>2, <2>3 DEF RefsAbout
  <1>2. refs \subseteq Names /\ refs \subseteq RefsIn(pages) /\ IsFiniteSet(refs)
    BY RefsAre
  <1>3. best = IF refs = {} THEN None ELSE CHOOSE r \in refs : \A s \in refs : ~Better(s, r)
    <2>1. best = IF asked = {} THEN None ELSE CHOOSE r \in asked : \A s \in asked : ~Better(s, r)
      BY DEF BestPage
    <2> HIDE DEF asked, refs, best, Better
    <2> QED BY <1>1, <2>1
  <1>4. \A r, s \in refs : Better(r, s) <=> BetterRef(D, r, s)
    <2> HIDE DEF refs, rows
    <2> SUFFICES ASSUME NEW r \in refs, NEW s \in refs PROVE Better(r, s) <=> BetterRef(D, r, s)
      OBVIOUS
    <2>1. (r \in D <=> Count(r) = 1) /\ (s \in D <=> Count(s) = 1)
      BY <1>2 DEF DedicatedIn
    <2> HIDE DEF D, Count
    <2> QED BY <2>1 DEF BetterRef
  <1> HIDE DEF refs, rows, D, best, Better
  <1>5. CASE refs = {}
    BY <1>3, <1>5 DEF refs, best
  <1>6. CASE refs # {}
    <2>1. PICK r \in refs : IsBest(refs, D, r)
      BY <1>2, <1>6, BestExists
    <2>2. \A s \in refs : ~Better(s, r)
      BY <1>4, <2>1 DEF IsBest
    <2>3. best \in refs /\ \A s \in refs : ~Better(s, best)
      BY <1>3, <1>6, <2>2
    <2>4. IsBest(refs, D, best)
      BY <1>4, <2>3 DEF IsBest
    <2>5. best # None
      BY <1>2, <2>3, ContentAssumption DEF Names
    <2> QED BY <1>2, <1>6, <2>3, <2>4, <2>5 DEF refs, best, rows, D
  <1> QED BY <1>5, <1>6

(* A reference has the slug of a page with it, if there is one.              *)
LEMMA RowRefs ==
  ASSUME NEW rows, NEW pages, RowsAreOf(rows, pages)
  PROVE  RefsIn(pages) = {p.ref : p \in rows.pages}
  <1>1. rows.pages = {[ref |-> p.ref, slug |-> p.slug] : p \in pages}
    BY DEF RowsAreOf
  <1>2. \A x \in rows.pages : \E p \in pages : x.ref = p.ref
    BY <1>1
  <1>3. ASSUME NEW p \in pages PROVE \E x \in rows.pages : x.ref = p.ref
    <2>1. [ref |-> p.ref, slug |-> p.slug] \in rows.pages
      BY <1>1
    <2> QED BY <2>1
  <1> QED BY <1>2, <1>3 DEF RefsIn

LEMMA PagePathIs ==
  ASSUME NEW db, NEW v, NEW pages, RowsAreOf(db[v], pages), NEW ref, ref \in RefsIn(pages)
  PROVE  \E p \in pages : p.ref = ref /\ p.slug = GetProjectPagePath(db, v, ref)
  <1> DEFINE rows == {p \in db[v].pages : p.ref = ref}
  <1>1. GetProjectPagePath(db, v, ref) = IF rows = {} THEN None ELSE (CHOOSE p \in rows : TRUE).slug
    BY DEF GetProjectPagePath
  <1>2. \A x \in rows : \E p \in pages : p.ref = ref /\ x.slug = p.slug
    BY DEF RowsAreOf
  <1>3. rows # {}
    <2>1. RefsIn(pages) = {p.ref : p \in db[v].pages}
      BY RowRefs
    <2> QED BY <2>1
  <1> HIDE DEF rows
  <1>4. (CHOOSE p \in rows : TRUE) \in rows
    BY <1>3
  <1> QED BY <1>1, <1>2, <1>3, <1>4
-----------------------------------------------------------------------------
(* When nothing is going on: the files that are served have been checked,    *)
(* and the rows are theirs.                                                  *)
LEMMA Settles ==
  ASSUME LocalProjectAssumption, IInv, Settled
  PROVE  LET d == ActiveDeployment
             pages == FoundOf(d)
         IN  /\ d \in 1 .. Latest /\ Copied(d)
             /\ IsFileSystem(CopyOf(d)) /\ InvalidFiles(CopyOf(d)) = {}
             /\ Db[Modid] = dbRows /\ RowsAreOf(dbRows, pages)
             /\ ArePages(pages) /\ pages \subseteq Listed(CopyOf(d), schemaVersion, Modid)
  <1>1. PICK d : d = ActiveDeployment
    OBVIOUS
  <1>2. d \in 1 .. Latest /\ deployments[d].active
    <2>1. ActiveOnes # {}
      BY DEF Settled, ActiveDeployment
    <2> QED BY <1>1, <2>1, ActiveIs DEF IInv
  <1>3. Copied(d)
    BY <1>2 DEF IInv, Kept
  <1>4. InvalidFiles(CopyOf(d)) = {}
    BY <1>2, <1>3 DEF IInv, Checked, CopiesValid
  <1>5. PICK fs : fs = CopyOf(d) /\ IsFileSystem(fs)
    BY <1>2, CopyIsFileSystem DEF IInv
  <1>6. ingested = d /\ ingested # None
    BY <1>1 DEF Settled
  <1>7. RowsAreOf(dbRows, FoundOf(d))
    <2>1. Copied(ingested) => RowsAreOf(dbRows, FoundOf(ingested))
      BY <1>6 DEF IInv, Checked, RowsValid
    <2>2. (Copied(ingested) <=> Copied(d)) /\ FoundOf(ingested) = FoundOf(d)
      BY <1>6 DEF Copied, FoundOf, CopyOf
    <2> QED BY <1>3, <2>1, <2>2
  <1>8. FoundOf(d) = PagesFound(fs, schemaVersion, Modid)
    BY <1>5 DEF FoundOf
  <1>9. ArePages(FoundOf(d)) /\ FoundOf(d) \subseteq Listed(fs, schemaVersion, Modid)
    BY <1>5, <1>8, FoundArePages, PagesFoundAre DEF LocalProjectAssumption
  <1>10. Db[Modid] = dbRows
    BY DEF Db, WithOthers
  <1> QED BY <1>1, <1>2, <1>3, <1>4, <1>5, <1>7, <1>9, <1>10

(* Whatever has a row opens.                                                 *)
LEMMA RefsOpen ==
  ASSUME LocalProjectAssumption, IInv, Settled, NEW ref \in RefsIn(FoundOf(ActiveDeployment)), NEW locale
  PROVE  ContentOpens(CopyOf(ActiveDeployment), locale, ref)
  <1>1. PICK d, fs, pages : d = ActiveDeployment /\ fs = CopyOf(d) /\ pages = FoundOf(d)
    OBVIOUS
  <1>2. /\ IsFileSystem(fs) /\ InvalidFiles(fs) = {} /\ RowsAreOf(Db[Modid], pages)
        /\ pages \subseteq Listed(fs, schemaVersion, Modid)
    BY <1>1, Settles
  <1>3. PICK p \in pages : p.ref = ref /\ GetProjectPagePath(Db, Modid, ref) = p.slug
    <2>1. ref \in RefsIn(pages)
      BY <1>1
    <2>2. PICK db : db = Db /\ RowsAreOf(db[Modid], pages)
      BY <1>2
    <2>3. \E p \in pages : p.ref = ref /\ p.slug = GetProjectPagePath(db, Modid, ref)
      BY <2>1, <2>2, PagePathIs
    <2> QED BY <2>2, <2>3
  <1>4. p.slug \in Pages(fs, schemaVersion, Modid)
    BY <1>2 DEF Listed
  <1>5. PICK slug : slug = p.slug
    OBVIOUS
  <1>6. slug # None
    <2>1. slug \in Slugs
      BY <1>2, <1>4, <1>5, SlugsAre DEF Pages
    <2> QED BY <2>1, ContentAssumption DEF Slugs, Names
  <1>7. LET path == ContentPagePath(fs, locale, slug)
        IN  ReadPageError(fs, path) \in {None, "malformed_markdown"} /\ fs[path].ids # <<>>
    BY <1>2, <1>4, <1>5, PagesOpen
  <1>8. ContentOpens(fs, locale, ref)
    BY <1>3, <1>5, <1>6, <1>7 DEF ContentOpens, Opens
  <1> QED BY <1>1, <1>8
-----------------------------------------------------------------------------
(* The links.  What the database has for them (resolve_page_links) are the   *)
(* references of pages.                                                      *)
WithPages(pages, locs) == {l \in locs : RefsAbout(pages, l) # {}}
PageOfItem(db, v, loc) == [ref |-> BestPage(db, v, loc), slug |-> GetProjectPagePath(db, v, BestPage(db, v, loc))]

LEMMA HasBestPage ==
  ASSUME NEW db, NEW v, NEW pages, ArePages(pages), RowsAreOf(db[v], pages), NEW loc
  PROVE  BestPage(db, v, loc) # None <=> RefsAbout(pages, loc) # {}
  <1> DEFINE refs == RefsAbout(pages, loc)
             best == BestPage(db, v, loc)
  <1>1. (refs = {} => best = None) /\ (refs # {} => best # None)
    BY BestPageIs
  <1> QED BY <1>1

LEMMA ItemRefsAre ==
  ASSUME NEW db, NEW v, NEW pages, ArePages(pages), RowsAreOf(db[v], pages), NEW locs
  PROVE  LET refs == ResolveItemPagePaths(db, v, locs)
         IN  DOMAIN refs = WithPages(pages, locs) /\ \A l \in WithPages(pages, locs) : refs[l] = BestPage(db, v, l)
  <1>1. ASSUME NEW l \in locs PROVE l \in db[v].items /\ BestPage(db, v, l) # None <=> RefsAbout(pages, l) # {}
    <2>1. BestPage(db, v, l) # None <=> RefsAbout(pages, l) # {}
      BY HasBestPage
    <2>2. RefsAbout(pages, l) # {} => l \in db[v].items
      BY DEF RefsAbout, RowsAreOf
    <2> QED BY <2>1, <2>2
  <1>2. {l \in locs \cap db[v].items : BestPage(db, v, l) # None} = WithPages(pages, locs)
    BY <1>1 DEF WithPages
  <1> QED BY <1>2 DEF ResolveItemPagePaths

LEMMA RefSlugsAre ==
  ASSUME NEW db, NEW v, NEW pages, RowsAreOf(db[v], pages), NEW refs
  PROVE  LET slugs == ResolvePageRefPaths(db, v, refs)
         IN  /\ \A r \in DOMAIN slugs : r \in refs /\ r \in RefsIn(pages) /\ slugs[r] = GetProjectPagePath(db, v, r)
             /\ \A r \in refs : r \in RefsIn(pages) => r \in DOMAIN slugs
  <1>1. RefsIn(pages) = {p.ref : p \in db[v].pages}
    BY RowRefs
  <1> QED BY <1>1 DEF ResolvePageRefPaths

LEMMA LinkDataIs ==
  ASSUME NEW pages, ArePages(pages), RowsAreOf(Db[Modid], pages), NEW requests, NEW data, data = LinkDataOf(requests)
  PROVE  /\ DOMAIN data.itemPages = WithPages(pages, requests.items)
         /\ \A l \in DOMAIN data.itemPages : data.itemPages[l] = PageOfItem(Db, Modid, l)
         /\ \A r \in DOMAIN data.refSlugs : r \in RefsIn(pages) /\ data.refSlugs[r] = GetProjectPagePath(Db, Modid, r)
         /\ \A r \in requests.refs : r \in RefsIn(pages) => r \in DOMAIN data.refSlugs
  <1>1. PICK db : db = Db
    OBVIOUS
  <1>2. PICK itemRefs : itemRefs = ResolveItemPagePaths(db, Modid, requests.items)
    OBVIOUS
  <1>3. PICK asked : asked = requests.refs \cup Range(itemRefs)
    OBVIOUS
  <1>4. PICK refSlugs : refSlugs = ResolvePageRefPaths(db, Modid, asked)
    OBVIOUS
  <1> DEFINE found == {l \in DOMAIN itemRefs : itemRefs[l] \in DOMAIN refSlugs}
  <1>5. data.itemPages = [l \in found |-> [ref |-> itemRefs[l], slug |-> refSlugs[itemRefs[l]]]] /\ data.refSlugs = refSlugs
    BY <1>1, <1>2, <1>3, <1>4 DEF LinkDataOf
  <1>6. PICK known : known = WithPages(pages, requests.items)
    OBVIOUS
  <1>7. DOMAIN itemRefs = known /\ \A l \in known : itemRefs[l] = BestPage(db, Modid, l)
    BY <1>1, <1>2, <1>6, ItemRefsAre
  <1>8. /\ \A r \in DOMAIN refSlugs : r \in asked /\ r \in RefsIn(pages) /\ refSlugs[r] = GetProjectPagePath(db, Modid, r)
        /\ \A r \in asked : r \in RefsIn(pages) => r \in DOMAIN refSlugs
    BY <1>1, <1>4, RefSlugsAre
  <1>9. \A l \in known : BestPage(db, Modid, l) \in RefsIn(pages)
    BY <1>1, <1>6, BestPageIs DEF WithPages
  <1>10. \A l \in known : itemRefs[l] \in asked /\ itemRefs[l] \in RefsIn(pages)
    BY <1>3, <1>7, <1>9 DEF Range
  <1>11. found = known
    BY <1>7, <1>8, <1>10
  <1>12. \A l \in known : refSlugs[itemRefs[l]] = GetProjectPagePath(db, Modid, BestPage(db, Modid, l))
    BY <1>7, <1>8, <1>10
  <1> HIDE DEF found
  <1>13. DOMAIN data.itemPages = known
    BY <1>5, <1>11
  <1>14. ASSUME NEW l \in known
         PROVE  data.itemPages[l] = PageOfItem(db, Modid, l)
    <2>1. data.itemPages[l] = [ref |-> itemRefs[l], slug |-> refSlugs[itemRefs[l]]]
      BY <1>5, <1>11
    <2> QED BY <1>7, <1>12, <2>1 DEF PageOfItem
  <1>15. \A r \in DOMAIN data.refSlugs : r \in RefsIn(pages) /\ data.refSlugs[r] = GetProjectPagePath(db, Modid, r)
    BY <1>5, <1>8
  <1>16. \A r \in requests.refs : r \in RefsIn(pages) => r \in DOMAIN data.refSlugs
    BY <1>3, <1>5, <1>8
  <1> QED BY <1>1, <1>6, <1>13, <1>14, <1>15, <1>16

LinkTypes == {"docs", "ref", "vanilla", "content"}

LEMMA ParsedLinksAre ==
  ASSUME NEW links, NEW link \in ParseLinks(links)
  PROVE  link.type \in LinkTypes
  <1>1. PICK raw \in Range(links) : link = ParseLink(raw) /\ link # None
    BY DEF ParseLinks
  <1>2. \/ \E type \in LinkTypes : \E what : link = [original |-> raw, type |-> type, what |-> what, options |-> raw.anchor]
        \/ link = None
    BY <1>1 DEF ParseLink, LinkTypes
  <1> QED BY <1>1, <1>2

(* A resolved link and its target.                                           *)
LEMMA ResolvedLinkIs ==
  ASSUME NEW fs, NEW schema, NEW locale, NEW lang, NEW data, NEW link, link.type \in LinkTypes
  PROVE  LET resolved == ResolveLink(fs, schema, locale, lang, data, link)
         IN  /\ resolved.type = IF link.type = "ref" THEN "content" ELSE link.type
             /\ link.type \in {"docs", "ref"} => resolved.ref = link.what
             /\ link.type = "content" => resolved.ref = data.itemPages[link.what].ref
  BY DEF ResolveLink, LinkTypes

(* What is asked for in the database.                                        *)
LEMMA RequestsAre ==
  ASSUME NEW links, NEW modid, NEW link \in links
  PROVE  /\ link.type = "content" /\ link.what.ns = modid => link.what \in LinkRequests(links, modid).items
         /\ link.type = "ref" => link.what \in LinkRequests(links, modid).refs
  BY DEF LinkRequests

LEMMA LinksOpen ==
  ASSUME LocalProjectAssumption, IInv, Settled, NEW locale, NEW path,
         NEW link \in LinksOf(CopyOf(ActiveDeployment), locale, path)
  PROVE  /\ link[2].type = "content" => ContentOpens(CopyOf(ActiveDeployment), locale, link[2].ref)
         /\ link[2].type = "docs" => LET fs == CopyOf(ActiveDeployment) IN Opens(fs, DocsPagePath(fs, locale, link[2].ref))
  <1>1. PICK d, fs, pages : d = ActiveDeployment /\ fs = CopyOf(d) /\ pages = FoundOf(d)
    OBVIOUS
  <1>2. /\ IsFileSystem(fs) /\ InvalidFiles(fs) = {}
        /\ ArePages(pages) /\ RowsAreOf(Db[Modid], pages)
    BY <1>1, Settles
  <1>3. PICK links : links = ParseLinks(fs[path].links)
    OBVIOUS
  <1>4. PICK requests : requests = LinkRequests(links, Modid)
    OBVIOUS
  <1>5. PICK data : data = LinkDataOf(requests)
    OBVIOUS
  <1>6. PICK l \in links : /\ IsResolved(fs, schemaVersion, locale, Modid, data, l)
                           /\ link = <<l.original, ResolveLink(fs, schemaVersion, locale, Lang(locale), data, l)>>
    <2>1. link \in ResolveLinks(fs, schemaVersion, locale, Lang(locale), Modid, data, links)
      BY <1>1, <1>3, <1>4, <1>5 DEF LinksOf
    <2> QED BY <2>1 DEF ResolveLinks
  <1>7. l.type \in LinkTypes
    BY <1>3, <1>6, ParsedLinksAre
  <1>8. /\ link[2].type = IF l.type = "ref" THEN "content" ELSE l.type
        /\ l.type \in {"docs", "ref"} => link[2].ref = l.what
        /\ l.type = "content" => link[2].ref = data.itemPages[l.what].ref
    BY <1>6, <1>7, ResolvedLinkIs
  <1>9. CASE l.type = "docs"
    <2>1. PICK target : target = DocsTarget(fs, schemaVersion, locale, l) /\ target \in DOMAIN fs
      BY <1>6, <1>9 DEF IsResolved
    <2>2. target.ext = "mdx"
      BY <2>1 DEF DocsTarget, Localized, InLocale, PagePath, Path
    <2>3. ParseFrontmatter(fs[target]) # None
      BY <1>2, <2>1, <2>2 DEF InvalidFiles, ValidFile
    <2>4. Opens(fs, target)
      BY <2>1, <2>3 DEF Opens, ReadPageError
    <2>5. target = DocsPagePath(fs, locale, link[2].ref)
      BY <1>8, <1>9, <2>1 DEF DocsTarget, DocsPagePath
    <2> QED BY <1>1, <1>8, <1>9, <2>4, <2>5
  <1>10. CASE l.type = "content"
    <2>1. l.what \in DOMAIN data.itemPages
      BY <1>6, <1>10 DEF IsResolved
    <2>2. l.what \in WithPages(pages, requests.items) /\ data.itemPages[l.what].ref = BestPage(Db, Modid, l.what)
      <3>1. /\ DOMAIN data.itemPages = WithPages(pages, requests.items)
            /\ \A k \in DOMAIN data.itemPages : data.itemPages[k] = PageOfItem(Db, Modid, k)
        BY <1>2, <1>5, LinkDataIs
      <3>2. PageOfItem(Db, Modid, l.what).ref = BestPage(Db, Modid, l.what)
        BY DEF PageOfItem
      <3> QED BY <2>1, <3>1, <3>2
    <2>3. PICK db : db = Db
      OBVIOUS
    <2>4. BestPage(db, Modid, l.what) \in RefsIn(pages)
      BY <1>2, <2>2, <2>3, BestPageIs DEF WithPages
    <2>5. link[2].ref \in RefsIn(pages)
      BY <1>8, <1>10, <2>2, <2>3, <2>4
    <2> QED BY <1>1, <1>8, <1>10, <2>5, RefsOpen
  <1>11. CASE l.type = "ref"
    <2>1. l.what \in DOMAIN data.refSlugs
      BY <1>6, <1>11 DEF IsResolved
    <2>2. link[2].ref \in RefsIn(pages)
      BY <1>2, <1>5, <1>8, <1>11, <2>1, LinkDataIs
    <2> QED BY <1>1, <1>8, <1>11, <2>2, RefsOpen
  <1>12. CASE l.type = "vanilla"
    BY <1>8, <1>12
  <1> QED BY <1>7, <1>9, <1>10, <1>11, <1>12 DEF LinkTypes

(* The items of lists with their pages: those of the project that have a     *)
(* page have one with a row.                                                 *)
LEMMA PageOfItemFound ==
  ASSUME NEW db, NEW v, NEW pages, ArePages(pages), RowsAreOf(db[v], pages), NEW item,
         ProjectContent(db, item).project = v, ProjectContent(db, item).ref # None
  PROVE  ProjectContent(db, item).ref \in RefsIn(pages)
  <1> DEFINE page == GetProjectItemPageRef(db, item[1], item[2])
             best == BestPage(db, v, item[2])
  <1>1. /\ ProjectContent(db, item).project = item[1]
        /\ ProjectContent(db, item).ref = IF page = None THEN None ELSE page.ref
    BY DEF ProjectContent
  <1>2. item[1] = v /\ page # None
    BY <1>1
  <1>3. best # None /\ page.ref = best
    <2> HIDE DEF page
    <2>1. page = IF item[2] \notin db[v].items \/ best = None THEN None
                 ELSE [ref |-> best, slug |-> GetProjectPagePath(db, v, best)]
      BY <1>2 DEF GetProjectItemPageRef, page
    <2> QED BY <1>2, <2>1
  <1>4. best \in RefsIn(pages)
    <2>1. RefsAbout(pages, item[2]) # {}
      BY <1>3, HasBestPage
    <2> QED BY <2>1, BestPageIs
  <1> QED BY <1>1, <1>2, <1>3, <1>4

LEMMA ListedIs ==
  ASSUME NEW fs, Db[Modid] = dbRows, NEW x \in ListedItems(fs)
  PROVE  \E item : x.project = ProjectContent(Db, item).project /\ x.ref = ProjectContent(Db, item).ref
  <1>1. PICK db : db = Db
    OBVIOUS
  <1>2. CASE x \in GetProjectItemsDev(Db, Modid)
    <2>1. \E l \in db[Modid].items : x = ProjectContent(db, Row(Modid, l))
      BY <1>1, <1>2 DEF GetProjectItemsDev, WithPage
    <2> QED BY <1>1, <2>1
  <1>3. CASE \E t \in dbRows.tags : x \in GetProjectTagItemsDev(Db, Modid, t)
    <2>1. PICK t \in dbRows.tags : x \in GetProjectTagItemsDev(db, Modid, t)
      BY <1>1, <1>3
    <2>2. \E i \in TagItemFlat(db, Modid, t) : x = ProjectContent(db, i)
      BY <2>1 DEF GetProjectTagItemsDev, WithPage
    <2> QED BY <1>1, <2>2
  <1>4. CASE \E loc \in dbRows.types : x \in WorkbenchesOf(fs, loc)
    <2>1. PICK loc \in dbRows.types : x \in WorkbenchesOf(fs, loc)
      BY <1>4
    <2>2. PICK names : names = NamesIn(fs)
      OBVIOUS
    <2>3. PICK types : types = GetRecipeType(db, Modid, loc)
      OBVIOUS
    <2>4. types # {}
      <3>1. Row(Modid, loc) \in types
        BY <1>1, <2>1, <2>3 DEF GetRecipeType
      <3> QED BY <3>1
    <2>5. PICK type : type = CHOOSE t \in types : TRUE
      OBVIOUS
    <2>6. x \in ResolveContentUsage(GetRecipeTypeWorkbenches(db, type), names)
      BY <1>1, <2>1, <2>2, <2>3, <2>4, <2>5 DEF WorkbenchesOf, ResolveWorkbenches
    <2>7. PICK c \in GetRecipeTypeWorkbenches(db, type) : x = ResolvedItem(c.project, c.loc, c.ref, names[Row(c.project, c.loc)])
      BY <2>6 DEF ResolveContentUsage
    <2>8. x.project = c.project /\ x.ref = c.ref
      BY <2>7 DEF ResolvedItem
    <2>9. PICK item : c = ProjectContent(db, item)
      BY <2>7 DEF GetRecipeTypeWorkbenches
    <2> QED BY <1>1, <2>8, <2>9
  <1>5. \/ x \in GetProjectItemsDev(Db, Modid)
        \/ \E t \in dbRows.tags : x \in GetProjectTagItemsDev(Db, Modid, t)
        \/ \E loc \in dbRows.types : x \in WorkbenchesOf(fs, loc)
    BY DEF ListedItems
  <1> QED BY <1>2, <1>3, <1>4, <1>5

LEMMA ListedOpen ==
  ASSUME LocalProjectAssumption, IInv, Settled, NEW locale, NEW fs, NEW ref \in OwnPages(ListedItems(fs))
  PROVE  ContentOpens(CopyOf(ActiveDeployment), locale, ref)
  <1>1. PICK db, pages : db = Db /\ pages = FoundOf(ActiveDeployment)
    OBVIOUS
  <1>2. ArePages(pages) /\ RowsAreOf(db[Modid], pages) /\ Db[Modid] = dbRows
    BY <1>1, Settles
  <1>3. PICK x \in ListedItems(fs) : x.project = Modid /\ x.ref # None /\ ref = x.ref
    BY DEF OwnPages
  <1>4. PICK item : x.project = ProjectContent(db, item).project /\ x.ref = ProjectContent(db, item).ref
    BY <1>1, <1>2, ListedIs
  <1>5. ref \in RefsIn(pages)
    <2>1. ProjectContent(db, item).project = Modid /\ ProjectContent(db, item).ref # None
      BY <1>3, <1>4
    <2>2. ProjectContent(db, item).ref \in RefsIn(pages)
      BY <1>2, <2>1, PageOfItemFound
    <2> QED BY <1>3, <1>4, <2>2
  <1> QED BY <1>1, <1>5, RefsOpen
-----------------------------------------------------------------------------
(* The preview scans the files.  If there is a row for each page it lists,   *)
(* no two of them have the same reference, and the rows are those of all.    *)
NoSharedRefs(list) == \A i, j \in 1 .. Len(list) : list[i].ref = list[j].ref => i = j

LEMMA DistinctIs ==
  ASSUME NEW fs, IsFileSystem(fs), NEW schema, NEW modid, None \notin PageIssues, NEW rows,
         RowsAreOf(rows, PagesFound(fs, schema, modid)),
         Len(ListOf(fs, schema, modid)) = Cardinality(rows.pages)
  PROVE  /\ NoSharedRefs(ListOf(fs, schema, modid))
         /\ PagesFound(fs, schema, modid) = Range(ListOf(fs, schema, modid))
  <1>1. PICK list, found : list = ListOf(fs, schema, modid) /\ found = PagesFound(fs, schema, modid)
    OBVIOUS
  <1> DEFINE last(i) == Max(AtRef(list, list[i].ref))
             row(i) == [ref |-> list[last(i)].ref, slug |-> list[last(i)].slug]
             n == Len(list)
  <1>2. /\ list \in Seq(Listed(fs, schema, modid)) /\ n \in Nat
        /\ Range(list) = {list[i] : i \in 1 .. n}
        /\ found = {list[last(i)] : i \in 1 .. n}
    BY <1>1, PagesFoundAre
  <1>3. rows.pages = {row(i) : i \in 1 .. n}
    <2>1. rows.pages = {[ref |-> p.ref, slug |-> p.slug] : p \in found}
      BY <1>1 DEF RowsAreOf
    <2> HIDE DEF last, n
    <2> QED BY <1>2, <2>1
  <1> DEFINE f == [i \in 1 .. n |-> row(i)]
  <1>4. f \in Surjection(1 .. n, rows.pages)
    <2> HIDE DEF row, n
    <2> QED BY <1>3 DEF Surjection
  <1>5. IsFiniteSet(1 .. n) /\ Cardinality(1 .. n) = n
    <2>1. n \in Int /\ 1 \in Int /\ (1 > n => n = 0) /\ n - 1 + 1 = n
      BY <1>2
    <2> HIDE DEF n
    <2>2. IsFiniteSet(1 .. n) /\ Cardinality(1 .. n) = IF 1 > n THEN 0 ELSE n - 1 + 1
      BY <2>1, FS_Interval
    <2> QED BY <2>1, <2>2
  <1>6. f \in Injection(1 .. n, rows.pages)
    <2>1. Cardinality(rows.pages) = n
      BY <1>1
    <2> HIDE DEF f, n
    <2> QED BY <1>4, <1>5, <2>1, FS_Surjection
  <1>7. \A i, j \in 1 .. n : f[i] = f[j] => i = j
    <2>1. IsInjective(f)
      BY <1>6 DEF Injection
    <2>2. DOMAIN f = 1 .. n
      OBVIOUS
    <2> HIDE DEF f, n
    <2> QED BY <2>1, <2>2 DEF IsInjective
  <1>8. ASSUME NEW i \in 1 .. n, NEW j \in 1 .. n, list[i].ref = list[j].ref PROVE i = j
    <2>1. last(i) = last(j)
      BY <1>8
    <2>2. f[i] = f[j]
      <3> HIDE DEF last, n
      <3> QED BY <2>1
    <2> HIDE DEF f
    <2> QED BY <1>7, <2>2
  <1>9. ASSUME NEW i \in 1 .. n PROVE last(i) = i
    <2>1. last(i) \in 1 .. n /\ list[last(i)].ref = list[i].ref
      <3> HIDE DEF last
      <3>1. LET m == Max(AtRef(list, list[i].ref)) IN m \in 1 .. Len(list) /\ list[m].ref = list[i].ref
        BY <1>2, LastAtRef
      <3> QED BY <3>1 DEF last
    <2> HIDE DEF last, n
    <2> QED BY <1>8, <2>1
  <1>10. found = Range(list)
    <2> HIDE DEF last, n
    <2> QED BY <1>2, <1>9
  <1> QED BY <1>1, <1>8, <1>10 DEF NoSharedRefs

(* Pages of different references: a page is about one item alone if it has   *)
(* one row for items.                                                        *)
DifferentRefs(pages) == \A p, q \in pages : p.ref = q.ref => p = q

LEMMA DedicatedIs ==
  ASSUME NEW rows, NEW pages, ArePages(pages), RowsAreOf(rows, pages), DifferentRefs(pages), NEW page \in pages
  PROVE  Cardinality(Range(page.ids)) = 1 <=> page.ref \in DedicatedIn(rows)
  <1> DEFINE mine == {x \in rows.itemPages : x.ref = page.ref}
             f == [l \in Range(page.ids) |-> [item |-> l, ref |-> page.ref]]
  <1>1. IsFiniteSet(Range(page.ids)) /\ page.ref \in Names
    <2>1. PICK X : page.ids \in Seq(X) /\ page.ref \in Names
      BY DEF ArePages
    <2>2. PICK ids : ids = page.ids
      OBVIOUS
    <2> DEFINE g == [i \in 1 .. Len(ids) |-> ids[i]]
    <2>3. Len(ids) \in Nat /\ DOMAIN ids = 1 .. Len(ids)
      BY <2>1, <2>2
    <2>4. g \in Surjection(1 .. Len(ids), Range(ids))
      BY <2>3 DEF Surjection, Range
    <2>5. IsFiniteSet(1 .. Len(ids))
      BY <2>3, FS_Interval
    <2> HIDE DEF g
    <2>6. IsFiniteSet(Range(ids))
      BY <2>4, <2>5, FS_Surjection
    <2> QED BY <2>1, <2>2, <2>6
  <1>2. rows.itemPages = UNION {{[item |-> l, ref |-> p.ref] : l \in Range(p.ids)} : p \in pages}
    BY DEF RowsAreOf
  <1>3. ASSUME NEW x \in mine PROVE \E l \in Range(page.ids) : x = [item |-> l, ref |-> page.ref]
    <2>1. x \in rows.itemPages /\ x.ref = page.ref
      OBVIOUS
    <2>2. PICK p \in pages : \E l \in Range(p.ids) : x = [item |-> l, ref |-> p.ref]
      BY <1>2, <2>1
    <2>3. p.ref = page.ref
      BY <2>1, <2>2
    <2>4. p = page
      BY <2>3 DEF DifferentRefs
    <2> QED BY <2>2, <2>4
  <1>4. ASSUME NEW l \in Range(page.ids) PROVE [item |-> l, ref |-> page.ref] \in mine
    <2>1. [item |-> l, ref |-> page.ref] \in rows.itemPages
      BY <1>2
    <2> QED BY <2>1
  <1> HIDE DEF mine
  <1>5. f \in Bijection(Range(page.ids), mine)
    <2>1. f \in [Range(page.ids) -> mine]
      BY <1>4
    <2>2. \A x \in mine : \E l \in Range(page.ids) : f[l] = x
      BY <1>3
    <2>3. \A k, l \in Range(page.ids) : f[k] = f[l] => k = l
      OBVIOUS
    <2>4. DOMAIN f = Range(page.ids)
      OBVIOUS
    <2> HIDE DEF f
    <2> QED BY <2>1, <2>2, <2>3, <2>4 DEF Bijection, Injection, IsInjective, Surjection
  <1>6. Cardinality(mine) = Cardinality(Range(page.ids))
    <2> HIDE DEF f
    <2>1. ExistsBijection(Range(page.ids), mine)
      BY <1>5 DEF ExistsBijection
    <2> QED BY <1>1, <2>1, FS_Bijection
  <1> QED BY <1>1, <1>6 DEF DedicatedIn, mine

(* Both sides find the same page for an item.                                *)
LEMMA SameBest ==
  ASSUME NEW db, NEW v, NEW pages, ArePages(pages), RowsAreOf(db[v], pages), DifferentRefs(pages), NEW loc
  PROVE  /\ loc \in DOMAIN BestItemPages(pages) <=> RefsAbout(pages, loc) # {}
         /\ RefsAbout(pages, loc) # {} => BestItemPages(pages)[loc] = PageOfItem(db, v, loc)
  <1> DEFINE about == {p \in pages : loc \in Range(p.ids)}
             chosen == CHOOSE p \in about : \A q \in about : ~BetterPage(q, p)
             locs == UNION {Range(p.ids) : p \in pages}
             refs == RefsAbout(pages, loc)
  <1>1. loc \in locs <=> refs # {}
    BY DEF RefsAbout
  <1>2. DOMAIN BestItemPages(pages) = locs
    BY DEF BestItemPages
  <1>3. loc \in locs => BestItemPages(pages)[loc] = [ref |-> chosen.ref, slug |-> chosen.slug]
    BY DEF BestItemPages
  <1>4. refs = {p.ref : p \in about}
    BY DEF RefsAbout
  <1>5. ASSUME refs # {} PROVE chosen.ref = BestPage(db, v, loc) /\ chosen.slug = GetProjectPagePath(db, v, chosen.ref)
    <2>1. PICK D : D = DedicatedIn(db[v])
      OBVIOUS
    <2>2. \A p \in pages : Cardinality(Range(p.ids)) = 1 <=> p.ref \in D
      BY <2>1, DedicatedIs
    <2>3. \A p, q \in about : BetterPage(p, q) <=> BetterRef(D, p.ref, q.ref)
      BY <2>2 DEF BetterPage, BetterRef
    <2>4. refs \in SUBSET Names /\ IsFiniteSet(refs)
      BY RefsAre
    <2> HIDE DEF refs
    <2>5. /\ \E r \in refs : IsBest(refs, D, r)
          /\ \A r, t : IsBest(refs, D, r) /\ IsBest(refs, D, t) => r = t
      BY <1>5, <2>4, BestExists
    <2>6. PICK p \in about : IsBest(refs, D, p.ref)
      BY <1>4, <2>5
    <2>7. \A q \in about : ~BetterPage(q, p)
      BY <1>4, <2>3, <2>6 DEF IsBest
    <2> HIDE DEF about
    <2>8. chosen \in about /\ \A q \in about : ~BetterPage(q, chosen)
      BY <2>6, <2>7
    <2> HIDE DEF chosen
    <2>9. IsBest(refs, D, chosen.ref)
      BY <1>4, <2>3, <2>8 DEF IsBest
    <2>10. IsBest(refs, D, BestPage(db, v, loc))
      BY <1>5, <2>1, BestPageIs DEF refs
    <2>11. chosen \in pages
      BY <2>8 DEF about
    <2>12. chosen.ref \in RefsIn(pages)
      BY <2>11 DEF RefsIn
    <2>13. PICK q \in pages : q.ref = chosen.ref /\ q.slug = GetProjectPagePath(db, v, chosen.ref)
      <3>1. PICK ref : ref = chosen.ref
        OBVIOUS
      <3>2. ref \in RefsIn(pages)
        BY <2>12, <3>1
      <3>3. \E q \in pages : q.ref = ref /\ q.slug = GetProjectPagePath(db, v, ref)
        BY <3>2, PagePathIs
      <3> QED BY <3>1, <3>3
    <2>14. q = chosen
      BY <2>11, <2>13 DEF DifferentRefs
    <2> QED BY <2>5, <2>9, <2>10, <2>13, <2>14
  <1> HIDE DEF about, chosen, locs, refs
  <1>6. refs # {} => BestItemPages(pages)[loc] = PageOfItem(db, v, loc)
    BY <1>1, <1>3, <1>5 DEF PageOfItem
  <1> QED BY <1>1, <1>2, <1>6 DEF refs

(* What both sides know of a link, and then show of it, up to the titles of  *)
(* links to items of the game.                                               *)
SameAt(f, g, key) == (key \in DOMAIN f <=> key \in DOMAIN g) /\ (key \in DOMAIN f => f[key] = g[key])
SameFor(link, modid, one, other) ==
    /\ link.type = "content" /\ link.what.ns = modid => SameAt(one.itemPages, other.itemPages, link.what)
    /\ link.type = "ref" => SameAt(one.refSlugs, other.refSlugs, link.what)
UntitledTarget(target) == IF target.type = "vanilla" THEN [target EXCEPT !.title = None] ELSE target

LEMMA SameLink ==
  ASSUME NEW fs, NEW schema, NEW locale, NEW lang, NEW modid, NEW one, NEW other,
         NEW link, link.type \in LinkTypes, SameFor(link, modid, one, other)
  PROVE  /\ IsResolved(fs, schema, locale, modid, one, link) <=> IsResolved(fs, schema, locale, modid, other, link)
         /\ IsResolved(fs, schema, locale, modid, one, link) =>
               UntitledTarget(ResolveLink(fs, schema, locale, lang, one, link))
                  = UntitledTarget(ResolveLink(fs, schema, locale, lang, other, link))
  <1> DEFINE Target(type, ref, title) == [type |-> type, ref |-> ref, title |-> title, options |-> link.options]
             Resolved1(data) == IsResolved(fs, schema, locale, modid, data, link)
             Resolve(data) == ResolveLink(fs, schema, locale, lang, data, link)
  <1>1. CASE link.type = "docs"
    <2>1. Resolved1(one) <=> Resolved1(other)
      BY <1>1 DEF IsResolved
    <2>2. \A data : Resolve(data) = Target("docs", link.what, PageTitleAt(fs, DocsTarget(fs, schema, locale, link)))
      BY <1>1 DEF ResolveLink
    <2>3. Resolve(one) = Resolve(other)
      BY <2>2
    <2> QED BY <2>1, <2>3
  <1>2. CASE link.type = "vanilla"
    <2>1. Resolved1(one) /\ Resolved1(other)
      BY <1>2 DEF IsResolved
    <2>2. \A data : Resolve(data) = Target("vanilla", link.what.path, LookUp(link.what, data.vanillaNames))
      BY <1>2 DEF ResolveLink
    <2>3. \A data : UntitledTarget(Resolve(data)) = Target("vanilla", link.what.path, None)
      <3> SUFFICES ASSUME NEW data PROVE UntitledTarget(Resolve(data)) = Target("vanilla", link.what.path, None)
        OBVIOUS
      <3>1. PICK title : Resolve(data) = Target("vanilla", link.what.path, title)
        BY <2>2
      <3> HIDE DEF Resolve
      <3> QED BY <3>1 DEF UntitledTarget
    <2> HIDE DEF Target
    <2> QED BY <2>1, <2>3
  <1>3. CASE link.type = "content"
    <2>1. \A data : Resolved1(data) <=> link.what.ns = modid /\ link.what \in DOMAIN data.itemPages
      BY <1>3 DEF IsResolved
    <2>2. \A data : Resolve(data) =
             Target("content", data.itemPages[link.what].ref,
                    ItemName(fs, schema, locale, lang, link.what, data.itemPages[link.what].slug))
      BY <1>3 DEF ResolveLink
    <2>3. Resolved1(one) <=> Resolved1(other)
      BY <1>3, <2>1 DEF SameFor, SameAt
    <2>4. Resolved1(one) => one.itemPages[link.what] = other.itemPages[link.what]
      BY <1>3, <2>1 DEF SameFor, SameAt
    <2> HIDE DEF Target, Resolved1, Resolve
    <2>5. Resolved1(one) => Resolve(one) = Resolve(other)
      BY <2>2, <2>4
    <2> QED BY <2>3, <2>5 DEF Resolved1, Resolve
  <1>4. CASE link.type = "ref"
    <2>1. \A data : Resolved1(data) <=> link.what \in DOMAIN data.refSlugs
      BY <1>4 DEF IsResolved
    <2>2. \A data : Resolve(data) =
             Target("content", link.what, ContentPageTitle(fs, schema, locale, data.refSlugs[link.what]))
      BY <1>4 DEF ResolveLink
    <2>3. Resolved1(one) <=> Resolved1(other)
      BY <1>4, <2>1 DEF SameFor, SameAt
    <2>4. Resolved1(one) => one.refSlugs[link.what] = other.refSlugs[link.what]
      BY <1>4, <2>1 DEF SameFor, SameAt
    <2> HIDE DEF Target, Resolved1, Resolve
    <2>5. Resolved1(one) => Resolve(one) = Resolve(other)
      BY <2>2, <2>4
    <2> QED BY <2>3, <2>5 DEF Resolved1, Resolve
  <1> QED BY <1>1, <1>2, <1>3, <1>4 DEF LinkTypes

LEMMA SameLinks ==
  ASSUME NEW fs, NEW schema, NEW locale, NEW lang, NEW modid, NEW one, NEW other, NEW links,
         \A link \in links : link.type \in LinkTypes /\ SameFor(link, modid, one, other)
  PROVE  Untitled(ResolveLinks(fs, schema, locale, lang, modid, one, links))
            \subseteq Untitled(ResolveLinks(fs, schema, locale, lang, modid, other, links))
  <1> DEFINE Resolved1(data, link) == IsResolved(fs, schema, locale, modid, data, link)
             Resolve(data, link) == ResolveLink(fs, schema, locale, lang, data, link)
             All(data) == ResolveLinks(fs, schema, locale, lang, modid, data, links)
  <1>1. \A link \in links : /\ Resolved1(one, link) <=> Resolved1(other, link)
                            /\ Resolved1(one, link) =>
                                  UntitledTarget(Resolve(one, link)) = UntitledTarget(Resolve(other, link))
    BY SameLink
  <1>2. \A data : All(data) = {<<link.original, Resolve(data, link)>> : link \in {l \in links : Resolved1(data, l)}}
    BY DEF ResolveLinks
  <1> HIDE DEF Resolved1, Resolve, All
  <1>3. \A set : Untitled(set) = {<<l[1], UntitledTarget(l[2])>> : l \in set}
    BY DEF Untitled, UntitledTarget
  <1> SUFFICES ASSUME NEW x \in Untitled(All(one)) PROVE x \in Untitled(All(other))
    BY DEF All
  <1>4. PICK l \in All(one) : x = <<l[1], UntitledTarget(l[2])>>
    BY <1>3
  <1>5. PICK link \in links : Resolved1(one, link) /\ l = <<link.original, Resolve(one, link)>>
    BY <1>2, <1>4
  <1>6. <<link.original, Resolve(other, link)>> \in All(other)
    BY <1>1, <1>2, <1>5
  <1>7. x = <<link.original, UntitledTarget(Resolve(other, link))>>
    BY <1>1, <1>4, <1>5
  <1>8. <<link.original, UntitledTarget(Resolve(other, link))>> \in Untitled(All(other))
    BY <1>3, <1>6
  <1> QED BY <1>7, <1>8
-----------------------------------------------------------------------------
(* When the preview is that of the files that are served: what the preview   *)
(* finds in the files the site finds in the database.                        *)
LEMMA PreviewData ==
  ASSUME LocalProjectAssumption, IInv, NEW fs, fs = Contents(checkout), Previewed(fs), NEW data, data = LinkDataFromPages(fs)
  PROVE  \E pages :
            /\ ArePages(pages) /\ RowsAreOf(Db[Modid], pages)
            /\ \A loc : /\ loc \in DOMAIN data.itemPages <=> RefsAbout(pages, loc) # {}
                        /\ RefsAbout(pages, loc) # {} => data.itemPages[loc] = PageOfItem(Db, Modid, loc)
            /\ \A ref : /\ ref \in DOMAIN data.refSlugs <=> ref \in RefsIn(pages)
                        /\ ref \in RefsIn(pages) => data.refSlugs[ref] = GetProjectPagePath(Db, Modid, ref)
  <1>1. PICK d, pages, list, db : /\ d = ActiveDeployment /\ pages = PagesFound(fs, schemaVersion, Modid)
                                  /\ list = ListOf(fs, schemaVersion, Modid) /\ db = Db
    OBVIOUS
  <1>2. Settled /\ checkout = deployments[d].copy /\ Len(list) = Cardinality(dbRows.pages)
    BY <1>1 DEF Previewed, Distinct, ListOf
  <1>3. fs = CopyOf(d)
    <2>1. Copied(d)
      BY <1>1, <1>2, Settles
    <2>2. deployments[d].copy # None
      BY <2>1 DEF Copied
    <2> QED BY <1>2, <2>2 DEF CopyOf
  <1>4. IsFileSystem(fs) /\ RowsAreOf(db[Modid], pages) /\ ArePages(pages) /\ db[Modid] = dbRows
    <2>1. pages = FoundOf(d)
      BY <1>1, <1>3 DEF FoundOf
    <2> QED BY <1>1, <1>2, <1>3, <2>1, Settles
  <1>5. None \notin PageIssues
    BY DEF LocalProjectAssumption
  <1>6. NoSharedRefs(list) /\ pages = Range(list)
    BY <1>1, <1>2, <1>4, <1>5, DistinctIs
  <1>7. DifferentRefs(pages)
    <2>1. Range(list) = {list[i] : i \in 1 .. Len(list)}
      BY <1>1, <1>4, <1>5, PagesFoundAre
    <2> QED BY <1>6, <2>1 DEF NoSharedRefs, DifferentRefs
  <1>8. /\ data.itemPages = BestItemPages(pages)
        /\ data.refSlugs = [ref \in RefsIn(pages) |-> (CHOOSE p \in pages : p.ref = ref).slug]
    BY <1>1, <1>6 DEF LinkDataFromPages, ListOf, PagesFound, RefsIn
  <1>9. ASSUME NEW loc
        PROVE  /\ loc \in DOMAIN data.itemPages <=> RefsAbout(pages, loc) # {}
               /\ RefsAbout(pages, loc) # {} => data.itemPages[loc] = PageOfItem(db, Modid, loc)
    <2>1. ArePages(pages) /\ RowsAreOf(db[Modid], pages) /\ DifferentRefs(pages)
      BY <1>4, <1>7
    <2>2. /\ loc \in DOMAIN BestItemPages(pages) <=> RefsAbout(pages, loc) # {}
          /\ RefsAbout(pages, loc) # {} => BestItemPages(pages)[loc] = PageOfItem(db, Modid, loc)
      BY <2>1, SameBest
    <2> QED BY <1>8, <2>2
  <1>10. ASSUME NEW ref \in RefsIn(pages) PROVE data.refSlugs[ref] = GetProjectPagePath(db, Modid, ref)
    <2>1. PICK p \in pages : p.ref = ref /\ p.slug = GetProjectPagePath(db, Modid, ref)
      <3>1. RowsAreOf(db[Modid], pages)
        BY <1>4
      <3> QED BY <3>1, PagePathIs
    <2>2. \A q \in pages : q.ref = ref => q = p
      BY <1>7, <2>1 DEF DifferentRefs
    <2>3. (CHOOSE q \in pages : q.ref = ref) = p
      BY <2>1, <2>2
    <2>4. data.refSlugs[ref] = (CHOOSE q \in pages : q.ref = ref).slug
      BY <1>8
    <2> QED BY <2>1, <2>3, <2>4
  <1>11. DOMAIN data.refSlugs = RefsIn(pages)
    BY <1>8
  <1> QED BY <1>1, <1>4, <1>9, <1>10, <1>11

LEMMA SameNames ==
  ASSUME NEW fs, NEW data, NEW pages, ArePages(pages), RowsAreOf(Db[Modid], pages), NEW locale, NEW loc,
         loc \in DOMAIN data.itemPages <=> RefsAbout(pages, loc) # {},
         RefsAbout(pages, loc) # {} => data.itemPages[loc] = PageOfItem(Db, Modid, loc)
  PROVE  PreviewItemName(fs, data, locale, loc) = LocalItemName(fs, locale, loc)
  <1>1. CASE loc = Malformed
    <2>1. \A slug : ItemName(fs, schemaVersion, locale, Lang(locale), loc, slug) = None
      BY <1>1 DEF ItemName
    <2> QED BY <2>1 DEF PreviewItemName, LocalItemName
  <1>2. CASE loc # Malformed
    <2>1. PICK db : db = Db
      OBVIOUS
    <2>2. RefsAbout(pages, loc) # {} => loc \in db[Modid].items
      BY <2>1 DEF RefsAbout, RowsAreOf
    <2>3. BestPage(db, Modid, loc) # None <=> RefsAbout(pages, loc) # {}
      BY <2>1, HasBestPage
    <2>4. GetProjectItemPageRef(db, Modid, loc) = IF RefsAbout(pages, loc) = {} THEN None ELSE PageOfItem(db, Modid, loc)
      BY <2>2, <2>3 DEF GetProjectItemPageRef, PageOfItem
    <2>5. LookUp(loc, data.itemPages) = GetProjectItemPageRef(Db, Modid, loc)
      BY <2>1, <2>4 DEF LookUp
    <2> QED BY <1>2, <2>5 DEF PreviewItemName, LocalItemName
  <1> QED BY <1>1, <1>2

LEMMA SameInfobox ==
  ASSUME NEW fs, NEW data, NEW locale, NEW path,
         \A loc : PreviewItemName(fs, data, locale, loc) = LocalItemName(fs, locale, loc)
  PROVE  PreviewInfobox(fs, data, locale, path) = InfoboxOf(fs, locale, path)
  <1> DEFINE frontmatter == ParseFrontmatter(fs[path])
             Made(names) == MergeInfobox(DefaultInfobox(schemaVersion, [frontmatter EXCEPT !.title = PageTitle(fs[path], frontmatter)], names),
                                         frontmatter.infobox)
             preview == [i \in DOMAIN frontmatter.ids |-> PreviewItemName(fs, data, locale, frontmatter.ids[i])]
             served == [i \in DOMAIN frontmatter.ids |-> LocalItemName(fs, locale, frontmatter.ids[i])]
  <1>1. preview = served
    <2> HIDE DEF frontmatter
    <2> QED OBVIOUS
  <1>2. PreviewInfobox(fs, data, locale, path) = Made(preview) /\ InfoboxOf(fs, locale, path) = Made(served)
    BY DEF PreviewInfobox, InfoboxOf
  <1> HIDE DEF preview, served, Made
  <1> QED BY <1>1, <1>2
-----------------------------------------------------------------------------
(* The states and the rows have the types that the code gives them, and one  *)
(* deployment at most is active: activate_deployment.                        *)
THEOREM TypeCorrect == Spec => []TypeOK
  <1>1. IInv => TypeOK
    <2> SUFFICES ASSUME IInv PROVE TypeOK
      OBVIOUS
    <2>1. Cardinality(ActiveOnes) <= 1
      <3>1. CASE ActiveOnes = {}
        BY <3>1, FS_EmptySet
      <3>2. CASE ActiveOnes # {}
        <4>1. PICK d \in ActiveOnes : TRUE
          BY <3>2
        <4>2. ActiveOnes = {d}
          BY <4>1 DEF ActiveOnes, IInv, Statuses
        <4> QED BY <4>2, FS_Singleton
      <3> QED BY <3>1, <3>2
    <2>2. \A d \in 1 .. Latest : deployments[d].status \in {"loading", "success", "error"}
      BY DeploymentsAre DEF IInv, DeploymentsOf
    <2>3. Steps \ {"remove"} = {"copy", "ingest", "activate", "fail"}
      BY DEF Steps
    <2> QED BY <2>1, <2>2, <2>3 DEF TypeOK, IInv, Types, Statuses
  <1> QED BY <1>1, Inductive, PTL

(* Once all reports are through, a failed deployment has an issue to show:   *)
(* the failure that finds none stores one itself (fail_deployment).          *)
THEOREM FailureIsExplainedHolds == Spec => []FailureIsExplained
  <1>1. IInv => FailureIsExplained
    BY DEF IInv, AllTold, Told, FailureIsExplained, HasErrors
  <1> QED BY <1>1, Inductive, PTL

(* Once all reports are through, a project one of whose pages could not be   *)
(* read does not pass for healthy: get_project_status.                       *)
THEOREM StatusTellsOfIssuesHolds == Spec => []StatusTellsOfIssues
  <1>1. IInv => StatusTellsOfIssues
    <2> SUFFICES ASSUME IInv, reports = {}, NEW m \in met, m[1] = ActiveDeployment PROVE ProjectStatus # "healthy"
      BY DEF StatusTellsOfIssues
    <2>1. HasErrors(ActiveDeployment)
      BY DEF IInv, AllTold, Told, HasErrors
    <2> QED BY <2>1 DEF ProjectStatus
  <1> QED BY <1>1, Inductive, PTL

(* The issues of reading are true: what validate_file and the scan of the    *)
(* pages let through is there, has front matter and identifiers, in every    *)
(* translation.                                                              *)
THEOREM ReportsAreTrueHolds == Spec => []ReportsAreTrue
  <1>1. IInv => ReportsAreTrue
    BY DEF IInv, Checked, ReportsValid, ReportsAreTrue, Copied
  <1> QED BY <1>1, Inductive, PTL

(* Whatever is referred to opens: what the database says of links, items,    *)
(* tags and workbenches are pages of the copy, which were checked before:    *)
(* resolve_page_links, get_project_items_dev, get_project_tag_items_dev,     *)
(* resolve_workbenches.                                                      *)
THEOREM ReferencesOpenHolds == Spec => []ReferencesOpen
  <1>1. IInv => ReferencesOpen
    <2> SUFFICES ASSUME IInv, Settled, NEW locale \in SomeLocales
                 PROVE  LET fs == CopyOf(ActiveDeployment)
                        IN  /\ \A path \in ServedFiles(fs, locale) : \A link \in LinksOf(fs, locale, path) :
                                  CASE link[2].type = "content" -> ContentOpens(fs, locale, link[2].ref)
                                    [] link[2].type = "docs" -> Opens(fs, DocsPagePath(fs, locale, link[2].ref))
                                    [] OTHER -> TRUE
                            /\ \A ref \in OwnPages(ListedItems(fs)) : ContentOpens(fs, locale, ref)
      BY DEF ReferencesOpen
    <2>1. ASSUME NEW path, NEW link \in LinksOf(CopyOf(ActiveDeployment), locale, path)
          PROVE  /\ link[2].type = "content" => ContentOpens(CopyOf(ActiveDeployment), locale, link[2].ref)
                 /\ link[2].type = "docs" =>
                        LET fs == CopyOf(ActiveDeployment) IN Opens(fs, DocsPagePath(fs, locale, link[2].ref))
      BY LocalProjectAssumption, LinksOpen
    <2>2. \A fs : \A ref \in OwnPages(ListedItems(fs)) : ContentOpens(CopyOf(ActiveDeployment), locale, ref)
      BY LocalProjectAssumption, ListedOpen
    <2> QED BY <2>1, <2>2
  <1> QED BY <1>1, Inductive, PTL

(* The preview shows what the site will show: with the same files, and no    *)
(* two pages of the same reference, its scan of the files and the database   *)
(* have the same page for each item and each reference, so that infoboxes    *)
(* and links are the same: best_item_pages and project_item_page_best.       *)
THEOREM PreviewIsServedHolds == Spec => []PreviewIsServed
  <1>1. IInv => PreviewIsServed
    <2> SUFFICES ASSUME IInv, NEW fs, fs = Contents(checkout), Previewed(fs),
                        NEW data, data = LinkDataFromPages(fs), NEW locale, NEW path
                 PROVE  /\ PreviewInfobox(fs, data, locale, path) = InfoboxOf(fs, locale, path)
                        /\ Untitled(PreviewLinks(fs, data, locale, path)) = Untitled(LinksOf(fs, locale, path))
      BY DEF PreviewIsServed
    <2>1. PICK pages :
            /\ ArePages(pages) /\ RowsAreOf(Db[Modid], pages)
            /\ \A loc : /\ loc \in DOMAIN data.itemPages <=> RefsAbout(pages, loc) # {}
                        /\ RefsAbout(pages, loc) # {} => data.itemPages[loc] = PageOfItem(Db, Modid, loc)
            /\ \A ref : /\ ref \in DOMAIN data.refSlugs <=> ref \in RefsIn(pages)
                        /\ ref \in RefsIn(pages) => data.refSlugs[ref] = GetProjectPagePath(Db, Modid, ref)
      BY LocalProjectAssumption, PreviewData
    <2>2. ASSUME NEW loc PROVE PreviewItemName(fs, data, locale, loc) = LocalItemName(fs, locale, loc)
      <3>1. /\ loc \in DOMAIN data.itemPages <=> RefsAbout(pages, loc) # {}
            /\ RefsAbout(pages, loc) # {} => data.itemPages[loc] = PageOfItem(Db, Modid, loc)
        BY <2>1
      <3> QED BY ONLY <2>1, <3>1, SameNames
    <2>3. PreviewInfobox(fs, data, locale, path) = InfoboxOf(fs, locale, path)
      BY <2>2, SameInfobox
    <2>4. PICK links, requests, asked :
            links = ParseLinks(fs[path].links) /\ requests = LinkRequests(links, Modid) /\ asked = LinkDataOf(requests)
      OBVIOUS
    <2>5. /\ DOMAIN asked.itemPages = WithPages(pages, requests.items)
          /\ \A l \in DOMAIN asked.itemPages : asked.itemPages[l] = PageOfItem(Db, Modid, l)
          /\ \A r \in DOMAIN asked.refSlugs : r \in RefsIn(pages) /\ asked.refSlugs[r] = GetProjectPagePath(Db, Modid, r)
          /\ \A r \in requests.refs : r \in RefsIn(pages) => r \in DOMAIN asked.refSlugs
      BY <2>1, <2>4, LinkDataIs
    <2>6. ASSUME NEW link \in links
          PROVE  link.type \in LinkTypes /\ SameFor(link, Modid, data, asked) /\ SameFor(link, Modid, asked, data)
      <3>1. link.type \in LinkTypes
        BY <2>4, ParsedLinksAre
      <3>2. ASSUME link.type = "content", link.what.ns = Modid
            PROVE  SameAt(data.itemPages, asked.itemPages, link.what) /\ SameAt(asked.itemPages, data.itemPages, link.what)
        <4>1. link.what \in requests.items
          BY <2>4, <3>2, RequestsAre
        <4>2. link.what \in DOMAIN data.itemPages <=> link.what \in DOMAIN asked.itemPages
          BY <2>1, <2>5, <4>1 DEF WithPages
        <4>3. link.what \in DOMAIN asked.itemPages => data.itemPages[link.what] = asked.itemPages[link.what]
          BY <2>1, <2>5, <4>2
        <4> QED BY <4>2, <4>3 DEF SameAt
      <3>3. ASSUME link.type = "ref"
            PROVE  SameAt(data.refSlugs, asked.refSlugs, link.what) /\ SameAt(asked.refSlugs, data.refSlugs, link.what)
        <4>1. link.what \in requests.refs
          BY <2>4, <3>3, RequestsAre
        <4>2. link.what \in DOMAIN data.refSlugs <=> link.what \in DOMAIN asked.refSlugs
          BY <2>1, <2>5, <4>1
        <4>3. link.what \in DOMAIN asked.refSlugs => data.refSlugs[link.what] = asked.refSlugs[link.what]
          BY <2>1, <2>5
        <4> QED BY <4>2, <4>3 DEF SameAt
      <3> QED BY <3>1, <3>2, <3>3 DEF SameFor
    <2> DEFINE All(d) == ResolveLinks(fs, schemaVersion, locale, Lang(locale), Modid, d, links)
    <2>7. PreviewLinks(fs, data, locale, path) = All(data) /\ LinksOf(fs, locale, path) = All(asked)
      BY <2>4 DEF PreviewLinks, LinksOf
    <2>8. Untitled(All(data)) \subseteq Untitled(All(asked)) /\ Untitled(All(asked)) \subseteq Untitled(All(data))
      BY <2>6, SameLinks
    <2> HIDE DEF All
    <2> QED BY <2>3, <2>7, <2>8
  <1> QED BY <1>1, Inductive, PTL
=============================================================================
