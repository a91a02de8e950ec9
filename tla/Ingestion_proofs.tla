-------------------------- MODULE Ingestion_proofs --------------------------
(* Theorems about Ingestion, for any finite set of projects, any             *)
(* checkouts, any number of deployments and failures.                        *)
EXTENDS Ingestion, FiniteSetTheorems, SequenceTheorems, WellFoundedInduction, TLAPS

(* What a script may hold.                                                   *)
Tables == {"item", "tag", "builtin"}
StatementsOf ==
    [do : {"purge"}, what : {{}}]
    \cup [do : {"key"}, what : Tables \X Locs]
    \cup [do : {"entry"}, what : Locs \X Locs]
    \cup [do : {"types"}, what : SUBSET Locs]
    \cup [do : {"lookup"}, what : [type : Locs, file : Locs \cup {"workbenches"}, skip : Nat]]
    \cup [do : {"recipe"}, what : RecipeFiles]
    \cup [do : {"bench"}, what : Locs]
    \cup [do : {"refresh"}, what : Views]

(* How statement i stands in a script that writes the rows of a version with *)
(* the recipes R, with a purge or without: a lookup skips no more than is    *)
(* there and no other lookup, and a recipe follows the lookup of its type.   *)
Block(s, i) == i + 1 .. i + s[i].what.skip
Fits(R, purging, s, i) ==
    /\ s[i].do # "refresh" /\ (s[i].do = "purge" => purging)
    /\ s[i].do = "lookup" => /\ i + s[i].what.skip <= Len(s)
                             /\ \A k \in Block(s, i) : /\ s[k].do \in {"key", "recipe", "bench"}
                                                       /\ s[k].do = "bench" => s[i].what.file = "workbenches"
    /\ s[i].do = "recipe" => /\ s[i].what \in R /\ i # 1 /\ s[i - 1].do = "lookup"
                             /\ s[i - 1].what = [type |-> s[i].what.type, file |-> s[i].what.id, skip |-> 1]
Parts(R, purging) == {s \in Seq(StatementsOf) : \A i \in 1 .. Len(s) : Fits(R, purging, s, i)}

(* What there may be between a lookup of workbenches and the next one.       *)
Inner == {x \in StatementsOf : x.do \in {"key", "bench"}}

(* Types.                                                                    *)
BenchRows == [type : RowsOf, item : RowsOf]
RecipeRows == [id : Locs, type : RowsOf, ingredients : SUBSET Values]
ViewOf == [gens : GensOf, late : BOOLEAN]
TxOf == [step : Nat \ {0}, turn : Nat, aborted : BOOLEAN, keys : SUBSET KeysOf,
         recipes : SUBSET RecipeRows, benches : SUBSET BenchRows, found : RowsOf,
         snapshot : GensOf, views : UNION {[D -> ViewOf] : D \in SUBSET Views}, solo : BOOLEAN]

Types ==
    /\ shared \in SUBSET KeysOf
    /\ rows \in [Versions -> [gen : 0 .. MaxDeploys, source : DOMAIN Files, recipes : SUBSET RecipeRows]]
    /\ \A v \in Versions : rows[v].gen <= count[v[1]]
    /\ benches \in SUBSET BenchRows
    /\ view \in [Views -> ViewOf]
    /\ count \in [Projects -> 0 .. MaxDeploys] /\ faults \in 0 .. MaxFaults
    /\ phase \in [Projects -> {"idle", "default", "named", "revalidate"}]
    /\ job \in [Projects -> UNION {Jobs[p] : p \in Projects}] /\ \A p \in Projects : job[p] \in Jobs[p]
    /\ tx \in [Projects -> TxOf]
    /\ \A p \in Projects : Open(p) => tx[p].step \in 1 .. Len(ScriptOf(p)) + 1
KeysApart ==
    /\ \A p \in Projects : tx[p].keys \cap shared = {}
    /\ \A p, q \in Projects : p # q => tx[p].keys \cap tx[q].keys = {}

(* Where an open transaction is in its script.                               *)
Writing(p) == Writes(Files[Source(p)], Modid[p], phase[p] = "default")
Holds(p) == DOMAIN tx[p].views
Progress ==
    /\ \A p \in Projects : ~Open(p) => tx[p].turn = 0 /\ Holds(p) = {} /\ ~tx[p].aborted /\ tx[p].keys = {}
    /\ \A p \in Projects : phase[p] = "revalidate" =>
          ~tx[p].aborted /\ Holds(p) = IF tx[p].step = 1 THEN {} ELSE {"best"}
    /\ \A p \in Projects : phase[p] \in {"default", "named"} =>
          /\ tx[p].aborted => tx[p].step <= Len(Writing(p)) + 1
          /\ Holds(p) = {ScriptOf(p)[i].what : i \in Len(Writing(p)) + 1 .. tx[p].step - 1}
    /\ \A p \in Projects : Waits(p) => ~Finished(p) /\ ~tx[p].aborted
TurnsApart == \A p, q \in Projects : p # q /\ Waits(p) => tx[p].turn # tx[q].turn
HoldersApart == \A p, q \in Projects : p # q => Holds(p) \cap Holds(q) = {}

(* Who has yet to replace the view k, and with what; the younger comes later.*)
Has(p, k) == HoldsView(p, k) \/ Queues(p, k)
GensFor(p, k) == IF HoldsView(p, k) THEN tx[p].views[k].gens ELSE tx[p].snapshot
Younger(q, p, k) == Queues(q, k) /\ (HoldsView(p, k) \/ (Queues(p, k) /\ tx[p].turn < tx[q].turn))

(* Every snapshot of best that misses a commit is followed by that of a      *)
(* revalidation that does not, or the project has yet to revalidate.         *)
Pending(p) == phase[p] = "named" \/ (phase[p] = "revalidate" /\ ~Has(p, "best"))
BestInv == faults = 0 => \A v \in Versions : Pending(v[1]) \/
    LET sees(r) == phase[r] = "revalidate" /\ Has(r, "best") /\ GensFor(r, "best")[v] = rows[v].gen IN
    /\ view["best"].gens[v] # rows[v].gen => \E r \in Projects : sees(r)
    /\ \A q \in Projects :
          Has(q, "best") /\ ~(q = v[1] /\ phase[q] = "default") /\ GensFor(q, "best")[v] # rows[v].gen
             => \E r \in Projects : sees(r) /\ Younger(r, q, "best")

Tags(v) == TagIds(Files[rows[v].source]) # {}
FlatInv ==
    /\ \A v \in Versions : Tags(v) => view["flat"].late \/ view["flat"].gens[v] = rows[v].gen
    /\ \A q \in Projects : HoldsView(q, "flat") /\ ~tx[q].views["flat"].late =>
          /\ tx[q].views["flat"].gens[Version(q)] = count[q]
          /\ \A v \in Versions : Tags(v) /\ v # Version(q) /\ ~(v[1] = q /\ phase[q] = "default") =>
                tx[q].views["flat"].gens[v] = rows[v].gen

IInv == Types /\ KeysApart /\ Progress /\ TurnsApart /\ HoldersApart /\ BestInv /\ FlatInv

-----------------------------------------------------------------------------
(* A function on 1 .. n is proved about by its least counterexample.         *)
LEMMA Least ==
  ASSUME NEW S \in SUBSET Nat, S # {}
  PROVE  \E n \in S : \A m \in S : n <= m
  <1> DEFINE R == {p \in Nat \X Nat : p[1] < p[2]}
  <1>1. IsWellFoundedOn(R, Nat)
    BY NatLessThanWellFounded DEF OpToRel
  <1> HIDE DEF R
  <1>2. PICK n \in S : \A m \in S : ~ (<<m, n>> \in R)
    BY <1>1, WFMin
  <1>3. \A m \in S : ~(m < n)
    BY <1>2 DEF R
  <1> QED BY <1>2, <1>3

LEMMA FlattenIs ==
  ASSUME NEW X, NEW seqs \in Seq(X), seqs # <<>>
  PROVE  \E f : /\ FlattenSeq(seqs) = f[Len(seqs)]
                /\ \A i \in 1 .. Len(seqs) : f[i] = IF i = 1 THEN seqs[i] ELSE f[i - 1] \o seqs[i]
  <1> DEFINE n == Len(seqs)
             Flat(f, k) == f = [i \in 1 .. k |-> IF i = 1 THEN seqs[i] ELSE f[i - 1] \o seqs[i]]
  <1>0. n \in Nat /\ \A i \in 1 .. n : seqs[i] \in X
    OBVIOUS
  <1>1. \A k \in 1 .. n : \E f : Flat(f, k)
    <2> DEFINE S == {k \in 1 .. n : ~ \E f : Flat(f, k)}
    <2>1. SUFFICES ASSUME S # {} PROVE FALSE
      OBVIOUS
    <2>2. PICK k \in S : \A m \in S : k <= m
      <3> HIDE DEF Flat, n
      <3>1. S \in SUBSET Nat
        BY <1>0
      <3> HIDE DEF S
      <3> QED BY <2>1, <3>1, Least
    <2>3. CASE k = 1
      <3>1. Flat([i \in 1 .. 1 |-> seqs[i]], 1)
        OBVIOUS
      <3> QED BY <2>2, <2>3, <3>1
    <2>4. CASE k # 1
      <3>1. k - 1 \in 1 .. n /\ k - 1 \notin S
        <4> HIDE DEF Flat, n
        <4> QED BY <1>0, <2>2, <2>4
      <3>2. PICK g : Flat(g, k - 1)
        BY <3>1
      <3> DEFINE h == [i \in 1 .. k |-> IF i = k THEN g[k - 1] \o seqs[k] ELSE g[i]]
      <3>3. ASSUME NEW i \in 1 .. k PROVE h[i] = IF i = 1 THEN seqs[i] ELSE h[i - 1] \o seqs[i]
        <4>1. k \in Nat /\ 1 < k
          BY <1>0, <2>2, <2>4
        <4>2. CASE i = k
          <5>1. k - 1 \in 1 .. k /\ k - 1 # k /\ k \in 1 .. k
            BY <4>1
          <5>2. h[k - 1] = g[k - 1] /\ h[k] = g[k - 1] \o seqs[k]
            BY <5>1
          <5> HIDE DEF h, S, Flat
          <5>3. h[k] = h[k - 1] \o seqs[k]
            BY <5>2
          <5>4. k # 1
            BY <4>1
          <5> QED BY <4>2, <5>3, <5>4
        <4>3. CASE i # k
          <5>1. i \in 1 .. k - 1 /\ (i # 1 => i - 1 \in 1 .. k /\ i - 1 # k)
            BY <4>1, <4>3
          <5> QED BY <3>2, <4>3, <5>1
        <4> QED BY <4>2, <4>3
      <3>4. Flat(h, k)
        BY <3>3
      <3> QED BY <2>2, <3>4
    <2> QED BY <2>3, <2>4
  <1>2. n # 0
    OBVIOUS
  <1> DEFINE flatten[i \in 1 .. Len(seqs)] == IF i = 1 THEN seqs[i] ELSE flatten[i - 1] \o seqs[i]
  <1>3. FlattenSeq(seqs) = flatten[n]
    BY <1>2 DEF FlattenSeq
  <1>4. Flat(flatten, n)
    <2>1. flatten = CHOOSE f : Flat(f, n)
      OBVIOUS
    <2> HIDE DEF Flat, flatten
    <2> QED BY <1>0, <1>1, <1>2, <2>1
  <1> HIDE DEF flatten
  <1> QED BY <1>3, <1>4

LEMMA SeqHas ==
  ASSUME NEW X, NEW seqs \in Seq(X)
  PROVE  Len(seqs) \in Nat /\ \A i \in 1 .. Len(seqs) : seqs[i] \in X
  OBVIOUS

(* Step by step, from the one at k, whatever absorbs or holds the others.    *)
LEMMA FoldIn ==
  ASSUME NEW n \in Nat, NEW k \in 1 .. n, NEW Y, NEW f, f[k] \in Y,
         \A i \in k + 1 .. n : f[i - 1] \in Y => f[i] \in Y
  PROVE  \A i \in k .. n : f[i] \in Y
  <1> DEFINE S == {i \in k .. n : f[i] \notin Y}
  <1> SUFFICES ASSUME S # {} PROVE FALSE
    OBVIOUS
  <1>1. PICK i \in S : \A m \in S : i <= m
    <2>1. S \in SUBSET Nat
      OBVIOUS
    <2> HIDE DEF S
    <2> QED BY <2>1, Least
  <1>2. i # k /\ i \in k .. n
    BY <1>1
  <1>3. i \in k + 1 .. n /\ i - 1 \in k .. n /\ i - 1 < i
    BY <1>2
  <1>4. i - 1 \notin S
    <2> HIDE DEF S
    <2> QED BY <1>1, <1>3
  <1> QED BY <1>1, <1>3, <1>4

LEMMA FlattenIn ==
  ASSUME NEW X, <<>> \in X, \A s, t \in X : s \o t \in X, NEW seqs \in Seq(X)
  PROVE  FlattenSeq(seqs) \in X
  <1> DEFINE n == Len(seqs)
  <1>0. n \in Nat /\ \A i \in 1 .. n : seqs[i] \in X
    BY SeqHas
  <1>1. CASE seqs = <<>>
    BY <1>1 DEF FlattenSeq
  <1>2. CASE seqs # <<>>
    <2>1. PICK f : /\ FlattenSeq(seqs) = f[n]
                   /\ \A i \in 1 .. n : f[i] = IF i = 1 THEN seqs[i] ELSE f[i - 1] \o seqs[i]
      BY <1>2, FlattenIs
    <2>2. 1 \in 1 .. n
      BY <1>0, <1>2
    <2> HIDE DEF n
    <2>3. f[1] \in X
      BY <1>0, <2>1, <2>2
    <2>4. ASSUME NEW i \in 1 + 1 .. n, f[i - 1] \in X PROVE f[i] \in X
      <3>1. i \in 1 .. n /\ i # 1
        BY <1>0
      <3>2. f[i] = f[i - 1] \o seqs[i] /\ seqs[i] \in X
        BY <1>0, <2>1, <3>1
      <3> QED BY <2>4, <3>2
    <2>5. \A i \in 1 .. n : f[i] \in X
      BY <1>0, <2>2, <2>3, <2>4, FoldIn
    <2>6. n \in 1 .. n
      BY <1>0, <2>2
    <2> QED BY <2>1, <2>5, <2>6
  <1> QED BY <1>1, <1>2

(* What one of them says is said by all of them together.                    *)
Absorbs(Y, X) == \A s \in Y, t \in X : s \o t \in Y /\ t \o s \in Y
LEMMA FlattenHas ==
  ASSUME NEW X, <<>> \in X, \A s, t \in X : s \o t \in X, NEW Y, Absorbs(Y, X),
         NEW seqs \in Seq(X), NEW k \in 1 .. Len(seqs), seqs[k] \in Y
  PROVE  FlattenSeq(seqs) \in Y
  <1> DEFINE n == Len(seqs)
  <1>0. n \in Nat /\ \A i \in 1 .. n : seqs[i] \in X
    BY SeqHas
  <1>1. seqs # <<>> /\ k \in 1 .. n
    OBVIOUS
  <1>2. PICK f : /\ FlattenSeq(seqs) = f[n]
                 /\ \A i \in 1 .. n : f[i] = IF i = 1 THEN seqs[i] ELSE f[i - 1] \o seqs[i]
    BY <1>1, FlattenIs
  <1> HIDE DEF n
  <1>3. 1 \in 1 .. n /\ k \in Nat
    BY <1>0, <1>1
  <1>4. f[1] \in X
    BY <1>0, <1>2, <1>3
  <1>5. ASSUME NEW i \in 1 + 1 .. n, f[i - 1] \in X PROVE f[i] \in X
    <2>1. i \in 1 .. n /\ i # 1
      BY <1>0
    <2>2. f[i] = f[i - 1] \o seqs[i] /\ seqs[i] \in X
      BY <1>0, <1>2, <2>1
    <2> QED BY <1>5, <2>2
  <1>6. \A i \in 1 .. n : f[i] \in X
    BY <1>0, <1>3, <1>4, <1>5, FoldIn
  <1>7. f[k] \in Y
    <2>1. CASE k = 1
      BY <1>1, <1>2, <2>1
    <2>2. CASE k # 1
      <3>1. k - 1 \in 1 .. n
        BY <1>0, <1>1, <1>3, <2>2
      <3>2. f[k] = f[k - 1] \o seqs[k] /\ f[k - 1] \in X
        BY <1>1, <1>2, <1>6, <2>2, <3>1
      <3> QED BY <3>2 DEF Absorbs
    <2> QED BY <2>1, <2>2
  <1>8. ASSUME NEW i \in k + 1 .. n, f[i - 1] \in Y PROVE f[i] \in Y
    <2>1. i \in 1 .. n /\ i # 1
      BY <1>0, <1>1, <1>3
    <2>2. f[i] = f[i - 1] \o seqs[i] /\ seqs[i] \in X
      BY <1>0, <1>2, <2>1
    <2> QED BY <1>8, <2>2 DEF Absorbs
  <1>9. \A i \in k .. n : f[i] \in Y
    BY <1>0, <1>1, <1>7, <1>8, FoldIn
  <1>10. n \in k .. n
    BY <1>0, <1>1, <1>3
  <1> QED BY <1>2, <1>9, <1>10

(* InOrder lists the locations of S, each of them: the numbers of those      *)
(* before them are 0 .. Cardinality(S) - 1.                                  *)
LEMMA InOrderIsListing ==
  ASSUME NEW S \in SUBSET Locs
  PROVE  /\ Cardinality(S) \in Nat
         /\ \A n \in 1 .. Cardinality(S) : InOrder(S)[n] \in S
         /\ \A l \in S : \E n \in 1 .. Cardinality(S) : InOrder(S)[n] = l
  <1> DEFINE k == Cardinality(S)
             T == 0 .. k - 1
             f == [l \in S |-> Cardinality(Before(S, l))]
  <1>1. IsFiniteSet(S) /\ k \in Nat
    BY DataAssumption, FS_Subset, FS_CardinalityType
  <1>2. \A l \in S : Rank[l] \in Nat
    BY DataAssumption
  <1>3. \A l \in S : IsFiniteSet(Before(S, l)) /\ Cardinality(Before(S, l)) \in Nat
    BY <1>1, FS_Subset, FS_CardinalityType DEF Before
  <1>4. ASSUME NEW l \in S PROVE Cardinality(Before(S, l)) < k
    <2>1. Before(S, l) \subseteq S /\ Before(S, l) # S
      BY <1>2 DEF Before
    <2> QED BY <1>1, <1>3, <2>1, FS_Subset
  <1>5. ASSUME NEW l \in S, NEW m \in S, Rank[l] < Rank[m]
        PROVE  Cardinality(Before(S, l)) < Cardinality(Before(S, m))
    <2>1. Before(S, l) \subseteq Before(S, m) /\ Before(S, l) # Before(S, m)
      BY <1>2, <1>5 DEF Before
    <2> QED BY <1>3, <2>1, FS_Subset
  <1>6. \A l, m \in S : f[l] = f[m] => l = m
    <2> SUFFICES ASSUME NEW l \in S, NEW m \in S, l # m PROVE f[l] # f[m]
      OBVIOUS
    <2>1. Rank[l] < Rank[m] \/ Rank[m] < Rank[l]
      BY <1>2, DataAssumption
    <2> QED BY <1>3, <1>5, <2>1
  <1>7. f \in Injection(S, T)
    BY <1>1, <1>3, <1>4, <1>6 DEF Injection, IsInjective
  <1>8. IsFiniteSet(T) /\ Cardinality(T) = k
    BY <1>1, FS_Interval
  <1>9. f \in Surjection(S, T)
    BY <1>7, <1>8, FS_Injection
  <1>10. ASSUME NEW n \in 1 .. k PROVE InOrder(S)[n] \in S
    <2>1. n - 1 \in T
      BY <1>1
    <2>2. PICK l \in S : f[l] = n - 1
      BY <1>9, <2>1 DEF Surjection
    <2>3. \E x \in S : Cardinality(Before(S, x)) = n - 1
      BY <2>2
    <2> QED BY <2>3 DEF InOrder
  <1>11. ASSUME NEW l \in S PROVE \E n \in 1 .. k : InOrder(S)[n] = l
    <2> DEFINE n == Cardinality(Before(S, l)) + 1
    <2>1. n \in 1 .. k /\ n - 1 = Cardinality(Before(S, l))
      BY <1>1, <1>3, <1>4
    <2>2. \A x \in S : Cardinality(Before(S, x)) = n - 1 => x = l
      BY <1>6, <2>1
    <2>3. InOrder(S)[n] = CHOOSE x \in S : Cardinality(Before(S, x)) = n - 1
      BY <2>1 DEF InOrder
    <2> HIDE DEF n
    <2>4. InOrder(S)[n] = l
      BY <2>1, <2>2, <2>3
    <2> QED BY <2>1, <2>4
  <1> QED BY <1>1, <1>10, <1>11

-----------------------------------------------------------------------------
(* The scripts, part by part.                                                *)
LEMMA FitsLeft ==
  ASSUME NEW R, NEW g, NEW s \in Parts(R, g), NEW t \in Seq(StatementsOf), NEW i \in 1 .. Len(s)
  PROVE  Fits(R, g, s \o t, i)
  <1>1. s \in Seq(StatementsOf) /\ Len(s) \in Nat /\ Len(t) \in Nat
    BY DEF Parts
  <1>2. /\ s \o t \in Seq(StatementsOf)
        /\ Len(s \o t) = Len(s) + Len(t)
        /\ \A j \in 1 .. Len(s) : (s \o t)[j] = s[j]
    BY <1>1
  <1>3. PICK c : c = s \o t
    OBVIOUS
  <1>4. ASSUME NEW x \in StatementsOf, x.do = "lookup" PROVE x.what.skip \in Nat
    BY <1>4 DEF StatementsOf
  <1>5. Fits(R, g, s, i) /\ c[i] = s[i] /\ i \in 1 .. Len(c) /\ Len(s) <= Len(c) /\ s[i] \in StatementsOf
    BY <1>1, <1>2, <1>3 DEF Parts
  <1>6. ASSUME s[i].do = "lookup"
        PROVE  /\ i + c[i].what.skip <= Len(c)
               /\ \A k \in Block(c, i) : /\ c[k].do \in {"key", "recipe", "bench"}
                                         /\ c[k].do = "bench" => c[i].what.file = "workbenches"
    <2>1. s[i].what.skip \in Nat /\ i + s[i].what.skip <= Len(s)
      BY <1>4, <1>5, <1>6 DEF Fits
    <2>2. \A k \in Block(s, i) : c[k] = s[k]
      BY <1>1, <1>2, <1>3, <2>1 DEF Block
    <2>3. Block(c, i) = Block(s, i)
      BY <1>5 DEF Block
    <2>4. i + c[i].what.skip <= Len(c)
      BY <1>1, <1>2, <1>3, <1>5, <2>1
    <2>5. \A k \in Block(s, i) : /\ s[k].do \in {"key", "recipe", "bench"}
                                 /\ s[k].do = "bench" => s[i].what.file = "workbenches"
      BY <1>5, <1>6 DEF Fits
    <2>6. ASSUME NEW k \in Block(c, i)
          PROVE  c[k].do \in {"key", "recipe", "bench"} /\ (c[k].do = "bench" => c[i].what.file = "workbenches")
      <3>1. k \in Block(s, i) /\ c[k] = s[k] /\ c[i] = s[i]
        BY <1>5, <2>2, <2>3
      <3> QED BY <2>5, <3>1
    <2> QED BY <2>4, <2>6
  <1>7. s[i].do = "recipe" => i # 1 /\ c[i - 1] = s[i - 1]
    <2>1. s[i].do = "recipe" => i # 1
      BY <1>5 DEF Fits
    <2>2. i # 1 => i - 1 \in 1 .. Len(s)
      BY <1>1
    <2> QED BY <1>2, <1>3, <2>1, <2>2
  <1> QED BY <1>3, <1>5, <1>6, <1>7 DEF Fits

LEMMA PartsAppend ==
  ASSUME NEW R, NEW g
  PROVE  <<>> \in Parts(R, g) /\ \A s, t \in Parts(R, g) : s \o t \in Parts(R, g)
  <1>1. <<>> \in Parts(R, g)
    BY DEF Parts
  <1>2. ASSUME NEW s \in Parts(R, g), NEW t \in Parts(R, g) PROVE s \o t \in Parts(R, g)
    <2>1. s \in Seq(StatementsOf) /\ t \in Seq(StatementsOf) /\ Len(s) \in Nat /\ Len(t) \in Nat
      BY DEF Parts
    <2>2. /\ s \o t \in Seq(StatementsOf)
          /\ Len(s \o t) = Len(s) + Len(t)
          /\ \A i \in 1 .. Len(s) : (s \o t)[i] = s[i]
          /\ \A i \in Len(s) + 1 .. Len(s) + Len(t) : (s \o t)[i] = t[i - Len(s)]
          /\ \A j \in 1 .. Len(t) : (s \o t)[j + Len(s)] = t[j]
      BY <2>1
    <2>3. PICK c : c = s \o t
      OBVIOUS
    <2>4. ASSUME NEW x \in StatementsOf, x.do = "lookup" PROVE x.what.skip \in Nat
      BY <2>4 DEF StatementsOf
    <2>5. ASSUME NEW i \in 1 .. Len(s) PROVE Fits(R, g, c, i)
      BY <2>1, <2>3, FitsLeft
    <2>6. ASSUME NEW j \in 1 .. Len(t) PROVE Fits(R, g, c, j + Len(s))
      <3>0. PICK i : i = j + Len(s)
        OBVIOUS
      <3>1. Fits(R, g, t, j) /\ c[i] = t[j] /\ t[j] \in StatementsOf
        BY <2>1, <2>2, <2>3, <3>0 DEF Parts
      <3>2. ASSUME t[j].do = "lookup"
            PROVE  /\ i + c[i].what.skip <= Len(c)
                   /\ \A k \in Block(c, i) : /\ c[k].do \in {"key", "recipe", "bench"}
                                             /\ c[k].do = "bench" => c[i].what.file = "workbenches"
        <4>1. t[j].what.skip \in Nat /\ j + t[j].what.skip <= Len(t)
          BY <2>4, <3>1, <3>2 DEF Fits
        <4>2. \A k \in Block(c, i) : k - Len(s) \in Block(t, j) /\ c[k] = t[k - Len(s)]
          <5> SUFFICES ASSUME NEW k \in Block(c, i) PROVE k - Len(s) \in Block(t, j) /\ c[k] = t[k - Len(s)]
            OBVIOUS
          <5>1. k \in i + 1 .. i + t[j].what.skip
            BY <3>1 DEF Block
          <5>2. k - Len(s) \in j + 1 .. j + t[j].what.skip
            BY <2>1, <3>0, <4>1, <5>1
          <5>3. k \in Len(s) + 1 .. Len(s) + Len(t)
            BY <2>1, <3>0, <4>1, <5>1
          <5> QED BY <2>2, <2>3, <5>2, <5>3 DEF Block
        <4>3. i + c[i].what.skip <= Len(c)
          BY <2>1, <2>2, <2>3, <3>0, <3>1, <4>1
        <4>4. \A k \in Block(t, j) : /\ t[k].do \in {"key", "recipe", "bench"}
                                     /\ t[k].do = "bench" => t[j].what.file = "workbenches"
          BY <3>1, <3>2 DEF Fits
        <4>5. ASSUME NEW k \in Block(c, i)
              PROVE  c[k].do \in {"key", "recipe", "bench"} /\ (c[k].do = "bench" => c[i].what.file = "workbenches")
          <5>1. k - Len(s) \in Block(t, j) /\ c[k] = t[k - Len(s)] /\ c[i] = t[j]
            BY <3>1, <4>2
          <5>2. PICK m : m = k - Len(s)
            OBVIOUS
          <5>3. t[m].do \in {"key", "recipe", "bench"} /\ (t[m].do = "bench" => t[j].what.file = "workbenches")
            BY <4>4, <5>1, <5>2
          <5> QED BY <5>1, <5>2, <5>3
        <4> QED BY <4>3, <4>5
      <3>3. t[j].do = "recipe" => i # 1 /\ c[i - 1] = t[j - 1]
        <4>1. t[j].do = "recipe" => j # 1
          BY <3>1 DEF Fits
        <4>2. j # 1 => j - 1 \in 1 .. Len(t) /\ i - 1 = (j - 1) + Len(s) /\ i # 1
          BY <2>1, <3>0
        <4> QED BY <2>2, <2>3, <4>1, <4>2
      <3> QED BY <3>0, <3>1, <3>2, <3>3 DEF Fits
    <2>7. ASSUME NEW i \in 1 .. Len(c) PROVE Fits(R, g, c, i)
      <3>1. i \in 1 .. Len(s) \/ (i - Len(s) \in 1 .. Len(t) /\ i = (i - Len(s)) + Len(s))
        BY <2>1, <2>2, <2>3
      <3>2. PICK j : j = i - Len(s)
        OBVIOUS
      <3> QED BY <2>5, <2>6, <3>1, <3>2
    <2> QED BY <2>2, <2>3, <2>7 DEF Parts
  <1> QED BY <1>1, <1>2

LEMMA StatementIn ==
  ASSUME NEW R, NEW do, NEW what, [do |-> do, what |-> what] \in StatementsOf,
         do \notin {"refresh", "lookup", "purge", "recipe"}
  PROVE  /\ Statement(do, what) \in Parts(R, FALSE)
         /\ do \in {"key", "bench"} => Statement(do, what) \in Seq(Inner)
  <1> DEFINE x == [do |-> do, what |-> what]
  <1>1. x.do = do
    OBVIOUS
  <1> HIDE DEF x
  <1>2. <<x>> \in Seq(StatementsOf) /\ Len(<<x>>) = 1 /\ <<x>>[1] = x
    BY DEF x
  <1>3. <<x>> \in Parts(R, FALSE)
    BY <1>1, <1>2 DEF Parts, Fits
  <1>4. do \in {"key", "bench"} => <<x>> \in Seq(Inner)
    <2>1. do \in {"key", "bench"} => x \in Inner
      BY <1>1 DEF Inner, x
    <2> QED BY <2>1
  <1> QED BY <1>3, <1>4 DEF Statement, x

LEMMA InnerIn ==
  ASSUME NEW R
  PROVE  Seq(Inner) \subseteq Parts(R, FALSE)
  <1> SUFFICES ASSUME NEW s \in Seq(Inner) PROVE s \in Parts(R, FALSE)
    OBVIOUS
  <1>1. s \in Seq(StatementsOf) /\ \A i \in 1 .. Len(s) : s[i].do \in {"key", "bench"}
    BY DEF Inner
  <1> QED BY <1>1 DEF Parts, Fits

(* The lookup of a recipe type, and the recipe.                              *)
LEMMA LookupRecipeIn ==
  ASSUME NEW R \in SUBSET RecipeFiles, NEW r \in R
  PROVE  /\ Lookup(r.type, r.id, Statement("recipe", r)) \in Parts(R, FALSE)
         /\ Len(Lookup(r.type, r.id, Statement("recipe", r))) = 2
         /\ Lookup(r.type, r.id, Statement("recipe", r))[2] = [do |-> "recipe", what |-> r]
  <1> DEFINE w == [type |-> r.type, file |-> r.id, skip |-> 1]
             x == [do |-> "lookup", what |-> w]
             y == [do |-> "recipe", what |-> r]
             s == <<x>> \o <<y>>
  <1>1. r \in RecipeFiles /\ r.type \in Locs /\ r.id \in Locs
    BY DEF RecipeFiles
  <1>2. w \in [type : Locs, file : Locs \cup {"workbenches"}, skip : Nat] /\ w.skip = 1
    BY <1>1
  <1>3. x \in StatementsOf /\ x.do = "lookup" /\ x.what = w
    BY <1>2 DEF StatementsOf
  <1>4. y \in StatementsOf /\ y.do = "recipe" /\ y.what = r
    BY <1>1 DEF StatementsOf
  <1>5. Lookup(r.type, r.id, Statement("recipe", r)) = s
    <2>1. Len(<<y>>) = 1 /\ Statement("recipe", r) = <<y>>
      BY DEF Statement
    <2>2. Lookup(r.type, r.id, <<y>>) = <<x>> \o <<y>>
      BY <2>1 DEF Lookup, Statement
    <2> QED BY <2>1, <2>2
  <1>6. w.skip = 1 /\ w.type = r.type /\ w.file = r.id
    OBVIOUS
  <1> HIDE DEF x, y
  <1>7. s \in Seq(StatementsOf) /\ Len(s) = 2 /\ s[1] = x /\ s[2] = y
    BY <1>3, <1>4
  <1> HIDE DEF s
  <1>8. Fits(R, FALSE, s, 1)
    <2>1. Block(s, 1) = {2}
      BY <1>3, <1>6, <1>7 DEF Block
    <2> QED BY <1>3, <1>4, <1>6, <1>7, <2>1 DEF Fits
  <1>9. Fits(R, FALSE, s, 2)
    BY <1>3, <1>4, <1>7 DEF Fits
  <1>10. s \in Parts(R, FALSE)
    <2>1. \A i \in 1 .. Len(s) : i = 1 \/ i = 2
      BY <1>7
    <2> QED BY <1>7, <1>8, <1>9, <2>1 DEF Parts
  <1> QED BY <1>5, <1>7, <1>10 DEF y

(* That of a recipe type, and its workbenches.                               *)
LEMMA LookupBenchesIn ==
  ASSUME NEW R, NEW type \in Locs, NEW then \in Seq(Inner)
  PROVE  LET s == Lookup(type, "workbenches", then)
         IN  /\ s \in Parts(R, FALSE) /\ Len(s) = Len(then) + 1
             /\ s[1].do = "lookup" /\ s[1].what.type = type /\ s[1].what.skip = Len(then)
             /\ \A i \in 1 .. Len(then) : s[i + 1] = then[i]
  <1> DEFINE w == [type |-> type, file |-> "workbenches", skip |-> Len(then)]
             x == [do |-> "lookup", what |-> w]
             s == <<x>> \o then
  <1>1. then \in Seq(StatementsOf) /\ Len(then) \in Nat /\ \A i \in 1 .. Len(then) : then[i].do \in {"key", "bench"}
    BY DEF Inner
  <1>2. w \in [type : Locs, file : Locs \cup {"workbenches"}, skip : Nat]
    BY <1>1
  <1>3. x \in StatementsOf /\ x.do = "lookup" /\ x.what.skip = Len(then) /\ x.what.file = "workbenches"
        /\ x.what.type = type
    BY <1>2 DEF StatementsOf
  <1> HIDE DEF x
  <1>4. /\ s \in Seq(StatementsOf) /\ Len(s) = Len(then) + 1 /\ s[1] = x
        /\ \A i \in 2 .. Len(s) : i - 1 \in 1 .. Len(then) /\ s[i] = then[i - 1]
        /\ \A i \in 1 .. Len(then) : s[i + 1] = then[i]
    BY <1>1, <1>3
  <1> HIDE DEF s
  <1>5. ASSUME NEW i \in 1 .. Len(s) PROVE Fits(R, FALSE, s, i)
    <2>1. \A k \in 2 .. Len(s) : s[k].do \in {"key", "bench"}
      BY <1>1, <1>4
    <2>2. CASE i = 1
      <3>1. Block(s, 1) \subseteq 2 .. Len(s) /\ 1 + s[1].what.skip <= Len(s)
        BY <1>1, <1>3, <1>4 DEF Block
      <3> QED BY <1>3, <1>4, <2>1, <2>2, <3>1 DEF Fits
    <2>3. CASE i # 1
      <3>1. s[i].do \in {"key", "bench"}
        BY <1>1, <1>4, <2>1, <2>3
      <3> QED BY <3>1 DEF Fits
    <2> QED BY <2>2, <2>3
  <1>6. s \in Parts(R, FALSE)
    BY <1>4, <1>5 DEF Parts
  <1>7. Lookup(type, "workbenches", then) = s
    BY DEF Lookup, Statement, s, x
  <1> QED BY <1>3, <1>4, <1>6, <1>7

LEMMA FlattenParts ==
  ASSUME NEW R, NEW n \in Nat, NEW q, q = [i \in 1 .. n |-> q[i]], \A i \in 1 .. n : q[i] \in Parts(R, FALSE)
  PROVE  FlattenSeq(q) \in Parts(R, FALSE)
  <1> DEFINE X == Parts(R, FALSE)
  <1>1. <<>> \in X /\ \A s, t \in X : s \o t \in X
    BY PartsAppend
  <1>0. \A i \in 1 .. n : q[i] \in X
    OBVIOUS
  <1> HIDE DEF X
  <1>2. q \in Seq(X)
    BY <1>0
  <1>3. FlattenSeq(q) \in X
    BY <1>1, <1>2, FlattenIn
  <1> QED BY <1>3 DEF X

LEMMA AddProjectItemIn ==
  ASSUME NEW R, NEW l \in Locs
  PROVE  AddProjectItem(l) \in Parts(R, FALSE) /\ AddProjectItem(l) \in Seq(Inner)
  <1>1. \A t \in Tables : Key(t, l) \in Seq(Inner)
    BY StatementIn DEF StatementsOf, Tables, Key
  <1>2. Key("item", l) \in Seq(Inner) /\ Key("builtin", l) \in Seq(Inner) /\ <<>> \in Seq(Inner)
    BY <1>1 DEF Tables
  <1>3. AddProjectItem(l) \in Seq(Inner)
    BY <1>2 DEF AddProjectItem
  <1> QED BY <1>3, InnerIn

LEMMA AddProjectTagIn ==
  ASSUME NEW R, NEW l \in Locs
  PROVE  AddProjectTag(l) \in Parts(R, FALSE)
  BY StatementIn DEF StatementsOf, Tables, AddProjectTag, Key

LEMMA EachItemIn ==
  ASSUME NEW R, NEW S \in SUBSET Locs
  PROVE  ForEach(S, AddProjectItem) \in Parts(R, FALSE)
  <1> DEFINE q == [i \in 1 .. Cardinality(S) |-> AddProjectItem(InOrder(S)[i])]
  <1>1. \A i \in 1 .. Cardinality(S) : InOrder(S)[i] \in Locs
    BY InOrderIsListing
  <1>2. \A i \in 1 .. Cardinality(S) : q[i] \in Parts(R, FALSE)
    BY <1>1, AddProjectItemIn
  <1>3. FlattenSeq(q) \in Parts(R, FALSE)
    <2>1. q = [i \in 1 .. Cardinality(S) |-> q[i]] /\ Cardinality(S) \in Nat
      BY InOrderIsListing
    <2> HIDE DEF q
    <2> QED BY <1>2, <2>1, FlattenParts
  <1> QED BY <1>3 DEF ForEach

LEMMA EachTagIn ==
  ASSUME NEW R, NEW S \in SUBSET Locs
  PROVE  ForEach(S, AddProjectTag) \in Parts(R, FALSE)
  <1> DEFINE q == [i \in 1 .. Cardinality(S) |-> AddProjectTag(InOrder(S)[i])]
  <1>1. \A i \in 1 .. Cardinality(S) : InOrder(S)[i] \in Locs
    BY InOrderIsListing
  <1>2. \A i \in 1 .. Cardinality(S) : q[i] \in Parts(R, FALSE)
    BY <1>1, AddProjectTagIn
  <1>3. FlattenSeq(q) \in Parts(R, FALSE)
    <2>1. q = [i \in 1 .. Cardinality(S) |-> q[i]] /\ Cardinality(S) \in Nat
      BY InOrderIsListing
    <2> HIDE DEF q
    <2> QED BY <1>2, <2>1, FlattenParts
  <1> QED BY <1>3 DEF ForEach

LEMMA AddTagEntriesIn ==
  ASSUME NEW R, NEW c, IsCheckout(c), NEW t \in DOMAIN c.tags
  PROVE  AddTagEntries(c, t) \in Parts(R, FALSE)
  <1> DEFINE S == TagsIn(c, t)
             Child(u) == AddProjectTag(u) \o Statement("entry", <<t, u>>)
             q == [i \in 1 .. Cardinality(S) |-> Child(InOrder(S)[i])]
  <1>1. t \in Locs /\ S \in SUBSET Locs /\ ItemsIn(c, t) \in SUBSET Locs
    BY DEF IsCheckout, TagsIn, ItemsIn, Values
  <1>2. ASSUME NEW u \in Locs PROVE Child(u) \in Parts(R, FALSE)
    <2>1. Statement("entry", <<t, u>>) \in Parts(R, FALSE)
      BY <1>1, StatementIn DEF StatementsOf
    <2> QED BY <2>1, AddProjectTagIn, PartsAppend
  <1> HIDE DEF S
  <1>3. \A i \in 1 .. Cardinality(S) : q[i] \in Parts(R, FALSE)
    BY <1>1, <1>2, InOrderIsListing
  <1>4. FlattenSeq(q) \in Parts(R, FALSE)
    <2>1. q = [i \in 1 .. Cardinality(S) |-> q[i]] /\ Cardinality(S) \in Nat
      BY <1>1, InOrderIsListing
    <2> HIDE DEF q
    <2> QED BY <1>3, <2>1, FlattenParts
  <1>5. ForEach(ItemsIn(c, t), AddProjectItem) \in Parts(R, FALSE)
    BY <1>1, EachItemIn
  <1>6. AddTagEntries(c, t) = FlattenSeq(q) \o ForEach(ItemsIn(c, t), AddProjectItem)
    BY DEF AddTagEntries, ForEach, S
  <1> QED BY <1>4, <1>5, <1>6, PartsAppend

(* That a script has a statement, or that of a workbench in the block of the *)
(* lookup of its recipe type.                                                *)
Says(x) == {s \in Seq(StatementsOf) : \E i \in 1 .. Len(s) : s[i] = x}
BenchesAt(s, i, k, type, l) ==
    /\ s[i].do = "lookup" /\ s[i].what.type = type /\ k \in Block(s, i)
    /\ s[k] = [do |-> "bench", what |-> l]
Benched(type, l) ==
    {s \in Seq(StatementsOf) : \E i, k \in 1 .. Len(s) : BenchesAt(s, i, k, type, l)}

LEMMA Appended ==
  ASSUME NEW s \in Seq(StatementsOf), NEW t \in Seq(StatementsOf)
  PROVE  /\ s \o t \in Seq(StatementsOf) /\ Len(s \o t) = Len(s) + Len(t)
         /\ Len(s) \in Nat /\ Len(t) \in Nat
         /\ \A i \in 1 .. Len(s) : i \in 1 .. Len(s \o t) /\ (s \o t)[i] = s[i]
         /\ \A i \in 1 .. Len(t) : i + Len(s) \in 1 .. Len(s \o t) /\ (s \o t)[i + Len(s)] = t[i]
  OBVIOUS

LEMMA SaysAbsorbs ==
  ASSUME NEW x
  PROVE  Absorbs(Says(x), Seq(StatementsOf))
  <1> SUFFICES ASSUME NEW s \in Says(x), NEW t \in Seq(StatementsOf)
               PROVE  s \o t \in Says(x) /\ t \o s \in Says(x)
    BY DEF Absorbs
  <1>1. PICK i \in 1 .. Len(s) : s[i] = x
    BY DEF Says
  <1>2. s \in Seq(StatementsOf)
    BY DEF Says
  <1>3. s \o t \in Seq(StatementsOf) /\ i \in 1 .. Len(s \o t) /\ (s \o t)[i] = x
    BY <1>1, <1>2, Appended
  <1>4. t \o s \in Seq(StatementsOf) /\ i + Len(t) \in 1 .. Len(t \o s) /\ (t \o s)[i + Len(t)] = x
    BY <1>1, <1>2, Appended
  <1> QED BY <1>3, <1>4 DEF Says

LEMMA BenchedAbsorbs ==
  ASSUME NEW type, NEW l
  PROVE  Absorbs(Benched(type, l), Seq(StatementsOf))
  <1> SUFFICES ASSUME NEW s \in Benched(type, l), NEW t \in Seq(StatementsOf)
               PROVE  s \o t \in Benched(type, l) /\ t \o s \in Benched(type, l)
    BY DEF Absorbs
  <1>1. PICK i \in 1 .. Len(s), k \in 1 .. Len(s) : BenchesAt(s, i, k, type, l)
    BY DEF Benched
  <1>2. s \in Seq(StatementsOf) /\ Len(s) \in Nat /\ Len(t) \in Nat
    BY DEF Benched
  <1>3. s[i].what.skip \in Nat
    <2>1. ASSUME NEW x \in StatementsOf, x.do = "lookup" PROVE x.what.skip \in Nat
      BY <2>1 DEF StatementsOf
    <2> QED BY <1>1, <1>2, <2>1 DEF BenchesAt
  <1>4. s \o t \in Benched(type, l)
    <2>1. PICK c : c = s \o t
      OBVIOUS
    <2>2. c \in Seq(StatementsOf) /\ i \in 1 .. Len(c) /\ k \in 1 .. Len(c) /\ c[i] = s[i] /\ c[k] = s[k]
      BY <1>2, <2>1, Appended
    <2>3. BenchesAt(c, i, k, type, l)
      BY <1>1, <2>2 DEF BenchesAt, Block
    <2> QED BY <2>1, <2>2, <2>3 DEF Benched
  <1>5. t \o s \in Benched(type, l)
    <2>1. PICK c : c = t \o s
      OBVIOUS
    <2>2. PICK m, n : m = i + Len(t) /\ n = k + Len(t)
      OBVIOUS
    <2>3. c \in Seq(StatementsOf) /\ m \in 1 .. Len(c) /\ n \in 1 .. Len(c) /\ c[m] = s[i] /\ c[n] = s[k]
      BY <1>2, <2>1, <2>2, Appended
    <2>4. n \in Block(c, m)
      <3>1. k \in i + 1 .. i + s[i].what.skip
        BY <1>1 DEF BenchesAt, Block
      <3>2. n \in m + 1 .. m + s[i].what.skip
        BY <1>2, <1>3, <2>2, <3>1
      <3> QED BY <2>3, <3>2 DEF Block
    <2>5. BenchesAt(c, m, n, type, l)
      BY <1>1, <2>3, <2>4 DEF BenchesAt
    <2> QED BY <2>1, <2>3, <2>5 DEF Benched
  <1> QED BY <1>4, <1>5

LEMMA FlattenPartsHas ==
  ASSUME NEW R, NEW n \in Nat, NEW q, q = [i \in 1 .. n |-> q[i]], \A i \in 1 .. n : q[i] \in Parts(R, FALSE),
         NEW Y, Absorbs(Y, Seq(StatementsOf)), NEW k \in 1 .. n, q[k] \in Y
  PROVE  FlattenSeq(q) \in Y
  <1> DEFINE X == Parts(R, FALSE)
  <1>1. <<>> \in X /\ \A s, t \in X : s \o t \in X
    BY PartsAppend
  <1>2. Absorbs(Y, X)
    BY DEF Absorbs, Parts
  <1>3. \A i \in 1 .. n : q[i] \in X
    OBVIOUS
  <1> HIDE DEF X
  <1>4. q \in Seq(X) /\ Len(q) = n
    BY <1>3
  <1>5. k \in 1 .. Len(q)
    BY <1>4
  <1>6. FlattenSeq(q) \in Y
    BY <1>1, <1>2, <1>4, <1>5, FlattenHas
  <1> QED BY <1>6

RecipeStatement(r) == [do |-> "recipe", what |-> r]
LEMMA AddRecipesIn ==
  ASSUME NEW c, IsCheckout(c)
  PROVE  AddRecipes(c) \in Parts(c.recipes, FALSE) /\ \A r \in c.recipes : AddRecipes(c) \in Says(RecipeStatement(r))
  <1> DEFINE S == {r.id : r \in c.recipes}
             K == c.recipes
             Of(id) == CHOOSE s \in c.recipes : s.id = id
             Add(id) == LET r == CHOOSE s \in c.recipes : s.id = id
                        IN  Lookup(r.type, id, Statement("recipe", r))
             q == [i \in 1 .. Cardinality(S) |-> Add(InOrder(S)[i])]
  <1>1. S \in SUBSET Locs /\ K \in SUBSET RecipeFiles
    BY DEF IsCheckout, RecipeFiles
  <1>2. ASSUME NEW id \in S
        PROVE  /\ Add(id) \in Parts(K, FALSE)
               /\ \A r \in K : r.id = id => Add(id) \in Says(RecipeStatement(r))
    <2>1. Of(id) \in K /\ Of(id).id = id
      OBVIOUS
    <2>2. \A r \in K : r.id = id => r = Of(id)
      BY <2>1 DEF IsCheckout
    <2>3. PICK o : o = Of(id)
      OBVIOUS
    <2>4. Add(id) = Lookup(o.type, o.id, Statement("recipe", o))
      BY <2>1, <2>3
    <2> HIDE DEF Of, Add, S, K
    <2>5. o \in K
      BY <2>1, <2>3
    <2>6. /\ Add(id) \in Parts(K, FALSE) /\ Len(Add(id)) = 2
          /\ Add(id)[2] = RecipeStatement(o)
      BY <1>1, <2>4, <2>5, LookupRecipeIn DEF RecipeStatement
    <2>7. Add(id) \in Says(RecipeStatement(o))
      <3>1. PICK a : a = Add(id)
        OBVIOUS
      <3>2. a \in Seq(StatementsOf) /\ Len(a) = 2 /\ a[2] = RecipeStatement(o)
        BY <2>6, <3>1 DEF Parts
      <3>3. 2 \in 1 .. Len(a)
        BY <3>2
      <3> QED BY <3>1, <3>2, <3>3 DEF Says
    <2> QED BY <2>2, <2>3, <2>6, <2>7
  <1>3. \A r \in K : r.id \in S
    OBVIOUS
  <1>4. AddRecipes(c) = FlattenSeq(q)
    BY DEF AddRecipes, ForEach
  <1> HIDE DEF S, Add, K
  <1>5. q = [i \in 1 .. Cardinality(S) |-> q[i]] /\ Cardinality(S) \in Nat
    BY <1>1, InOrderIsListing
  <1>6. \A i \in 1 .. Cardinality(S) : q[i] \in Parts(K, FALSE)
    BY <1>1, <1>2, InOrderIsListing
  <1>7. ASSUME NEW r \in K PROVE \E i \in 1 .. Cardinality(S) : q[i] \in Says(RecipeStatement(r))
    <2>1. PICK i \in 1 .. Cardinality(S) : InOrder(S)[i] = r.id
      BY <1>1, <1>3, InOrderIsListing
    <2>2. q[i] = Add(r.id)
      BY <2>1
    <2> HIDE DEF q
    <2> QED BY <1>2, <1>3, <2>2
  <1> HIDE DEF q
  <1>8. FlattenSeq(q) \in Parts(K, FALSE)
    BY <1>5, <1>6, FlattenParts
  <1>9. ASSUME NEW r \in K PROVE FlattenSeq(q) \in Says(RecipeStatement(r))
    <2>1. PICK Y : Y = Says(RecipeStatement(r))
      OBVIOUS
    <2>2. Absorbs(Y, Seq(StatementsOf))
      BY <2>1, SaysAbsorbs
    <2>3. PICK i \in 1 .. Cardinality(S) : q[i] \in Y
      BY <1>7, <2>1
    <2>4. FlattenSeq(q) \in Y
      BY <1>5, <1>6, <2>2, <2>3, FlattenPartsHas
    <2> QED BY <2>1, <2>4
  <1> QED BY <1>4, <1>8, <1>9 DEF K

BenchStatement(l) == [do |-> "bench", what |-> l]
LEMMA AddRecipeWorkbenchesIn ==
  ASSUME NEW R, NEW c, IsCheckout(c)
  PROVE  /\ AddRecipeWorkbenches(c) \in Parts(R, FALSE)
         /\ \A type \in DOMAIN c.benches : \A l \in Range(c.benches[type]) :
               AddRecipeWorkbenches(c) \in Benched(type, l)
  <1> DEFINE S == DOMAIN c.benches
             B(l) == AddProjectItem(l) \o Statement("bench", l)
             each(type) == [i \in DOMAIN c.benches[type] |-> B(c.benches[type][i])]
             Add(type) == Lookup(type, "workbenches", FlattenSeq(each(type)))
             q == [i \in 1 .. Cardinality(S) |-> Add(InOrder(S)[i])]
  <1>1. S \in SUBSET Locs
    BY DEF IsCheckout
  <1>2. ASSUME NEW l \in Locs PROVE B(l) \in Seq(Inner) /\ B(l) \in Says(BenchStatement(l))
    <2> DEFINE x == BenchStatement(l)
    <2>1. x \in Inner /\ Statement("bench", l) = <<x>>
      BY DEF Inner, StatementsOf, Statement, BenchStatement
    <2> HIDE DEF x
    <2>2. AddProjectItem(l) \in Seq(Inner) /\ <<x>> \in Seq(Inner)
      <3>1. AddProjectItem(l) \in Seq(Inner)
        BY AddProjectItemIn
      <3>2. <<x>> \in Seq(Inner)
        BY <2>1
      <3> QED BY <3>1, <3>2
    <2>3. B(l) \in Seq(Inner)
      <3>1. AddProjectItem(l) \o <<x>> \in Seq(Inner)
        BY <2>2
      <3> QED BY <2>1, <3>1
    <2>4. <<x>> \in Says(x) /\ AddProjectItem(l) \in Seq(StatementsOf)
      BY <2>1, <2>2 DEF Says, Inner
    <2>5. AddProjectItem(l) \o <<x>> \in Says(x)
      BY <2>4, SaysAbsorbs DEF Absorbs
    <2> QED BY <2>1, <2>3, <2>5 DEF x
  <1>3. ASSUME NEW type \in S
        PROVE  /\ Add(type) \in Parts(R, FALSE)
               /\ \A l \in Range(c.benches[type]) : Add(type) \in Benched(type, l)
    <2> DEFINE d == c.benches[type]
               e == each(type)
               X == Seq(Inner)
    <2>1. d \in Seq(Locs)
      BY DEF IsCheckout
    <2> HIDE DEF B
    <2>2. Len(d) \in Nat /\ DOMAIN d = 1 .. Len(d) /\ \A i \in 1 .. Len(d) : d[i] \in Locs
      BY <2>1
    <2>3. e = [i \in 1 .. Len(d) |-> e[i]] /\ \A i \in 1 .. Len(d) : e[i] = B(d[i])
      BY <2>2
    <2>4. <<>> \in X /\ \A s, t \in X : s \o t \in X
      OBVIOUS
    <2> HIDE DEF d, e
    <2>5. \A i \in 1 .. Len(d) : e[i] \in X
      BY <1>2, <2>2, <2>3
    <2> HIDE DEF X
    <2>6. e \in Seq(X) /\ Len(e) = Len(d)
      BY <2>2, <2>3, <2>5
    <2>7. FlattenSeq(e) \in X
      BY <2>4, <2>6, FlattenIn
    <2>8. /\ Add(type) \in Parts(R, FALSE) /\ Len(Add(type)) = Len(FlattenSeq(e)) + 1
          /\ Add(type)[1].do = "lookup" /\ Add(type)[1].what.type = type
          /\ Add(type)[1].what.skip = Len(FlattenSeq(e))
          /\ \A i \in 1 .. Len(FlattenSeq(e)) : Add(type)[i + 1] = FlattenSeq(e)[i]
      BY <1>1, <2>7, LookupBenchesIn DEF e, X
    <2>9. ASSUME NEW l \in Range(d) PROVE Add(type) \in Benched(type, l)
      <3>1. PICK Y : Y = Says(BenchStatement(l))
        OBVIOUS
      <3>2. PICK i \in 1 .. Len(d) : d[i] = l
        BY <2>2 DEF Range
      <3>3. e[i] \in Y
        BY <1>2, <2>2, <2>3, <3>1, <3>2
      <3>4. Absorbs(Y, X)
        <4>1. \A s \in X : s \in Seq(StatementsOf)
          BY DEF X, Inner
        <4> QED BY <3>1, <4>1, SaysAbsorbs DEF Absorbs
      <3>5. i \in 1 .. Len(e)
        BY <2>6
      <3>6. FlattenSeq(e) \in Y
        BY <2>4, <2>6, <3>3, <3>4, <3>5, FlattenHas
      <3>7. PICK k \in 1 .. Len(FlattenSeq(e)) : FlattenSeq(e)[k] = BenchStatement(l)
        BY <3>1, <3>6 DEF Says
      <3>8. Len(FlattenSeq(e)) \in Nat
        BY <3>1, <3>6 DEF Says
      <3> HIDE DEF Add
      <3>9. /\ Add(type) \in Seq(StatementsOf)
            /\ 1 \in 1 .. Len(Add(type)) /\ k + 1 \in 1 .. Len(Add(type))
            /\ k + 1 \in 1 + 1 .. 1 + Add(type)[1].what.skip
            /\ Add(type)[k + 1] = BenchStatement(l)
        BY <2>8, <3>7, <3>8 DEF Parts
      <3>10. BenchesAt(Add(type), 1, k + 1, type, l)
        BY <2>8, <3>9 DEF BenchesAt, Block, BenchStatement
      <3> QED BY <3>9, <3>10 DEF Benched
    <2> QED BY <2>8, <2>9 DEF d
  <1>4. AddRecipeWorkbenches(c) = FlattenSeq(q)
    BY DEF AddRecipeWorkbenches, ForEach
  <1> HIDE DEF S, Add
  <1>5. q = [i \in 1 .. Cardinality(S) |-> q[i]] /\ Cardinality(S) \in Nat
    BY <1>1, InOrderIsListing
  <1>6. \A i \in 1 .. Cardinality(S) : q[i] \in Parts(R, FALSE)
    BY <1>1, <1>3, InOrderIsListing
  <1>7. ASSUME NEW type \in S, NEW l \in Range(c.benches[type])
        PROVE  \E i \in 1 .. Cardinality(S) : q[i] \in Benched(type, l)
    <2>1. PICK i \in 1 .. Cardinality(S) : InOrder(S)[i] = type
      BY <1>1, InOrderIsListing
    <2>2. q[i] = Add(type)
      BY <2>1
    <2> HIDE DEF q
    <2> QED BY <1>3, <2>2
  <1> HIDE DEF q
  <1>8. FlattenSeq(q) \in Parts(R, FALSE)
    BY <1>5, <1>6, FlattenParts
  <1>9. ASSUME NEW type \in S, NEW l \in Range(c.benches[type]) PROVE FlattenSeq(q) \in Benched(type, l)
    <2>1. PICK Y : Y = Benched(type, l)
      OBVIOUS
    <2>2. Absorbs(Y, Seq(StatementsOf))
      BY <2>1, BenchedAbsorbs
    <2>3. PICK i \in 1 .. Cardinality(S) : q[i] \in Y
      BY <1>7, <2>1
    <2>4. FlattenSeq(q) \in Y
      BY <1>5, <1>6, <2>2, <2>3, FlattenPartsHas
    <2> QED BY <2>1, <2>4
  <1> QED BY <1>4, <1>8, <1>9 DEF S

(* What a transaction writes, of whatever checkout.                          *)
LEMMA WritesIn ==
  ASSUME NEW c, IsCheckout(c), NEW modid, NEW purge \in BOOLEAN
  PROVE  /\ Writes(c, modid, purge) \in Parts(c.recipes, purge)
         /\ purge => Len(Writes(c, modid, purge)) # 0 /\ Writes(c, modid, purge)[1].do = "purge"
         /\ \A r \in c.recipes : Writes(c, modid, purge) \in Says(RecipeStatement(r))
         /\ \A type \in DOMAIN c.benches : \A l \in Range(c.benches[type]) :
               Writes(c, modid, purge) \in Benched(type, l)
  <1> DEFINE R == c.recipes
             T == DOMAIN c.tags
             Entries(t) == AddTagEntries(c, t)
             q == [i \in 1 .. Cardinality(T) |-> Entries(InOrder(T)[i])]
             s1 == IF purge THEN Statement("purge", {}) ELSE <<>>
             s6 == IF c.types # {} THEN Statement("types", c.types) ELSE <<>>
  <1>1. /\ T \in SUBSET Locs /\ c.pages \in SUBSET Locs
        /\ Candidates(c, modid) \in SUBSET Locs /\ TagIds(c) \in SUBSET Locs
    <2>1. Valid \subseteq Locs
      BY DataAssumption
    <2>2. Candidates(c, modid) \subseteq Valid
      BY DEF Candidates
    <2>3. TagIds(c) \subseteq T \cup Valid
      <3> DEFINE named == UNION {TagsIn(c, t) : t \in T}
      <3>1. TagIds(c) = T \cup (named \cap Valid)
        BY DEF TagIds
      <3> HIDE DEF named
      <3> QED BY <3>1
    <2> QED BY <2>1, <2>2, <2>3 DEF IsCheckout
  <1> HIDE DEF R
  <1>0. \A s \in Parts(R, FALSE) : s \in Parts(R, purge)
    BY DEF Parts, Fits
  <1>2. s1 \in Parts(R, purge)
    <2> DEFINE x == [do |-> "purge", what |-> {}]
    <2>1. x \in StatementsOf /\ x.do = "purge"
      BY DEF StatementsOf
    <2> HIDE DEF x
    <2>2. purge => <<x>> \in Parts(R, purge)
      <3>1. <<x>> \in Seq(StatementsOf) /\ Len(<<x>>) = 1 /\ <<x>>[1] = x
        BY <2>1
      <3> QED BY <2>1, <3>1 DEF Parts, Fits
    <2>3. <<>> \in Parts(R, purge)
      BY PartsAppend
    <2> QED BY <2>2, <2>3 DEF Statement, x
  <1>3. /\ ForEach(Candidates(c, modid), AddProjectItem) \in Parts(R, purge)
        /\ ForEach(c.pages, AddProjectItem) \in Parts(R, purge)
    BY <1>0, <1>1, EachItemIn
  <1>4. ForEach(TagIds(c), AddProjectTag) \in Parts(R, purge)
    BY <1>0, <1>1, EachTagIn
  <1>5. ForEach(T, Entries) \in Parts(R, purge)
    <2>1. \A i \in 1 .. Cardinality(T) : q[i] \in Parts(R, FALSE)
      BY <1>1, InOrderIsListing, AddTagEntriesIn
    <2>2. q = [i \in 1 .. Cardinality(T) |-> q[i]] /\ Cardinality(T) \in Nat
      BY <1>1, InOrderIsListing
    <2>3. FlattenSeq(q) = ForEach(T, Entries)
      BY DEF ForEach
    <2> HIDE DEF q
    <2> QED BY <1>0, <2>1, <2>2, <2>3, FlattenParts
  <1>6. s6 \in Parts(R, purge)
    BY <1>0, StatementIn, PartsAppend DEF StatementsOf, IsCheckout
  <1>7. Writes(c, modid, purge) =
          s1 \o ForEach(Candidates(c, modid), AddProjectItem) \o ForEach(c.pages, AddProjectItem)
          \o ForEach(TagIds(c), AddProjectTag) \o ForEach(T, Entries) \o s6
          \o AddRecipes(c) \o AddRecipeWorkbenches(c)
    BY DEF Writes
  <1> DEFINE a == s1 \o ForEach(Candidates(c, modid), AddProjectItem) \o ForEach(c.pages, AddProjectItem)
             b == a \o ForEach(TagIds(c), AddProjectTag) \o ForEach(T, Entries)
             d == AddRecipes(c)
             e == AddRecipeWorkbenches(c)
             all == Writes(c, modid, purge)
  <1>8. purge => a = Statement("purge", {}) \o (ForEach(Candidates(c, modid), AddProjectItem)
                                                \o ForEach(c.pages, AddProjectItem))
    <2>1. \A s \in Parts(R, purge) : s \in Seq(StatementsOf)
      BY DEF Parts
    <2>2. \A s, t, u \in Seq(StatementsOf) : (s \o t) \o u = s \o (t \o u)
      OBVIOUS
    <2> QED BY <1>2, <1>3, <2>1, <2>2
  <1> HIDE DEF s1, s6
  <1>9. a \in Parts(R, purge)
    BY <1>2, <1>3, PartsAppend
  <1>10. b \in Parts(R, purge)
    <2> HIDE DEF a
    <2> QED BY <1>4, <1>5, <1>9, PartsAppend
  <1>11. all = ((b \o s6) \o d) \o e
    BY <1>7
  <1>12. /\ d \in Parts(R, FALSE) /\ \A r \in R : d \in Says(RecipeStatement(r))
         /\ e \in Parts(R, FALSE)
         /\ \A type \in DOMAIN c.benches : \A l \in Range(c.benches[type]) : e \in Benched(type, l)
    BY AddRecipesIn, AddRecipeWorkbenchesIn DEF R
  <1> HIDE DEF b, d, e, all
  <1>13. b \o s6 \in Parts(R, purge) /\ d \in Parts(R, purge) /\ e \in Parts(R, purge)
    BY <1>0, <1>6, <1>10, <1>12, PartsAppend
  <1>14. (b \o s6) \o d \in Parts(R, purge)
    BY <1>13, PartsAppend
  <1>15. all \in Parts(R, purge)
    BY <1>11, <1>13, <1>14, PartsAppend
  <1>16. \A s \in Parts(R, purge) : s \in Seq(StatementsOf)
    BY DEF Parts
  <1>17. ASSUME NEW r \in R PROVE all \in Says(RecipeStatement(r))
    <2>1. (b \o s6) \o d \in Says(RecipeStatement(r))
      BY <1>12, <1>13, <1>16, SaysAbsorbs DEF Absorbs
    <2> QED BY <1>11, <1>13, <1>16, <2>1, SaysAbsorbs DEF Absorbs
  <1>18. ASSUME NEW type \in DOMAIN c.benches, NEW l \in Range(c.benches[type]) PROVE all \in Benched(type, l)
    BY <1>11, <1>12, <1>14, <1>16, BenchedAbsorbs DEF Absorbs
  <1>19. ASSUME purge PROVE Len(all) # 0 /\ all[1].do = "purge"
    <2> DEFINE x == [do |-> "purge", what |-> {}]
               Y == {s \in Seq(StatementsOf) : s # <<>> /\ s[1] = x}
    <2>1. \A s \in Y, t \in Seq(StatementsOf) : s \o t \in Y
      <3> SUFFICES ASSUME NEW s \in Y, NEW t \in Seq(StatementsOf) PROVE s \o t \in Y
        OBVIOUS
      <3> HIDE DEF x
      <3>1. s \in Seq(StatementsOf) /\ 1 \in 1 .. Len(s) /\ s[1] = x
        OBVIOUS
      <3>2. s \o t \in Seq(StatementsOf) /\ 1 \in 1 .. Len(s \o t) /\ (s \o t)[1] = x
        BY <3>1, Appended
      <3>3. s \o t # <<>>
        BY <3>2
      <3> QED BY <3>2, <3>3
    <2>2. Statement("purge", {}) \in Y
      <3>1. x \in StatementsOf /\ Statement("purge", {}) = <<x>>
        BY DEF StatementsOf, Statement
      <3> HIDE DEF x
      <3>2. <<x>> \in Seq(StatementsOf) /\ <<x>> # <<>> /\ <<x>>[1] = x
        BY <3>1
      <3> QED BY <3>1, <3>2
    <2> HIDE DEF Y
    <2>3. ForEach(Candidates(c, modid), AddProjectItem) \o ForEach(c.pages, AddProjectItem) \in Seq(StatementsOf)
      BY <1>3, <1>16
    <2>4. a \in Y
      BY <1>8, <1>19, <2>1, <2>2, <2>3
    <2> HIDE DEF a
    <2>5. b \in Y
      BY <1>4, <1>5, <1>16, <2>1, <2>4 DEF b
    <2>6. all \in Y
      BY <1>6, <1>11, <1>13, <1>16, <2>1, <2>5
    <2>7. all \in Seq(StatementsOf) /\ all # <<>> /\ all[1] = x
      BY <2>6 DEF Y
    <2>8. x.do = "purge"
      OBVIOUS
    <2> HIDE DEF x
    <2> QED BY <2>7, <2>8
  <1> QED BY <1>15, <1>17, <1>18, <1>19 DEF R, all

(* The finish phases come last: best, then flat.                             *)
LEMMA RefreshesAre ==
  ASSUME NEW c
  PROVE  LET s == Refreshes(c)
             r(k) == [do |-> "refresh", what |-> k]
         IN  /\ s \in Seq(StatementsOf) /\ Len(s) \in 0 .. 2
             /\ \A i \in 1 .. Len(s) : \E k \in Views : s[i] = r(k)
             /\ \A i \in 1 .. Len(s) : s[i].what = "flat" <=> i = Len(s) /\ TagIds(c) # {}
             /\ TagIds(c) # {} => Len(s) # 0
             /\ \A i, j \in 1 .. Len(s) : s[i].what = s[j].what => i = j
  <1> DEFINE b == [do |-> "refresh", what |-> "best"]
             f == [do |-> "refresh", what |-> "flat"]
  <1>1. b \in StatementsOf /\ f \in StatementsOf /\ b.what = "best" /\ f.what = "flat"
    BY DEF StatementsOf, Views
  <1>2. Refreshes(c) = (IF c.pages # {} THEN <<b>> ELSE <<>>) \o (IF TagIds(c) # {} THEN <<f>> ELSE <<>>)
    BY DEF Refreshes, Statement
  <1>3. b = [do |-> "refresh", what |-> "best"] /\ f = [do |-> "refresh", what |-> "flat"]
    OBVIOUS
  <1> HIDE DEF b, f
  <1>4. CASE c.pages = {} /\ TagIds(c) = {}
    BY <1>1, <1>2, <1>4 DEF Views
  <1>5. CASE c.pages # {} /\ TagIds(c) = {}
    <2>1. Refreshes(c) = <<b>>
      BY <1>2, <1>5
    <2> QED BY <1>1, <1>3, <1>5, <2>1 DEF Views
  <1>6. CASE c.pages = {} /\ TagIds(c) # {}
    <2>1. Refreshes(c) = <<f>>
      BY <1>2, <1>6
    <2> QED BY <1>1, <1>3, <1>6, <2>1 DEF Views
  <1>7. CASE c.pages # {} /\ TagIds(c) # {}
    <2> DEFINE s == Refreshes(c)
    <2>1. s = <<b>> \o <<f>>
      BY <1>2, <1>7
    <2>2. s \in Seq(StatementsOf) /\ Len(s) = 2 /\ s[1] = b /\ s[2] = f
      BY <1>1, <2>1
    <2> HIDE DEF s
    <2>3. \A i \in 1 .. Len(s) : i = 1 \/ i = 2
      BY <2>2
    <2> QED BY <1>1, <1>3, <1>7, <2>2, <2>3 DEF Views, s
  <1> QED BY <1>4, <1>5, <1>6, <1>7

(* The script of an open transaction.                                        *)
Wrote(p) == Len(Writing(p))
ScriptIs(p) ==
    LET s == ScriptOf(p)
        n == Wrote(p)
    IN  /\ s \in Seq(StatementsOf) /\ n \in Nat /\ Len(s) \in n .. n + 2
        /\ \A i \in 1 .. n : /\ s[i].do # "refresh"
                             /\ s[i].do = "lookup" => i + s[i].what.skip <= n
                             /\ s[i].do = "purge" => phase[p] = "default"
        /\ \A i \in n + 1 .. Len(s) : s[i].do = "refresh" /\ s[i].what \in Views
        /\ \A i \in n + 1 .. Len(s) : s[i].what = "flat" <=> i = Len(s) /\ TagIds(Files[Source(p)]) # {}
        /\ TagIds(Files[Source(p)]) # {} => Len(s) # n
        /\ \A i, j \in n + 1 .. Len(s) : s[i].what = s[j].what => i = j

LEMMA SourceIn == ASSUME Types, NEW p \in Projects PROVE Source(p) \in DOMAIN Files /\ IsCheckout(Files[Source(p)])
  BY IngestionAssumption DEF Types, Source

LEMMA ScriptShape ==
  ASSUME Types, NEW p \in Projects, phase[p] \in {"default", "named"}
  PROVE  ScriptIs(p)
  <1> DEFINE c == Files[Source(p)]
             w == Writing(p)
             r == Refreshes(c)
             s == ScriptOf(p)
  <1>1. IsCheckout(c)
    BY SourceIn
  <1>2. w \in Parts(c.recipes, phase[p] = "default")
    BY <1>1, WritesIn DEF Writing
  <1>3. s = w \o r
    <2>1. Source(p) \in DOMAIN Files /\ (phase[p] = "default") \in BOOLEAN
      BY SourceIn
    <2> QED BY <2>1 DEF ScriptOf, Scripts, Script, Writing
  <1>4. /\ w \in Seq(StatementsOf) /\ Len(w) \in Nat
        /\ \A i \in 1 .. Len(w) : /\ w[i].do # "refresh"
                                  /\ w[i].do = "lookup" => i + w[i].what.skip <= Len(w)
                                  /\ w[i].do = "purge" => phase[p] = "default"
    <2>1. w \in Seq(StatementsOf) /\ \A i \in 1 .. Len(w) : Fits(c.recipes, phase[p] = "default", w, i)
      BY <1>2 DEF Parts
    <2> HIDE DEF w, c
    <2>2. Len(w) \in Nat
      BY <2>1
    <2>3. ASSUME NEW i \in 1 .. Len(w)
          PROVE  /\ w[i].do # "refresh"
                 /\ w[i].do = "lookup" => i + w[i].what.skip <= Len(w)
                 /\ w[i].do = "purge" => phase[p] = "default"
      BY <2>1, <2>3 DEF Fits
    <2> QED BY <2>1, <2>2, <2>3
  <1>5. /\ r \in Seq(StatementsOf) /\ Len(r) \in 0 .. 2
        /\ \A i \in 1 .. Len(r) : \E k \in Views : r[i] = [do |-> "refresh", what |-> k]
        /\ \A i \in 1 .. Len(r) : r[i].what = "flat" <=> i = Len(r) /\ TagIds(c) # {}
        /\ TagIds(c) # {} => Len(r) # 0
        /\ \A i, j \in 1 .. Len(r) : r[i].what = r[j].what => i = j
    BY RefreshesAre
  <1> HIDE DEF w, r, s, c
  <1>6. /\ s \in Seq(StatementsOf) /\ Len(s) = Len(w) + Len(r)
        /\ \A i \in 1 .. Len(w) : s[i] = w[i]
        /\ \A i \in Len(w) + 1 .. Len(s) : i - Len(w) \in 1 .. Len(r) /\ s[i] = r[i - Len(w)]
    BY <1>3, <1>4, <1>5
  <1>7. ASSUME NEW i \in 1 .. Len(r) PROVE r[i].do = "refresh" /\ r[i].what \in Views
    <2>1. PICK k \in Views : r[i] = [do |-> "refresh", what |-> k]
      BY <1>5
    <2> QED BY <2>1
  <1>8. \A i \in Len(w) + 1 .. Len(s) : s[i].do = "refresh" /\ s[i].what \in Views
    BY <1>6, <1>7
  <1>9. \A i \in Len(w) + 1 .. Len(s) : s[i].what = "flat" <=> i = Len(s) /\ TagIds(c) # {}
    <2> SUFFICES ASSUME NEW i \in Len(w) + 1 .. Len(s) PROVE s[i].what = "flat" <=> i = Len(s) /\ TagIds(c) # {}
      OBVIOUS
    <2>1. i - Len(w) = Len(r) <=> i = Len(s)
      BY <1>4, <1>5, <1>6
    <2> QED BY <1>5, <1>6, <2>1
  <1>10. \A i, j \in Len(w) + 1 .. Len(s) : s[i].what = s[j].what => i = j
    <2> SUFFICES ASSUME NEW i \in Len(w) + 1 .. Len(s), NEW j \in Len(w) + 1 .. Len(s), s[i].what = s[j].what
                 PROVE  i = j
      OBVIOUS
    <2> DEFINE a == i - Len(w)
               b == j - Len(w)
    <2>2. a \in 1 .. Len(r) /\ b \in 1 .. Len(r) /\ r[a].what = r[b].what
      BY <1>6
    <2> HIDE DEF a, b
    <2>3. a = b
      BY <1>5, <2>2
    <2>1. i - Len(w) = j - Len(w)
      BY <2>3 DEF a, b
    <2> QED BY <1>4, <1>6, <2>1
  <1>11. TagIds(c) # {} => Len(s) # Len(w)
    BY <1>4, <1>5, <1>6
  <1>12. Len(s) \in Len(w) .. Len(w) + 2
    BY <1>4, <1>5, <1>6
  <1> QED BY <1>4, <1>6, <1>8, <1>9, <1>10, <1>11, <1>12 DEF ScriptIs, Wrote, w, s, c

(* What is written: the whole of the checkout, each statement in its place.  *)
LEMMA ScriptFits ==
  ASSUME Types, NEW p \in Projects, phase[p] \in {"default", "named"}
  PROVE  LET s == ScriptOf(p)
             c == Files[Source(p)]
         IN  /\ \A i \in 1 .. Wrote(p) : Fits(c.recipes, phase[p] = "default", s, i)
             /\ \A i \in Wrote(p) + 1 .. Len(s) : s[i].do = "refresh"
             /\ phase[p] = "default" => Wrote(p) # 0 /\ s[1].do = "purge"
             /\ \A r \in c.recipes : \E i \in 1 .. Wrote(p) : s[i] = RecipeStatement(r)
             /\ \A type \in DOMAIN c.benches : \A l \in Range(c.benches[type]) :
                   \E i, k \in 1 .. Wrote(p) : BenchesAt(s, i, k, type, l)
  <1> DEFINE c == Files[Source(p)]
             g == phase[p] = "default"
             w == Writing(p)
             r == Refreshes(c)
             s == ScriptOf(p)
  <1>1. IsCheckout(c)
    BY SourceIn
  <1>2. /\ w \in Parts(c.recipes, g)
        /\ g => Len(w) # 0 /\ w[1].do = "purge"
        /\ \A x \in c.recipes : w \in Says(RecipeStatement(x))
        /\ \A type \in DOMAIN c.benches : \A l \in Range(c.benches[type]) : w \in Benched(type, l)
    <2>1. g \in BOOLEAN
      OBVIOUS
    <2>2. PICK m, u : m = Modid[p] /\ u = g
      OBVIOUS
    <2>3. w = Writes(c, m, u)
      BY <2>2 DEF Writing
    <2> HIDE DEF c, w, g
    <2> QED BY <1>1, <2>1, <2>2, <2>3, WritesIn
  <1>3. s = w \o r
    <2>1. Source(p) \in DOMAIN Files /\ g \in BOOLEAN
      BY SourceIn
    <2> QED BY <2>1 DEF ScriptOf, Scripts, Script, Writing
  <1>4. r \in Seq(StatementsOf)
    BY RefreshesAre
  <1>5. ScriptIs(p)
    BY ScriptShape
  <1>6. Wrote(p) = Len(w)
    BY DEF Wrote
  <1> HIDE DEF w, r, s, g, c
  <1>7. w \in Seq(StatementsOf)
    BY <1>2 DEF Parts
  <1>8. Len(w) \in Nat /\ \A i \in 1 .. Len(w) : s[i] = w[i]
    BY <1>3, <1>4, <1>7, Appended
  <1>9. \A i \in 1 .. Wrote(p) : Fits(c.recipes, g, s, i)
    BY <1>2, <1>3, <1>4, <1>6, FitsLeft
  <1>10. \A i \in Wrote(p) + 1 .. Len(s) : s[i].do = "refresh"
    BY <1>5 DEF ScriptIs, s
  <1>11. g => Wrote(p) # 0 /\ s[1].do = "purge"
    <2>1. Len(w) # 0 => 1 \in 1 .. Len(w)
      BY <1>8
    <2> QED BY <1>2, <1>6, <1>8, <2>1
  <1>12. \A x \in c.recipes : \E i \in 1 .. Wrote(p) : s[i] = RecipeStatement(x)
    BY <1>2, <1>6, <1>8 DEF Says
  <1>13. ASSUME NEW type \in DOMAIN c.benches, NEW l \in Range(c.benches[type])
         PROVE  \E i, k \in 1 .. Wrote(p) : BenchesAt(s, i, k, type, l)
    <2>1. PICK i \in 1 .. Len(w), k \in 1 .. Len(w) : BenchesAt(w, i, k, type, l)
      BY <1>2 DEF Benched
    <2>2. BenchesAt(s, i, k, type, l)
      BY <1>8, <2>1 DEF BenchesAt, Block
    <2> QED BY <1>6, <2>2
  <1> QED BY <1>9, <1>10, <1>11, <1>12, <1>13 DEF s, c, g

LEMMA RevalidationShape ==
  ASSUME NEW p, phase[p] = "revalidate"
  PROVE  /\ ScriptOf(p) \in Seq(StatementsOf) /\ Len(ScriptOf(p)) = 1
         /\ ScriptOf(p)[1].do = "refresh" /\ ScriptOf(p)[1].what = "best"
  <1> DEFINE b == [do |-> "refresh", what |-> "best"]
  <1>1. ScriptOf(p) = <<b>> /\ b \in StatementsOf /\ b.do = "refresh" /\ b.what = "best"
    BY DEF ScriptOf, Statement, StatementsOf, Views
  <1> HIDE DEF b
  <1> QED BY <1>1

-----------------------------------------------------------------------------
LEMMA ScriptSame ==
  ASSUME UNCHANGED <<job, phase>>, NEW p
  PROVE  /\ ScriptOf(p)' = ScriptOf(p) /\ Writing(p)' = Writing(p) /\ Wrote(p)' = Wrote(p)
         /\ Open(p)' = Open(p) /\ Source(p)' = Source(p) /\ Version(p)' = Version(p)
  BY DEF ScriptOf, Writing, Wrote, Source, Open, Version

(* A step of one transaction that changes no rows.                           *)
Locally(p, t) ==
    /\ Open(p) /\ t \in TxOf
    /\ tx' = [tx EXCEPT ![p] = t]
    /\ UNCHANGED <<databaseVars, count, job, phase>>
    /\ faults' \in 0 .. MaxFaults /\ faults <= faults'

LEMMA LocalTypes ==
  ASSUME Types, NEW p \in Projects, NEW t, Locally(p, t), t.step <= Len(ScriptOf(p)) + 1
  PROVE  Types'
  <1> USE DEF Locally, databaseVars
  <1>1. tx' \in [Projects -> TxOf]
    BY DEF Types
  <1>2. ASSUME NEW q \in Projects, Open(q)' PROVE tx'[q].step \in 1 .. Len(ScriptOf(q)') + 1
    <2>1. ScriptOf(q)' = ScriptOf(q) /\ Open(q)
      BY <1>2, ScriptSame
    <2>2. CASE q = p
      <3>1. t.step \in Nat \ {0} /\ tx'[p] = t
        BY DEF Types, TxOf
      <3>2. Len(ScriptOf(p)) \in Nat
        <4>1. CASE phase[p] = "revalidate"
          BY <4>1, RevalidationShape
        <4>2. CASE phase[p] # "revalidate"
          <5>1. phase[p] \in {"default", "named"}
            BY <4>2 DEF Types, Open
          <5> QED BY <5>1, ScriptShape DEF ScriptIs
        <4> QED BY <4>1, <4>2
      <3> QED BY <2>1, <2>2, <3>1, <3>2
    <2>3. CASE q # p
      BY <2>1, <2>3 DEF Types
    <2> QED BY <2>2, <2>3
  <1> QED BY <1>1, <1>2 DEF Types

(* A step that is none of the refreshes does not change who has a snapshot.  *)
Quietly(p, t) == Locally(p, t) /\ ~At(p, "refresh") /\ t.turn = 0 /\ t.views = tx[p].views

LEMMA SnapshotsStay ==
  ASSUME Types, NEW p \in Projects, NEW t, Quietly(p, t), NEW q \in Projects, NEW k
  PROVE  /\ HoldsView(q, k)' = HoldsView(q, k)
         /\ Queues(q, k)' = Queues(q, k)
         /\ Has(q, k)' = Has(q, k)
         /\ Has(q, k) => GensFor(q, k)' = GensFor(q, k)
         /\ Queues(q, k) => tx'[q].turn = tx[q].turn
         /\ tx'[q].views = tx[q].views
  <1> USE DEF Quietly, Locally
  <1>1. tx'[q].views = tx[q].views /\ (q # p => tx'[q] = tx[q]) /\ (q = p => tx'[q].turn = 0)
    BY DEF Types
  <1>2. HoldsView(q, k)' = HoldsView(q, k)
    BY <1>1 DEF HoldsView
  <1>3. Queues(q, k)' = Queues(q, k)
    <2>1. CASE q = p
      BY <1>1, <2>1 DEF Queues, Waits
    <2>2. CASE q # p
      <3>1. ScriptOf(q)' = ScriptOf(q) /\ Open(q)' = Open(q) /\ tx'[q] = tx[q]
        BY <1>1, <2>2, ScriptSame
      <3> QED BY <3>1 DEF Queues, Waits, At, Finished, Current
    <2> QED BY <2>1, <2>2
  <1>4. Queues(q, k) => q # p
    BY DEF Queues
  <1> QED BY <1>1, <1>2, <1>3, <1>4 DEF Has, GensFor

LEMMA QuietStep ==
  ASSUME IInv, NEW p \in Projects, NEW t, Quietly(p, t)
  PROVE  /\ t.keys = tx[p].keys => KeysApart'
         /\ TurnsApart' /\ HoldersApart' /\ BestInv' /\ FlatInv'
  <1> USE DEF IInv
  <1>0. /\ tx' = [tx EXCEPT ![p] = t] /\ t \in TxOf /\ tx \in [Projects -> TxOf]
        /\ UNCHANGED <<databaseVars, count, job, phase>>
        /\ t.views = tx[p].views /\ t.turn = 0 /\ faults <= faults' /\ faults \in Nat /\ faults' \in Nat
    BY DEF Quietly, Locally, Types
  <1>1. ASSUME t.keys = tx[p].keys PROVE KeysApart'
    <2>1. \A q \in Projects : tx'[q].keys = tx[q].keys /\ shared' = shared
      BY <1>0, <1>1 DEF databaseVars
    <2> QED BY <2>1 DEF KeysApart
  <1>2. TurnsApart'
    BY <1>0 DEF TurnsApart, Waits, TxOf
  <1>3. HoldersApart'
    <2>1. \A q \in Projects : Holds(q)' = Holds(q)
      BY <1>0 DEF Holds
    <2> QED BY <2>1 DEF HoldersApart
  <1>4. BestInv'
    <2> SUFFICES ASSUME faults' = 0, NEW v \in Versions, ~Pending(v[1])'
                 PROVE  /\ view'["best"].gens[v] # rows'[v].gen =>
                             \E r \in Projects : /\ phase'[r] = "revalidate" /\ Has(r, "best")'
                                                 /\ GensFor(r, "best")'[v] = rows'[v].gen
                        /\ \A q \in Projects :
                             Has(q, "best")' /\ ~(q = v[1] /\ phase'[q] = "default")
                                /\ GensFor(q, "best")'[v] # rows'[v].gen
                             => \E r \in Projects : /\ phase'[r] = "revalidate" /\ Has(r, "best")'
                                                    /\ GensFor(r, "best")'[v] = rows'[v].gen
                                                    /\ Younger(r, q, "best")'
      BY DEF BestInv
    <2>1. faults = 0 /\ v[1] \in Projects
      BY <1>0 DEF Versions
    <2>2. \A q \in Projects : /\ Has(q, "best")' = Has(q, "best")
                              /\ Has(q, "best") => GensFor(q, "best")' = GensFor(q, "best")
      BY SnapshotsStay
    <2>3. \A q, r \in Projects : Younger(r, q, "best")' = Younger(r, q, "best")
      BY SnapshotsStay DEF Younger
    <2>4. ~Pending(v[1])
      BY <1>0, <2>1, <2>2 DEF Pending
    <2>5. view' = view /\ rows' = rows /\ phase' = phase
      BY <1>0 DEF databaseVars
    <2> QED BY <2>1, <2>2, <2>3, <2>4, <2>5 DEF BestInv
  <1>5. FlatInv'
    <2>1. view' = view /\ rows' = rows /\ phase' = phase /\ count' = count
      BY <1>0 DEF databaseVars
    <2>2. \A q \in Projects : tx'[q].views = tx[q].views
      BY <1>0
    <2>3. \A v \in Versions : Tags(v)' = Tags(v)
      BY <2>1 DEF Tags
    <2>4. \A q \in Projects : Version(q)' = Version(q) /\ HoldsView(q, "flat")' = HoldsView(q, "flat")
      BY <2>1, <2>2 DEF Version, HoldsView
    <2> QED BY <2>1, <2>2, <2>3, <2>4 DEF FlatInv
  <1> QED BY <1>1, <1>2, <1>3, <1>4, <1>5

(* Where a statement other than a refresh stands in its script.              *)
LEMMA WritesAt ==
  ASSUME Types, NEW p \in Projects, NEW do, At(p, do), do # "refresh"
  PROVE  /\ phase[p] \in {"default", "named"} /\ Open(p) /\ ScriptIs(p) /\ Wrote(p) \in Nat
         /\ tx[p].step \in 1 .. Wrote(p) /\ ~At(p, "refresh")
         /\ Current(p) \in StatementsOf /\ Current(p).do = do
         /\ do = "lookup" => tx[p].step + Current(p).what.skip <= Wrote(p)
  <1>1. Open(p) /\ Current(p).do = do /\ tx[p].step <= Len(ScriptOf(p)) /\ ~At(p, "refresh")
        /\ tx[p].step \in Nat \ {0}
    <2>1. tx[p].step \in 1 .. Len(ScriptOf(p)) + 1 /\ tx[p].step \in Nat \ {0} /\ Open(p)
      BY DEF Types, At, TxOf
    <2>2. Len(ScriptOf(p)) \in Nat
      <3>1. CASE phase[p] = "revalidate"
        BY <3>1, RevalidationShape
      <3>2. CASE phase[p] # "revalidate"
        <4>1. phase[p] \in {"default", "named"}
          BY <2>1, <3>2 DEF Types, Open
        <4> QED BY <4>1, ScriptShape DEF ScriptIs
      <3> QED BY <3>1, <3>2
    <2> QED BY <2>1, <2>2 DEF At, Finished
  <1>2. phase[p] # "revalidate"
    <2> SUFFICES ASSUME phase[p] = "revalidate" PROVE FALSE
      OBVIOUS
    <2>1. Len(ScriptOf(p)) = 1 /\ ScriptOf(p)[1].do = "refresh"
      BY RevalidationShape
    <2>2. tx[p].step = 1
      BY <1>1, <2>1
    <2> QED BY <1>1, <2>1, <2>2 DEF Current
  <1>3. phase[p] \in {"default", "named"}
    BY <1>1, <1>2 DEF Types, Open
  <1>4. ScriptIs(p)
    BY <1>3, ScriptShape
  <1>5. Wrote(p) \in Nat /\ tx[p].step \in 1 .. Wrote(p) /\ Current(p) = ScriptOf(p)[tx[p].step]
    BY <1>1, <1>4 DEF ScriptIs, Current
  <1>6. Current(p) \in StatementsOf
    BY <1>4, <1>5 DEF ScriptIs
  <1> QED BY <1>1, <1>3, <1>4, <1>5, <1>6 DEF ScriptIs

LEMMA WriteStep ==
  ASSUME IInv, NEW p \in Projects, NEW do, At(p, do), do # "refresh", NEW t \in TxOf,
         tx' = [tx EXCEPT ![p] = t], UNCHANGED <<databaseVars, count, job, phase>>,
         faults' \in 0 .. MaxFaults, faults <= faults',
         t.turn = 0, t.views = tx[p].views, t.step \in tx[p].step + 1 .. Wrote(p) + 1
  PROVE  /\ Types' /\ Progress' /\ TurnsApart' /\ HoldersApart' /\ BestInv' /\ FlatInv'
         /\ t.keys = tx[p].keys => IInv'
  <1>1. /\ phase[p] \in {"default", "named"} /\ Open(p) /\ ScriptIs(p) /\ Wrote(p) \in Nat
        /\ tx[p].step \in 1 .. Wrote(p) /\ ~At(p, "refresh")
    BY WritesAt DEF IInv
  <1>2. Quietly(p, t)
    BY <1>1 DEF Quietly, Locally
  <1>3. Types'
    BY <1>1, <1>2, LocalTypes DEF IInv, ScriptIs, Quietly
  <1>4. Progress'
    <2>1. tx'[p] = t /\ \A q \in Projects : q # p => tx'[q] = tx[q]
      BY DEF IInv, Types
    <2>2. \A q \in Projects : /\ ScriptOf(q)' = ScriptOf(q) /\ Writing(q)' = Writing(q)
                              /\ Open(q)' = Open(q) /\ phase'[q] = phase[q]
      BY ScriptSame
    <2>3. Holds(p)' = {} /\ Holds(p) = {}
      <3>1. Holds(p) = {ScriptOf(p)[i].what : i \in Wrote(p) + 1 .. tx[p].step - 1}
        BY <1>1 DEF IInv, Progress, Wrote
      <3>2. Holds(p)' = Holds(p)
        BY <2>1 DEF Holds
      <3> QED BY <1>1, <3>1, <3>2
    <2>4. t.step \in Nat /\ t.step <= Wrote(p) + 1
      BY <1>1
    <2>5. Holds(p)' = {ScriptOf(p)'[i].what : i \in Len(Writing(p)') + 1 .. tx'[p].step - 1}
      BY <1>1, <2>1, <2>2, <2>3, <2>4 DEF Wrote
    <2>6. ~Waits(p)'
      BY <2>1 DEF Waits
    <2>7. ASSUME NEW q \in Projects, q # p
          PROVE  Holds(q)' = Holds(q) /\ Waits(q)' = Waits(q) /\ Finished(q)' = Finished(q)
      BY <2>1, <2>2, <2>7 DEF Holds, Waits, Finished
    <2>8. phase'[p] \in {"default", "named"} /\ Open(p)'
      BY <1>1, <2>2
    <2>9. \A q \in Projects : ~Open(q)' => tx'[q].turn = 0 /\ Holds(q)' = {} /\ ~tx'[q].aborted /\ tx'[q].keys = {}
      BY <2>1, <2>2, <2>7, <2>8 DEF IInv, Progress
    <2>10. \A q \in Projects : phase'[q] = "revalidate" =>
              ~tx'[q].aborted /\ Holds(q)' = IF tx'[q].step = 1 THEN {} ELSE {"best"}
      BY <2>1, <2>2, <2>7, <2>8 DEF IInv, Progress
    <2>11. ASSUME NEW q \in Projects, phase'[q] \in {"default", "named"}
           PROVE /\ tx'[q].aborted => tx'[q].step <= Len(Writing(q)') + 1
                 /\ Holds(q)' = {ScriptOf(q)'[i].what : i \in Len(Writing(q)') + 1 .. tx'[q].step - 1}
      <3>1. CASE q = p
        BY <2>1, <2>2, <2>4, <2>5, <3>1 DEF Wrote
      <3>2. CASE q # p
        BY <2>1, <2>2, <2>7, <2>11, <3>2 DEF IInv, Progress
      <3> QED BY <3>1, <3>2
    <2>12. \A q \in Projects : Waits(q)' => ~Finished(q)' /\ ~tx'[q].aborted
      BY <2>1, <2>6, <2>7 DEF IInv, Progress
    <2> QED BY <2>9, <2>10, <2>11, <2>12 DEF Progress
  <1>5. TurnsApart' /\ HoldersApart' /\ BestInv' /\ FlatInv' /\ (t.keys = tx[p].keys => KeysApart')
    BY <1>2, QuietStep
  <1> QED BY <1>3, <1>4, <1>5 DEF IInv

LEMMA SteppedIn ==
  ASSUME Types, NEW p \in Projects
  PROVE  /\ Stepped(p) \in TxOf
         /\ Stepped(p).step = tx[p].step + 1 /\ Stepped(p).turn = 0
         /\ Stepped(p).keys = tx[p].keys /\ Stepped(p).views = tx[p].views
         /\ Stepped(p).aborted = tx[p].aborted
         /\ Stepped(p).recipes = tx[p].recipes /\ Stepped(p).benches = tx[p].benches
         /\ Stepped(p).snapshot = tx[p].snapshot
         /\ Stepped(p).found = tx[p].found /\ Stepped(p).solo = tx[p].solo
  <1> DEFINE s == tx[p]
             n == s.step + 1
             t == [s EXCEPT !.step = n, !.turn = 0]
  <1>0. s \in TxOf
    BY DEF Types
  <1>1. s \in TxOf /\ n \in Nat \ {0}
    BY <1>0 DEF TxOf
  <1>2. Stepped(p) = t
    BY DEF Stepped
  <1> HIDE DEF s, n
  <1>3. /\ t.step = n /\ t.turn = 0 /\ t.keys = s.keys /\ t.views = s.views /\ t.aborted = s.aborted
        /\ t.recipes = s.recipes /\ t.benches = s.benches /\ t.snapshot = s.snapshot
        /\ t.found = s.found /\ t.solo = s.solo
    BY <1>1 DEF TxOf
  <1>4. t \in TxOf
    BY <1>1 DEF TxOf
  <1> HIDE DEF t
  <1> QED BY <1>2, <1>3, <1>4 DEF n, s

(* The steps of a transaction on its own rows.                               *)
LEMMA PlainStep ==
  ASSUME IInv, NEW p \in Projects, NEW do, do # "refresh", Execute(p, do, Stepped(p))
  PROVE  IInv'
  <1>1. /\ At(p, do) /\ tx' = [tx EXCEPT ![p] = Stepped(p)]
        /\ UNCHANGED <<databaseVars, count, job, phase>> /\ faults' \in 0 .. MaxFaults /\ faults <= faults'
    BY IngestionAssumption DEF Execute, IInv, Types
  <1>2. tx[p].step \in 1 .. Wrote(p) /\ Wrote(p) \in Nat
    BY <1>1, WritesAt DEF IInv
  <1>3. /\ Stepped(p) \in TxOf /\ Stepped(p).step = tx[p].step + 1 /\ Stepped(p).turn = 0
        /\ Stepped(p).keys = tx[p].keys /\ Stepped(p).views = tx[p].views
    BY SteppedIn DEF IInv
  <1>4. PICK t : t = Stepped(p)
    OBVIOUS
  <1>5. /\ t \in TxOf /\ t.turn = 0 /\ t.views = tx[p].views /\ t.keys = tx[p].keys
        /\ t.step \in tx[p].step + 1 .. Wrote(p) + 1 /\ tx' = [tx EXCEPT ![p] = t]
    BY <1>1, <1>2, <1>3, <1>4
  <1> QED BY <1>1, <1>5, WriteStep

LEMMA FindOrCreateStep == ASSUME IInv, NEW p \in Projects, FindOrCreate(p) PROVE IInv'
  <1> DEFINE what == Current(p).what
             t == [Stepped(p) EXCEPT !.keys = @ \cup {what}]
  <1>1. CASE what \in shared
    BY <1>1, PlainStep DEF FindOrCreate
  <1>2. CASE what \notin shared
    <2>1. Execute(p, "key", t)
      BY <1>2 DEF FindOrCreate
    <2>2. /\ At(p, "key") /\ tx' = [tx EXCEPT ![p] = t] /\ Blockers(p) = {} /\ ~Fails(p)
          /\ UNCHANGED <<databaseVars, count, job, phase>> /\ faults' \in 0 .. MaxFaults /\ faults <= faults'
      BY <2>1, IngestionAssumption DEF Execute, IInv, Types
    <2>3. /\ tx[p].step \in 1 .. Wrote(p) /\ Wrote(p) \in Nat /\ Open(p)
          /\ Current(p) \in StatementsOf /\ Current(p).do = "key"
      BY <2>2, WritesAt DEF IInv
    <2>4. ~tx[p].aborted /\ (what \in tx[p].keys \/ what[2] \in Storable)
      BY <2>2, <2>3 DEF Fails, At
    <2>5. what \in KeysOf
      <3>1. what \in Tables \X Locs
        BY <2>3 DEF StatementsOf
      <3>2. tx[p].keys \subseteq KeysOf
        BY DEF IInv, Types, TxOf
      <3> QED BY <2>4, <3>1, <3>2 DEF KeysOf, Tables
    <2>6. /\ t \in TxOf /\ t.step = tx[p].step + 1 /\ t.turn = 0
          /\ t.keys = tx[p].keys \cup {what} /\ t.views = tx[p].views
      <3>1. /\ Stepped(p) \in TxOf /\ Stepped(p).step = tx[p].step + 1 /\ Stepped(p).turn = 0
            /\ Stepped(p).keys = tx[p].keys /\ Stepped(p).views = tx[p].views
        BY SteppedIn DEF IInv
      <3> HIDE DEF what
      <3>2. t = [Stepped(p) EXCEPT !.keys = tx[p].keys \cup {what}]
        BY <3>1
      <3> QED BY <2>5, <3>1, <3>2 DEF TxOf
    <2>7. \A q \in Projects : q # p => what \notin tx[q].keys
      <3> SUFFICES ASSUME NEW q \in Projects, q # p, what \in tx[q].keys PROVE FALSE
        OBVIOUS
      <3>1. Open(q)
        BY DEF IInv, Progress
      <3>2. At(p, "key") /\ Open(p) /\ ~Finished(p) /\ Current(p).do = "key"
        BY <2>2, <2>3 DEF At
      <3>3. HoldsKey(q, what) /\ (what \in SeenKeys(p) => what \in tx[p].keys)
        BY <1>2 DEF HoldsKey, SeenKeys
      <3>4. what \notin tx[p].keys
        BY DEF IInv, KeysApart
      <3>5. q \in Blockers(p)
        BY <2>4, <3>1, <3>2, <3>3, <3>4 DEF Blockers
      <3> QED BY <2>2, <3>5
    <2> HIDE DEF t, what
    <2>0. PICK u : u = t
      OBVIOUS
    <2>8. /\ Types' /\ Progress' /\ TurnsApart' /\ HoldersApart' /\ BestInv' /\ FlatInv'
      <3>1. /\ u \in TxOf /\ u.turn = 0 /\ u.views = tx[p].views
            /\ u.step \in tx[p].step + 1 .. Wrote(p) + 1 /\ tx' = [tx EXCEPT ![p] = u]
        BY <2>0, <2>2, <2>3, <2>6
      <3> QED BY <2>2, <3>1, WriteStep
    <2>9. KeysApart'
      <3>1. shared' = shared
        BY <2>2 DEF databaseVars
      <3>2. tx'[p].keys = tx[p].keys \cup {what} /\ \A q \in Projects : q # p => tx'[q] = tx[q]
        BY <2>2, <2>6 DEF IInv, Types
      <3> QED BY <1>2, <2>7, <3>1, <3>2 DEF IInv, KeysApart
    <2> QED BY <2>8, <2>9 DEF IInv
  <1> QED BY <1>1, <1>2

LEMMA LocalStep ==
  ASSUME IInv, NEW p \in Projects, NEW do, do # "refresh", NEW u \in TxOf, Execute(p, do, u),
         u.turn = 0, u.views = tx[p].views, u.keys = tx[p].keys, u.step \in tx[p].step + 1 .. Wrote(p) + 1
  PROVE  IInv'
  <1>1. /\ At(p, do) /\ tx' = [tx EXCEPT ![p] = u]
        /\ UNCHANGED <<databaseVars, count, job, phase>> /\ faults' \in 0 .. MaxFaults /\ faults <= faults'
    BY IngestionAssumption DEF Execute, IInv, Types
  <1> QED BY <1>1, WriteStep

LEMMA SeenTypesIn ==
  ASSUME Types, NEW p \in Projects, phase[p] \in {"default", "named"}, NEW t \in SeenTypes(p)
  PROVE  t \in RowsOf
  <1>1. CASE t \in {Row(Game, 0, l) : l \in BuiltinTypes}
    BY <1>1, IngestionAssumption DEF Row, RowsOf
  <1>2. CASE t \in UNION {{Row(v, Seen(p, v).gen, l) : l \in Files[Seen(p, v).source].types} : v \in Versions}
    <2>1. PICK v \in Versions : t \in {Row(v, Seen(p, v).gen, l) : l \in Files[Seen(p, v).source].types}
      BY <1>2
    <2>2. PICK l \in Files[Seen(p, v).source].types : t = Row(v, Seen(p, v).gen, l)
      BY <2>1
    <2>3. Seen(p, v).gen \in 0 .. MaxDeploys /\ Files[Seen(p, v).source].types \subseteq Locs
      <3>1. CASE Purged(p) /\ v[1] = p
        <4>1. Seen(p, v) = NoRows
          BY <3>1 DEF Seen
        <4>2. NoRows.gen = 0 /\ NoRows.source = NoVersion /\ Files[NoVersion].types = {}
          BY IngestionAssumption DEF NoRows
        <4> QED BY <4>1, <4>2, IngestionAssumption
      <3>2. CASE ~(Purged(p) /\ v[1] = p)
        <4>1. Seen(p, v) = rows[v]
          BY <3>2 DEF Seen
        <4>2. rows[v].gen \in 0 .. MaxDeploys /\ rows[v].source \in DOMAIN Files
          BY DEF Types
        <4>3. IsCheckout(Files[rows[v].source])
          BY <4>2, IngestionAssumption
        <4> QED BY <4>1, <4>2, <4>3 DEF IsCheckout
      <3> QED BY <3>1, <3>2
    <2> QED BY <2>2, <2>3 DEF Row, RowsOf
  <1>3. CASE Done(p, "types") /\ t \in {Row(Version(p), count[p], l) : l \in Files[Source(p)].types}
    <2>1. Version(p) \in Versions
      BY DEF Version, Versions
    <2>2. count[p] \in 0 .. MaxDeploys
      BY DEF Types
    <2>3. Files[Source(p)].types \subseteq Locs
      BY SourceIn DEF IsCheckout
    <2> QED BY <1>3, <2>1, <2>2, <2>3 DEF Row, RowsOf
  <1> QED BY <1>1, <1>2, <1>3 DEF SeenTypes

LEMMA LookupTypeStep == ASSUME IInv, NEW p \in Projects, LookupType(p) PROVE IInv'
  <1> DEFINE what == Current(p).what
             n == Stepped(p).step + what.skip
  <1>1. At(p, "lookup")
    BY DEF LookupType
  <1>2. /\ phase[p] \in {"default", "named"} /\ Wrote(p) \in Nat /\ tx[p].step \in 1 .. Wrote(p)
        /\ tx[p].step + what.skip <= Wrote(p) /\ what.skip \in Nat
    <2>1. Current(p) \in StatementsOf /\ Current(p).do = "lookup"
      BY <1>1, WritesAt DEF IInv
    <2>2. what.skip \in Nat
      BY <2>1 DEF StatementsOf
    <2> QED BY <1>1, <2>2, WritesAt DEF IInv
  <1>3. /\ Stepped(p) \in TxOf /\ Stepped(p).step = tx[p].step + 1 /\ Stepped(p).turn = 0
        /\ Stepped(p).keys = tx[p].keys /\ Stepped(p).views = tx[p].views
    BY SteppedIn DEF IInv
  <1>4. CASE \E t \in SeenTypes(p) : Execute(p, "lookup", [Stepped(p) EXCEPT !.found = t])
    <2>1. PICK t \in SeenTypes(p) : Execute(p, "lookup", [Stepped(p) EXCEPT !.found = t])
      BY <1>4
    <2>2. t \in RowsOf
      BY <1>2, SeenTypesIn DEF IInv
    <2>3. PICK u : u = [Stepped(p) EXCEPT !.found = t]
      OBVIOUS
    <2>4. /\ u.step = Stepped(p).step /\ u.turn = Stepped(p).turn
          /\ u.keys = Stepped(p).keys /\ u.views = Stepped(p).views
      BY <1>3, <2>3 DEF TxOf
    <2>5. u \in TxOf
      BY <1>3, <2>2, <2>3 DEF TxOf
    <2>6. u.step \in tx[p].step + 1 .. Wrote(p) + 1
      BY <1>2, <1>3, <2>4
    <2> QED BY <1>3, <2>1, <2>3, <2>4, <2>5, <2>6, LocalStep
  <1>5. CASE Execute(p, "lookup", [Stepped(p) EXCEPT !.step = @ + what.skip])
    <2> HIDE DEF what
    <2>1. n \in tx[p].step + 1 .. Wrote(p) + 1 /\ n \in Nat \ {0}
      BY <1>2, <1>3
    <2>2. PICK u : u = [Stepped(p) EXCEPT !.step = n]
      OBVIOUS
    <2>3. Execute(p, "lookup", u)
      BY <1>5, <2>2
    <2> HIDE DEF n
    <2>4. u.step = n /\ u.turn = Stepped(p).turn /\ u.keys = Stepped(p).keys /\ u.views = Stepped(p).views
      BY <1>3, <2>2 DEF TxOf
    <2>5. u \in TxOf
      BY <1>3, <2>1, <2>2 DEF TxOf
    <2> QED BY <1>3, <2>1, <2>3, <2>4, <2>5, LocalStep
  <1> QED BY <1>4, <1>5 DEF LookupType

LEMMA AddRecipeStep == ASSUME IInv, NEW p \in Projects, AddRecipe(p) PROVE IInv'
  <1> DEFINE r == Current(p).what
             row == [id |-> r.id, type |-> tx[p].found, ingredients |-> Range(r.ingredients)]
             more == Stepped(p).recipes \cup {row}
  <1>1. CASE Execute(p, "recipe", Stepped(p))
    BY <1>1, PlainStep
  <1>2. CASE Execute(p, "recipe", [Stepped(p) EXCEPT !.recipes = @ \cup {row}])
    <2>1. At(p, "recipe")
      BY DEF AddRecipe
    <2>2. Wrote(p) \in Nat /\ tx[p].step \in 1 .. Wrote(p)
      BY <2>1, WritesAt DEF IInv
    <2>3. /\ Stepped(p) \in TxOf /\ Stepped(p).step = tx[p].step + 1 /\ Stepped(p).turn = 0
          /\ Stepped(p).keys = tx[p].keys /\ Stepped(p).views = tx[p].views
      BY SteppedIn DEF IInv
    <2>4. r \in RecipeFiles
      <3>1. Current(p) \in StatementsOf /\ Current(p).do = "recipe"
        BY <2>1, WritesAt DEF IInv
      <3> QED BY <3>1 DEF StatementsOf
    <2>5. Range(r.ingredients) \subseteq Values /\ r.id \in Locs
      BY <2>4 DEF RecipeFiles, Range
    <2>6. tx[p].found \in RowsOf
      BY DEF IInv, Types, TxOf
    <2>7. more \subseteq RecipeRows
      <3>1. row \in RecipeRows
        BY <2>5, <2>6 DEF RecipeRows
      <3>2. Stepped(p).recipes \subseteq RecipeRows
        BY <2>3 DEF TxOf
      <3> QED BY <3>1, <3>2
    <2>8. PICK u : u = [Stepped(p) EXCEPT !.recipes = more]
      OBVIOUS
    <2>9. Execute(p, "recipe", u)
      BY <1>2, <2>8
    <2> HIDE DEF more
    <2>10. /\ u.step = Stepped(p).step /\ u.turn = Stepped(p).turn
           /\ u.keys = Stepped(p).keys /\ u.views = Stepped(p).views
      BY <2>3, <2>8 DEF TxOf
    <2>11. u \in TxOf
      BY <2>3, <2>7, <2>8 DEF TxOf
    <2>12. u.step \in tx[p].step + 1 .. Wrote(p) + 1
      BY <2>2, <2>3, <2>10
    <2> QED BY <2>3, <2>9, <2>10, <2>11, <2>12, LocalStep
  <1> QED BY <1>1, <1>2 DEF AddRecipe

LEMMA AddWorkbenchStep == ASSUME IInv, NEW p \in Projects, AddWorkbench(p) PROVE IInv'
  <1> DEFINE l == Current(p).what
             more == (Stepped(p).benches \cup {Benches(p, l)}) \ benches
  <1>1. At(p, "bench")
    BY DEF AddWorkbench, Execute
  <1>2. phase[p] \in {"default", "named"} /\ Wrote(p) \in Nat /\ tx[p].step \in 1 .. Wrote(p)
    BY <1>1, WritesAt DEF IInv
  <1>3. /\ Stepped(p) \in TxOf /\ Stepped(p).step = tx[p].step + 1 /\ Stepped(p).turn = 0
        /\ Stepped(p).keys = tx[p].keys /\ Stepped(p).views = tx[p].views
    BY SteppedIn DEF IInv
  <1>4. Benches(p, l) \in BenchRows
    <2>1. l \in Locs
      <3>1. Current(p) \in StatementsOf /\ Current(p).do = "bench"
        BY <1>1, WritesAt DEF IInv
      <3> QED BY <3>1 DEF StatementsOf
    <2>2. tx[p].found \in RowsOf /\ count[p] \in 0 .. MaxDeploys
      BY DEF IInv, Types, TxOf
    <2>3. Version(p) \in Versions
      BY <1>2 DEF Version, Versions
    <2> QED BY <2>1, <2>2, <2>3, IngestionAssumption DEF Benches, BenchRows, Row, RowsOf
  <1>5. more \subseteq BenchRows
    <2>1. Stepped(p).benches \subseteq BenchRows
      BY <1>3 DEF TxOf
    <2> QED BY <1>4, <2>1
  <1>6. PICK u : u = [Stepped(p) EXCEPT !.benches = more]
    OBVIOUS
  <1>7. Execute(p, "bench", u)
    BY <1>6 DEF AddWorkbench
  <1> HIDE DEF more
  <1>8. /\ u.step = Stepped(p).step /\ u.turn = Stepped(p).turn
        /\ u.keys = Stepped(p).keys /\ u.views = Stepped(p).views
    BY <1>3, <1>6 DEF TxOf
  <1>9. u \in TxOf
    BY <1>3, <1>5, <1>6 DEF TxOf
  <1>10. u.step \in tx[p].step + 1 .. Wrote(p) + 1
    BY <1>2, <1>3, <1>8
  <1> QED BY <1>3, <1>7, <1>8, <1>9, <1>10, LocalStep

(* The insertion fails, and the code goes on in the aborted transaction.     *)
LEMMA SkipBenchStep ==
  ASSUME IInv, NEW p \in Projects, At(p, "bench"), SkipBench(p), UNCHANGED <<databaseVars, count, job>>,
         faults' \in 0 .. MaxFaults, faults <= faults'
  PROVE  IInv'
  <1> DEFINE n == tx[p].step + 1
  <1>1. Wrote(p) \in Nat /\ tx[p].step \in 1 .. Wrote(p)
    BY WritesAt DEF IInv
  <1>2. tx[p] \in TxOf /\ tx \in [Projects -> TxOf]
    BY DEF IInv, Types
  <1>3. PICK u : u = [tx[p] EXCEPT !.aborted = TRUE, !.turn = 0, !.step = n]
    OBVIOUS
  <1>4. tx' = [tx EXCEPT ![p] = u] /\ phase' = phase
    BY <1>2, <1>3 DEF SkipBench
  <1>5. n \in Nat \ {0} /\ n \in tx[p].step + 1 .. Wrote(p) + 1
    BY <1>1
  <1> HIDE DEF n
  <1>6. u.step = n /\ u.turn = 0 /\ u.keys = tx[p].keys /\ u.views = tx[p].views
    BY <1>2, <1>3 DEF TxOf
  <1>7. u \in TxOf
    BY <1>2, <1>3, <1>5 DEF TxOf
  <1> QED BY <1>4, <1>5, <1>6, <1>7, WriteStep

(* A finite set of numbers has a greatest one: with least above it.          *)
LEMMA MaxIn ==
  ASSUME NEW S \in SUBSET Nat, IsFiniteSet(S), S # {}
  PROVE  Max(S) \in S /\ \A n \in S : n <= Max(S)
  <1> DEFINE above(n) == {m \in S : n < m}
             sizes == {Cardinality(above(n)) : n \in S}
  <1>1. \A n \in S : IsFiniteSet(above(n)) /\ Cardinality(above(n)) \in Nat
    BY FS_Subset, FS_CardinalityType
  <1>2. PICK k \in sizes : \A l \in sizes : k <= l
    <2>1. sizes \in SUBSET Nat /\ sizes # {}
      BY <1>1
    <2> HIDE DEF sizes
    <2> QED BY <2>1, Least
  <1>3. PICK n \in S : k = Cardinality(above(n))
    OBVIOUS
  <1>4. ASSUME NEW m \in S, n < m PROVE FALSE
    <2>1. above(m) \subseteq above(n) /\ m \in above(n) /\ m \notin above(m)
      <3>1. m \in Nat /\ n \in Nat /\ \A x \in S : x \in Nat
        OBVIOUS
      <3>2. \A x \in S : m < x => n < x
        BY <1>4, <3>1
      <3>3. ~(m < m)
        BY <3>1
      <3> QED BY <1>4, <3>2, <3>3
    <2>2. Cardinality(above(m)) < Cardinality(above(n))
      <3> HIDE DEF above
      <3> QED BY <1>1, <2>1, FS_Subset, FS_CardinalityType
    <2>3. Cardinality(above(n)) <= Cardinality(above(m))
      BY <1>2, <1>3
    <2> HIDE DEF above
    <2> QED BY <1>1, <2>2, <2>3
  <1>5. \E x \in S : \A y \in S : x >= y
    BY <1>4
  <1>6. Max(S) \in S /\ \A y \in S : Max(S) >= y
    BY <1>5 DEF Max
  <1> QED BY <1>6

LEMMA LastInLine ==
  ASSUME Types, Projects # {}
  PROVE  LET m == Max({tx[q].turn : q \in Projects}) IN m \in Nat /\ \A q \in Projects : tx[q].turn <= m
  <1> DEFINE S == {tx[q].turn : q \in Projects}
             f == [q \in Projects |-> tx[q].turn]
  <1>0. \A q \in Projects : tx[q].turn \in Nat
    BY DEF Types, TxOf
  <1>1. S \in SUBSET Nat /\ S # {}
    BY <1>0
  <1>2. f \in Surjection(Projects, S)
    BY DEF Surjection
  <1>3. IsFiniteSet(S)
    <2> HIDE DEF S, f
    <2> QED BY <1>2, FS_Surjection, IngestionAssumption
  <1>4. \A q \in Projects : tx[q].turn \in S
    OBVIOUS
  <1> HIDE DEF S
  <1>5. Max(S) \in S /\ \A n \in S : n <= Max(S)
    BY <1>1, <1>3, MaxIn
  <1> QED BY <1>1, <1>4, <1>5 DEF S

(* Where a transaction stands that refreshes a view.                         *)
LEMMA RefreshAt ==
  ASSUME Types, Progress, NEW p \in Projects, At(p, "refresh")
  PROVE  /\ Open(p) /\ ~Finished(p) /\ tx[p].step \in Nat /\ Len(ScriptOf(p)) \in Nat
         /\ Current(p).what \in Views /\ ~HoldsView(p, Current(p).what)
         /\ phase[p] = "revalidate" => Current(p).what = "best" /\ Holds(p) = {} /\ tx[p].step = 1
         /\ phase[p] # "revalidate" =>
               /\ phase[p] \in {"default", "named"} /\ ScriptIs(p)
               /\ tx[p].step \in Wrote(p) + 1 .. Len(ScriptOf(p))
         /\ Current(p).what = "best" => Holds(p) = {}
  <1>1. Open(p) /\ ~Finished(p) /\ Current(p).do = "refresh" /\ Current(p) = ScriptOf(p)[tx[p].step]
    BY DEF At, Current
  <1>2. tx[p].step \in Nat \ {0}
    BY DEF Types, TxOf
  <1>3. CASE phase[p] = "revalidate"
    <2>1. Len(ScriptOf(p)) = 1 /\ ScriptOf(p)[1].what = "best"
      BY <1>3, RevalidationShape
    <2>2. tx[p].step = 1
      BY <1>1, <1>2, <2>1 DEF Finished
    <2>3. Holds(p) = {}
      BY <1>3, <2>2 DEF Progress
    <2> QED BY <1>1, <1>2, <1>3, <2>1, <2>2, <2>3 DEF Views, HoldsView, Holds
  <1>4. CASE phase[p] # "revalidate"
    <2>1. phase[p] \in {"default", "named"}
      BY <1>1, <1>4 DEF Types, Open
    <2>2. ScriptIs(p)
      BY <2>1, ScriptShape
    <2>3. Wrote(p) \in Nat /\ Len(ScriptOf(p)) \in Nat /\ tx[p].step \in Wrote(p) + 1 .. Len(ScriptOf(p))
      <3>1. Wrote(p) \in Nat /\ Len(ScriptOf(p)) \in Wrote(p) .. Wrote(p) + 2 /\ tx[p].step <= Len(ScriptOf(p))
        BY <1>1, <1>2, <2>2 DEF Finished, ScriptIs
      <3>2. ~(tx[p].step \in 1 .. Wrote(p))
        BY <1>1, <2>2 DEF ScriptIs
      <3> QED BY <1>2, <3>1, <3>2
    <2>4. Current(p).what \in Views
      BY <1>1, <2>2, <2>3 DEF ScriptIs
    <2>5. Holds(p) = {ScriptOf(p)[i].what : i \in Wrote(p) + 1 .. tx[p].step - 1}
      BY <2>1 DEF Progress, Wrote
    <2>6. ~HoldsView(p, Current(p).what)
      <3> SUFFICES ASSUME Current(p).what \in Holds(p) PROVE FALSE
        BY DEF HoldsView, Holds
      <3>1. PICK i \in Wrote(p) + 1 .. tx[p].step - 1 : ScriptOf(p)[i].what = ScriptOf(p)[tx[p].step].what
        BY <1>1, <2>5
      <3>2. i \in Wrote(p) + 1 .. Len(ScriptOf(p)) /\ i # tx[p].step
        BY <2>3, <3>1
      <3> QED BY <2>2, <2>3, <3>1, <3>2 DEF ScriptIs
    <2>7. ASSUME Current(p).what = "best" PROVE Holds(p) = {}
      <3> SUFFICES ASSUME NEW k \in Holds(p) PROVE FALSE
        OBVIOUS
      <3>1. PICK i \in Wrote(p) + 1 .. tx[p].step - 1 : k = ScriptOf(p)[i].what
        BY <2>5
      <3>2. i \in Wrote(p) + 1 .. Len(ScriptOf(p)) /\ i # tx[p].step /\ i # Len(ScriptOf(p))
        BY <2>3, <3>1
      <3>3. ScriptOf(p)[i].what = "best"
        BY <2>2, <3>2 DEF ScriptIs, Views
      <3>4. ScriptOf(p)[i].what = ScriptOf(p)[tx[p].step].what
        BY <1>1, <2>7, <3>3
      <3> QED BY <2>2, <2>3, <3>2, <3>4 DEF ScriptIs
    <2> QED BY <1>1, <1>2, <1>4, <2>1, <2>2, <2>3, <2>4, <2>6, <2>7
  <1> QED BY <1>3, <1>4

(* What the snapshot of a refresh tells of each version.                     *)
LEMMA SeenGensAre ==
  ASSUME Types, NEW p \in Projects, Open(p)
  PROVE  /\ SeenGens(p) \in GensOf
         /\ phase[p] \in {"default", "named"} => SeenGens(p)[Version(p)] = count[p]
         /\ \A v \in Versions : v # Version(p) /\ ~(v[1] = p /\ phase[p] = "default") =>
               SeenGens(p)[v] = rows[v].gen
  <1>1. ASSUME NEW v \in Versions PROVE Seen(p, v).gen \in 0 .. MaxDeploys
    <2>1. rows[v].gen \in 0 .. MaxDeploys /\ NoRows.gen = 0 /\ MaxDeploys \in Nat
      BY IngestionAssumption DEF Types, NoRows
    <2> QED BY <2>1 DEF Seen
  <1>2. count[p] \in 0 .. MaxDeploys
    BY DEF Types
  <1>3. SeenGens(p) \in GensOf
    BY <1>1, <1>2 DEF SeenGens, GensOf
  <1>4. phase[p] \in {"default", "named"} => Version(p) \in Versions
    BY DEF Version, Versions
  <1>5. ASSUME Purged(p) PROVE phase[p] = "default"
    <2>1. PICK i \in 1 .. tx[p].step - 1 : ScriptOf(p)[i].do = "purge"
      BY <1>5 DEF Purged, Done
    <2>2. tx[p].step \in 1 .. Len(ScriptOf(p)) + 1
      BY DEF Types
    <2>3. CASE phase[p] = "revalidate"
      <3>1. Len(ScriptOf(p)) = 1 /\ ScriptOf(p)[1].do = "refresh"
        BY <2>3, RevalidationShape
      <3>2. i = 1
        BY <2>1, <2>2, <3>1
      <3> QED BY <2>1, <3>1, <3>2
    <2>4. CASE phase[p] # "revalidate"
      <3>1. ScriptIs(p)
        BY <2>4, ScriptShape DEF Types, Open
      <3>2. Wrote(p) \in Nat /\ Len(ScriptOf(p)) \in Nat
        BY <3>1 DEF ScriptIs
      <3>3. i \in 1 .. Len(ScriptOf(p))
        BY <2>1, <2>2, <3>2
      <3>4. i \in 1 .. Wrote(p)
        <4> SUFFICES ASSUME i \notin 1 .. Wrote(p) PROVE FALSE
          OBVIOUS
        <4>1. i \in Wrote(p) + 1 .. Len(ScriptOf(p))
          BY <3>2, <3>3
        <4> QED BY <2>1, <3>1, <4>1 DEF ScriptIs
      <3> QED BY <2>1, <3>1, <3>4 DEF ScriptIs
    <2> QED BY <2>3, <2>4
  <1> QED BY <1>3, <1>4, <1>5 DEF SeenGens, Seen

(* A step of a transaction that leaves alone who has a snapshot of best.     *)
LEMMA BestStays ==
  ASSUME BestInv, faults \in Nat, faults <= faults', faults' \in Nat,
         UNCHANGED <<databaseVars, phase>>,
         \A q \in Projects : /\ Has(q, "best")' = Has(q, "best")
                             /\ Has(q, "best") => GensFor(q, "best")' = GensFor(q, "best"),
         \A q, r \in Projects : Younger(r, q, "best") => Younger(r, q, "best")'
  PROVE  BestInv'
  <1> SUFFICES ASSUME faults' = 0, NEW v \in Versions, ~Pending(v[1])'
               PROVE  /\ view'["best"].gens[v] # rows'[v].gen =>
                           \E r \in Projects : /\ phase'[r] = "revalidate" /\ Has(r, "best")'
                                               /\ GensFor(r, "best")'[v] = rows'[v].gen
                      /\ \A q \in Projects :
                           Has(q, "best")' /\ ~(q = v[1] /\ phase'[q] = "default")
                              /\ GensFor(q, "best")'[v] # rows'[v].gen
                           => \E r \in Projects : /\ phase'[r] = "revalidate" /\ Has(r, "best")'
                                                  /\ GensFor(r, "best")'[v] = rows'[v].gen
                                                  /\ Younger(r, q, "best")'
    BY DEF BestInv
  <1>1. faults = 0 /\ v[1] \in Projects
    BY DEF Versions
  <1>2. view' = view /\ rows' = rows /\ phase' = phase
    BY DEF databaseVars
  <1>3. ~Pending(v[1])
    BY <1>1, <1>2 DEF Pending
  <1> QED BY <1>1, <1>2, <1>3 DEF BestInv

LEMMA StartWaitingStep == ASSUME IInv, NEW p \in Projects, StartWaiting(p) PROVE IInv'
  <1> DEFINE turn == Max({tx[q].turn : q \in Projects}) + 1
  <1>1. Open(p) /\ ~Finished(p) /\ ~tx[p].aborted /\ ~Waits(p) /\ tx[p].turn = 0
    BY DEF StartWaiting, Blockers, Waits
  <1>2. turn \in Nat \ {0} /\ \A q \in Projects : tx[q].turn \in Nat /\ tx[q].turn < turn
    <2> DEFINE m == Max({tx[q].turn : q \in Projects})
    <2>1. m \in Nat /\ \A q \in Projects : tx[q].turn <= m
      BY LastInLine DEF IInv
    <2> HIDE DEF m
    <2>2. \A q \in Projects : tx[q].turn \in Nat
      BY DEF IInv, Types, TxOf
    <2>3. turn = m + 1
      BY DEF m
    <2> HIDE DEF turn
    <2> QED BY <2>1, <2>2, <2>3
  <1>3. tx[p] \in TxOf /\ tx \in [Projects -> TxOf]
    BY DEF IInv, Types
  <1>4. PICK t : t = [tx[p] EXCEPT !.turn = turn, !.snapshot = SeenGens(p)]
    OBVIOUS
  <1>5. /\ tx' = [tx EXCEPT ![p] = t]
        /\ UNCHANGED <<databaseVars, count, job, phase>> /\ faults' = faults /\ faults \in 0 .. MaxFaults
    BY <1>3, <1>4 DEF StartWaiting, IInv, Types
  <1> HIDE DEF turn
  <1>6. SeenGens(p) \in GensOf
    BY <1>1, SeenGensAre DEF IInv
  <1>7. /\ t.step = tx[p].step /\ t.turn = turn /\ t.keys = tx[p].keys /\ t.views = tx[p].views
        /\ t.aborted = tx[p].aborted /\ t.snapshot = SeenGens(p)
    BY <1>3, <1>4 DEF TxOf
  <1>8. t \in TxOf
    BY <1>2, <1>3, <1>4, <1>6 DEF TxOf
  <1>9. faults \in Nat /\ faults' \in Nat /\ faults <= faults' /\ faults' \in 0 .. MaxFaults
    BY <1>5, IngestionAssumption
  <1>10. Types'
    <2>1. tx[p].step <= Len(ScriptOf(p)) + 1
      BY <1>1 DEF IInv, Types
    <2>2. Locally(p, t)
      BY <1>1, <1>5, <1>8, <1>9 DEF Locally
    <2> QED BY <1>7, <2>1, <2>2, LocalTypes DEF IInv
  <1>11. /\ tx'[p] = t /\ (\A q \in Projects : q # p => tx'[q] = tx[q])
         /\ view' = view /\ rows' = rows /\ phase' = phase /\ count' = count /\ shared' = shared
    BY <1>3, <1>5 DEF databaseVars
  <1>12. \A q \in Projects : tx'[q].keys = tx[q].keys /\ tx'[q].views = tx[q].views
                             /\ tx'[q].step = tx[q].step /\ tx'[q].aborted = tx[q].aborted
    BY <1>7, <1>11
  <1>13. KeysApart'
    BY <1>11, <1>12 DEF IInv, KeysApart
  <1>14. \A q \in Projects : /\ ScriptOf(q)' = ScriptOf(q) /\ Writing(q)' = Writing(q)
                             /\ Open(q)' = Open(q) /\ Version(q)' = Version(q) /\ Holds(q)' = Holds(q)
                             /\ Finished(q)' = Finished(q)
    BY <1>5, <1>12, ScriptSame DEF Holds, Finished
  <1>15. Progress'
    <2>1. \A q \in Projects : ~Open(q)' => tx'[q].turn = 0
      BY <1>1, <1>11, <1>14 DEF IInv, Progress
    <2>2. \A q \in Projects : Waits(q)' => ~Finished(q)' /\ ~tx'[q].aborted
      BY <1>1, <1>11, <1>12, <1>14 DEF IInv, Progress, Waits
    <2>3. \A q \in Projects : ~Open(q)' => Holds(q)' = {} /\ ~tx'[q].aborted /\ tx'[q].keys = {}
      BY <1>12, <1>14 DEF IInv, Progress
    <2>4. \A q \in Projects : phase'[q] = "revalidate" =>
             ~tx'[q].aborted /\ Holds(q)' = IF tx'[q].step = 1 THEN {} ELSE {"best"}
      BY <1>11, <1>12, <1>14 DEF IInv, Progress
    <2>5. ASSUME NEW q \in Projects, phase'[q] \in {"default", "named"}
          PROVE /\ tx'[q].aborted => tx'[q].step <= Len(Writing(q)') + 1
                /\ Holds(q)' = {ScriptOf(q)'[i].what : i \in Len(Writing(q)') + 1 .. tx'[q].step - 1}
      BY <1>11, <1>12, <1>14, <2>5 DEF IInv, Progress
    <2> QED BY <2>1, <2>2, <2>3, <2>4, <2>5 DEF Progress
  <1>16. TurnsApart'
    <2> SUFFICES ASSUME NEW q \in Projects, NEW r \in Projects, q # r, tx'[q].turn # 0
                 PROVE  tx'[q].turn # tx'[r].turn
      BY DEF TurnsApart, Waits
    <2>1. CASE q = p
      BY <1>2, <1>7, <1>11, <2>1
    <2>2. CASE r = p
      BY <1>2, <1>7, <1>11, <2>2
    <2>3. CASE q # p /\ r # p
      BY <1>11, <2>3 DEF IInv, TurnsApart, Waits
    <2> QED BY <2>1, <2>2, <2>3
  <1>17. HoldersApart'
    BY <1>14 DEF IInv, HoldersApart
  <1>18. FlatInv'
    <2>1. \A v \in Versions : Tags(v)' = Tags(v)
      BY <1>11 DEF Tags
    <2>2. \A q \in Projects : HoldsView(q, "flat")' = HoldsView(q, "flat")
      BY <1>12 DEF HoldsView
    <2> QED BY <1>11, <1>12, <1>14, <2>1, <2>2 DEF IInv, FlatInv
  <1>19. BestInv'
    <2>1. \A q \in Projects : HoldsView(q, "best")' = HoldsView(q, "best")
      BY <1>12 DEF HoldsView
    <2>2. \A q \in Projects : q # p => Queues(q, "best")' = Queues(q, "best")
      BY <1>11, <1>14 DEF Queues, At, Current, Waits, Finished
    <2>3. Current(p)' = Current(p) /\ Waits(p)' /\ At(p, "refresh")' = At(p, "refresh")
      <3>1. Current(p)' = Current(p)
        BY <1>12, <1>14 DEF Current
      <3>2. Waits(p)'
        BY <1>2, <1>7, <1>11 DEF Waits
      <3> QED BY <1>14, <3>1, <3>2 DEF At
    <2>4. ~Queues(p, "best")
      BY <1>1 DEF Queues
    <2>5. CASE ~(At(p, "refresh") /\ Current(p).what = "best")
      <3>1. ~Queues(p, "best")'
        BY <2>3, <2>5 DEF Queues
      <3>2. \A q \in Projects : Has(q, "best")' = Has(q, "best")
        BY <2>1, <2>2, <2>4, <3>1 DEF Has
      <3>3. \A q \in Projects : Has(q, "best") => GensFor(q, "best")' = GensFor(q, "best")
        BY <1>11, <1>12, <2>1, <2>4 DEF Has, GensFor
      <3>4. \A q, r \in Projects : Younger(r, q, "best") => Younger(r, q, "best")'
        BY <1>11, <2>1, <2>2, <2>4, <3>1 DEF Younger
      <3> QED BY <1>5, <1>9, <3>2, <3>3, <3>4, BestStays DEF IInv
    <2>6. CASE At(p, "refresh") /\ Current(p).what = "best"
      <3>1. Queues(p, "best")'
        BY <2>3, <2>6 DEF Queues
      <3>2. ~HoldsView(p, "best") /\ ~Has(p, "best")
        BY <2>4, <2>6, RefreshAt DEF IInv, Has
      <3>3. Has(p, "best")' /\ GensFor(p, "best")' = SeenGens(p)
        BY <1>7, <1>11, <2>1, <3>1, <3>2 DEF Has, GensFor
      <3>4. \A q \in Projects : q # p => /\ Has(q, "best")' = Has(q, "best")
                                         /\ GensFor(q, "best")' = GensFor(q, "best")
        BY <1>11, <2>1, <2>2 DEF Has, GensFor
      <3>5. \A q, r \in Projects : Younger(r, q, "best") => Younger(r, q, "best")'
        BY <1>11, <2>1, <2>2, <2>4 DEF Younger
      <3>6. \A q \in Projects : q # p /\ Has(q, "best") => Younger(p, q, "best")'
        BY <1>2, <1>7, <1>11, <2>1, <2>2, <3>1 DEF Younger, Has
      <3> SUFFICES ASSUME faults' = 0, NEW v \in Versions, ~Pending(v[1])'
                   PROVE  /\ view'["best"].gens[v] # rows'[v].gen =>
                               \E r \in Projects : /\ phase'[r] = "revalidate" /\ Has(r, "best")'
                                                   /\ GensFor(r, "best")'[v] = rows'[v].gen
                          /\ \A q \in Projects :
                               Has(q, "best")' /\ ~(q = v[1] /\ phase'[q] = "default")
                                  /\ GensFor(q, "best")'[v] # rows'[v].gen
                               => \E r \in Projects : /\ phase'[r] = "revalidate" /\ Has(r, "best")'
                                                      /\ GensFor(r, "best")'[v] = rows'[v].gen
                                                      /\ Younger(r, q, "best")'
        BY DEF BestInv
      <3>7. faults = 0 /\ v[1] \in Projects
        BY <1>5 DEF Versions
      <3>8. CASE Pending(v[1])
        <4>1. v[1] = p /\ phase[p] = "revalidate"
          BY <1>11, <3>4, <3>7, <3>8 DEF Pending
        <4>2. SeenGens(p)[v] = rows[v].gen
          <5>1. v # Version(p)
            BY <4>1 DEF Version, Versions
          <5> QED BY <1>1, <4>1, <5>1, SeenGensAre DEF IInv
        <4> QED BY <1>11, <3>3, <3>4, <3>6, <4>1, <4>2
      <3>9. CASE ~Pending(v[1])
        <4>1. /\ view["best"].gens[v] # rows[v].gen =>
                   \E r \in Projects : /\ phase[r] = "revalidate" /\ Has(r, "best")
                                       /\ GensFor(r, "best")[v] = rows[v].gen
              /\ \A q \in Projects :
                   Has(q, "best") /\ ~(q = v[1] /\ phase[q] = "default") /\ GensFor(q, "best")[v] # rows[v].gen
                   => \E r \in Projects : /\ phase[r] = "revalidate" /\ Has(r, "best")
                                          /\ GensFor(r, "best")[v] = rows[v].gen /\ Younger(r, q, "best")
          BY <3>7, <3>9 DEF IInv, BestInv
        <4>2. ~(p = v[1] /\ phase[p] = "default") => SeenGens(p)[v] = rows[v].gen
          <5>1. v = Version(p) => v[1] = p /\ phase[p] \in {"default", "named"}
            BY DEF Version, Versions
          <5>2. v[1] = p => phase[p] # "named"
            BY <3>9 DEF Pending
          <5> QED BY <1>1, <5>1, <5>2, SeenGensAre DEF IInv
        <4> QED BY <1>11, <3>2, <3>3, <3>4, <3>5, <4>1, <4>2
      <3> QED BY <3>8, <3>9
    <2> QED BY <2>5, <2>6
  <1> QED BY <1>10, <1>13, <1>15, <1>16, <1>17, <1>18, <1>19 DEF IInv

(* The refresh, of what has been there when it began to wait.                *)
LEMMA RefreshViewStep == ASSUME IInv, NEW p \in Projects, RefreshView(p) PROVE IInv'
  <1> DEFINE k == Current(p).what
             gens == IF Waits(p) THEN tx[p].snapshot ELSE SeenGens(p)
             seen == [gens |-> gens, late |-> Waits(p)]
             more == [m \in DOMAIN tx[p].views \cup {k} |-> IF m = k THEN seen ELSE tx[p].views[m]]
             n == tx[p].step + 1
  <1>1. At(p, "refresh") /\ Blockers(p) = {} /\ ~Fails(p)
    BY DEF RefreshView, Execute
  <1>2. /\ Open(p) /\ ~Finished(p) /\ ~tx[p].aborted /\ ~HoldsView(p, k) /\ k \in Views
        /\ tx[p].step \in Nat \ {0} /\ tx[p].step <= Len(ScriptOf(p)) /\ Len(ScriptOf(p)) \in Nat
    <2>1. tx[p].step \in Nat \ {0}
      BY DEF IInv, Types, TxOf
    <2> QED BY <1>1, <2>1, RefreshAt DEF IInv, Fails, Finished
  <1>3. ASSUME NEW q \in Projects, q # p
        PROVE  /\ ~HoldsView(q, k)
               /\ Queues(q, k) => Waits(p) /\ ~(tx[q].turn < tx[p].turn)
    <2>1. Open(q) /\ HoldsView(q, k) => q \in Blockers(p)
      BY <1>1, <1>2, <1>3 DEF Blockers, At
    <2>2. Open(q) /\ Queues(q, k) /\ (Waits(p) => tx[q].turn < tx[p].turn) => q \in Blockers(p)
      BY <1>1, <1>2, <1>3 DEF Blockers, At
    <2>3. HoldsView(q, k) => Open(q)
      BY DEF IInv, Progress, HoldsView, Holds
    <2>4. Queues(q, k) => Open(q)
      BY DEF Queues, At
    <2> QED BY <1>1, <2>1, <2>2, <2>3, <2>4
  <1>4. tx[p] \in TxOf /\ tx \in [Projects -> TxOf]
    BY DEF IInv, Types
  <1>5. seen \in ViewOf /\ gens \in GensOf /\ seen.gens = gens /\ seen.late = Waits(p)
    <2>1. gens \in GensOf
      BY <1>2, <1>4, SeenGensAre DEF IInv, TxOf
    <2>2. Waits(p) \in BOOLEAN
      BY DEF Waits
    <2> QED BY <2>1, <2>2 DEF ViewOf
  <1>6. /\ tx[p].views \in [Holds(p) -> ViewOf] /\ Holds(p) \subseteq Views
    BY <1>4 DEF TxOf, Holds
  <1> HIDE DEF gens, seen
  <1>7. /\ more \in [Holds(p) \cup {k} -> ViewOf] /\ DOMAIN more = Holds(p) \cup {k} /\ more[k] = seen
        /\ \A x \in Holds(p) : x # k => more[x] = tx[p].views[x]
    BY <1>2, <1>5, <1>6 DEF Holds
  <1>8. /\ Stepped(p) \in TxOf /\ Stepped(p).step = n /\ Stepped(p).turn = 0
        /\ Stepped(p).keys = tx[p].keys /\ Stepped(p).views = tx[p].views
        /\ Stepped(p).aborted = tx[p].aborted
    BY SteppedIn DEF IInv
  <1>9. PICK t : t = [Stepped(p) EXCEPT !.views = more]
    OBVIOUS
  <1>10. /\ tx' = [tx EXCEPT ![p] = t]
         /\ UNCHANGED <<databaseVars, count, job, phase>> /\ faults' = faults /\ faults \in 0 .. MaxFaults
    BY <1>8, <1>9 DEF RefreshView, Execute, IInv, Types, gens, seen
  <1> HIDE DEF more, n
  <1>11. /\ t.step = n /\ t.turn = 0 /\ t.keys = tx[p].keys /\ t.views = more /\ t.aborted = FALSE
    <2>1. tx[p].aborted \in BOOLEAN
      BY <1>4 DEF TxOf
    <2> QED BY <1>2, <1>8, <1>9, <2>1 DEF TxOf
  <1>12. t \in TxOf
    <2>1. more \in UNION {[D -> ViewOf] : D \in SUBSET Views}
      BY <1>2, <1>6, <1>7
    <2> QED BY <1>8, <1>9, <2>1 DEF TxOf
  <1>13. faults \in Nat /\ faults' \in Nat /\ faults <= faults' /\ faults' \in 0 .. MaxFaults
    BY <1>10, IngestionAssumption
  <1>14. Types'
    <2>1. Locally(p, t)
      BY <1>2, <1>10, <1>12, <1>13 DEF Locally
    <2>2. t.step <= Len(ScriptOf(p)) + 1
      BY <1>2, <1>11 DEF n
    <2> QED BY <2>1, <2>2, LocalTypes DEF IInv
  <1>15. /\ tx'[p] = t /\ (\A q \in Projects : q # p => tx'[q] = tx[q])
         /\ view' = view /\ rows' = rows /\ phase' = phase /\ count' = count /\ shared' = shared
    BY <1>4, <1>10 DEF databaseVars
  <1>16. \A q \in Projects : /\ ScriptOf(q)' = ScriptOf(q) /\ Writing(q)' = Writing(q)
                             /\ Open(q)' = Open(q) /\ Version(q)' = Version(q)
    BY <1>10, ScriptSame
  <1>17. \A q \in Projects : q # p => /\ Holds(q)' = Holds(q) /\ Finished(q)' = Finished(q)
                                      /\ Waits(q)' = Waits(q) /\ \A x : Queues(q, x)' = Queues(q, x)
    BY <1>15, <1>16 DEF Holds, Finished, Waits, Queues, At, Current
  <1>18. Holds(p)' = Holds(p) \cup {k} /\ ~Waits(p)'
    BY <1>7, <1>11, <1>15 DEF Holds, Waits
  <1>19. KeysApart'
    BY <1>11, <1>15 DEF IInv, KeysApart
  <1>20. Progress'
    <2>1. \A q \in Projects : ~Open(q)' => tx'[q].turn = 0 /\ Holds(q)' = {} /\ ~tx'[q].aborted /\ tx'[q].keys = {}
      BY <1>2, <1>15, <1>16, <1>17 DEF IInv, Progress
    <2>2. \A q \in Projects : Waits(q)' => ~Finished(q)' /\ ~tx'[q].aborted
      BY <1>15, <1>17, <1>18 DEF IInv, Progress
    <2>3. ASSUME NEW q \in Projects, phase'[q] = "revalidate"
          PROVE ~tx'[q].aborted /\ Holds(q)' = IF tx'[q].step = 1 THEN {} ELSE {"best"}
      <3>1. CASE q = p
        <4>1. k = "best" /\ Holds(p) = {} /\ tx[p].step = 1
          BY <1>1, <1>15, <2>3, <3>1, RefreshAt DEF IInv
        <4>2. t.step = 2
          BY <1>11, <4>1 DEF n
        <4> QED BY <1>11, <1>15, <1>18, <3>1, <4>1, <4>2
      <3>2. CASE q # p
        BY <1>15, <1>17, <2>3, <3>2 DEF IInv, Progress
      <3> QED BY <3>1, <3>2
    <2>4. ASSUME NEW q \in Projects, phase'[q] \in {"default", "named"}
          PROVE /\ tx'[q].aborted => tx'[q].step <= Len(Writing(q)') + 1
                /\ Holds(q)' = {ScriptOf(q)'[i].what : i \in Len(Writing(q)') + 1 .. tx'[q].step - 1}
      <3>1. CASE q = p
        <4>1. ScriptIs(p) /\ tx[p].step \in Wrote(p) + 1 .. Len(ScriptOf(p)) /\ Wrote(p) \in Nat
          BY <1>1, <1>15, <2>4, <3>1, RefreshAt DEF IInv, ScriptIs
        <4>2. Holds(p) = {ScriptOf(p)[i].what : i \in Wrote(p) + 1 .. tx[p].step - 1}
          BY <1>15, <2>4, <3>1 DEF IInv, Progress, Wrote
        <4>3. k = ScriptOf(p)[tx[p].step].what
          BY DEF Current
        <4>4. tx[p].step - 1 + 1 = t.step - 1 /\ tx[p].step \in Nat
          BY <1>2, <1>11 DEF n
        <4>5. Wrote(p) + 1 .. t.step - 1 = (Wrote(p) + 1 .. tx[p].step - 1) \cup {tx[p].step}
          BY <4>1, <4>4
        <4>6. Holds(p) \cup {k} = {ScriptOf(p)[i].what : i \in Wrote(p) + 1 .. t.step - 1}
          BY <4>2, <4>3, <4>5
        <4> QED BY <1>11, <1>15, <1>16, <1>18, <3>1, <4>6 DEF Wrote
      <3>2. CASE q # p
        BY <1>15, <1>16, <1>17, <2>4, <3>2 DEF IInv, Progress
      <3> QED BY <3>1, <3>2
    <2> QED BY <2>1, <2>2, <2>3, <2>4 DEF Progress
  <1>21. TurnsApart'
    <2>1. tx'[p].turn = 0 /\ \A q \in Projects : q # p => tx'[q].turn = tx[q].turn
      BY <1>11, <1>15
    <2> QED BY <2>1 DEF IInv, TurnsApart, Waits
  <1>22. HoldersApart'
    <2>1. \A q \in Projects : q # p => Holds(p)' \cap Holds(q)' = {}
      BY <1>3, <1>17, <1>18 DEF IInv, HoldersApart, HoldsView, Holds
    <2> QED BY <1>17, <2>1 DEF IInv, HoldersApart
  <1>23. FlatInv'
    <2>1. \A v \in Versions : Tags(v)' = Tags(v)
      BY <1>15 DEF Tags
    <2>2. ASSUME NEW q \in Projects, HoldsView(q, "flat")', ~tx'[q].views["flat"].late
          PROVE  /\ tx'[q].views["flat"].gens[Version(q)] = count[q]
                 /\ \A v \in Versions : Tags(v) /\ v # Version(q) /\ ~(v[1] = q /\ phase[q] = "default") =>
                       tx'[q].views["flat"].gens[v] = rows[v].gen
      <3>1. CASE q = p /\ k = "flat"
        <4>1. tx'[p].views["flat"] = seen
          BY <1>7, <1>11, <1>15, <3>1
        <4>2. ~Waits(p)
          BY <1>5, <2>2, <3>1, <4>1
        <4>3. tx'[p].views["flat"].gens = SeenGens(p)
          BY <1>5, <4>1, <4>2 DEF gens
        <4>4. phase[p] \in {"default", "named"}
          BY <1>1, <3>1, RefreshAt DEF IInv
        <4> QED BY <1>2, <3>1, <4>3, <4>4, SeenGensAre DEF IInv
      <3>2. CASE ~(q = p /\ k = "flat")
        <4>1. HoldsView(q, "flat") /\ tx'[q].views["flat"] = tx[q].views["flat"]
          BY <1>7, <1>11, <1>15, <1>18, <2>2, <3>2 DEF HoldsView, Holds
        <4> QED BY <2>2, <4>1 DEF IInv, FlatInv
      <3> QED BY <3>1, <3>2
    <2>3. \A v \in Versions : Tags(v) => view["flat"].late \/ view["flat"].gens[v] = rows[v].gen
      BY DEF IInv, FlatInv
    <2> QED BY <1>15, <1>16, <2>1, <2>2, <2>3 DEF FlatInv
  <1>24. BestInv'
    <2>1. \A q \in Projects : q # p => /\ HoldsView(q, "best")' = HoldsView(q, "best")
                                       /\ Queues(q, "best")' = Queues(q, "best")
                                       /\ GensFor(q, "best")' = GensFor(q, "best")
                                       /\ Has(q, "best")' = Has(q, "best")
      BY <1>15, <1>17 DEF HoldsView, Holds, Has, GensFor
    <2>2. ~Queues(p, "best")'
      BY <1>18 DEF Queues
    <2>3. CASE k # "best"
      <3>1. HoldsView(p, "best")' = HoldsView(p, "best") /\ ~Queues(p, "best")
        BY <1>18, <2>3 DEF Holds, HoldsView, Queues
      <3>2. HoldsView(p, "best") => tx'[p].views["best"] = tx[p].views["best"]
        BY <1>7, <1>11, <1>15, <2>3 DEF HoldsView, Holds
      <3>3. Has(p, "best")' = Has(p, "best") /\ (Has(p, "best") => GensFor(p, "best")' = GensFor(p, "best"))
        BY <2>2, <3>1, <3>2 DEF Has, GensFor
      <3>4. \A q, r \in Projects : Younger(r, q, "best") => Younger(r, q, "best")'
        BY <1>15, <2>1, <2>2, <3>1 DEF Younger
      <3> QED BY <1>10, <1>13, <2>1, <3>3, <3>4, BestStays DEF IInv
    <2>4. CASE k = "best"
      <3>1. ~HoldsView(p, "best") /\ HoldsView(p, "best")' /\ Has(p, "best")'
            /\ GensFor(p, "best")' = gens
        <4>1. HoldsView(p, "best")'
          BY <1>18, <2>4 DEF HoldsView, Holds
        <4>2. tx'[p].views["best"].gens = gens
          BY <1>5, <1>7, <1>11, <1>15, <2>4
        <4> QED BY <1>2, <2>4, <4>1, <4>2 DEF Has, GensFor
      <3>2. Queues(p, "best") = Waits(p) /\ Has(p, "best") = Waits(p)
        BY <1>1, <2>4, <3>1 DEF Queues, Has, Waits
      <3>3. CASE Waits(p)
        <4>1. Has(p, "best") /\ GensFor(p, "best")' = GensFor(p, "best")
          BY <3>1, <3>2, <3>3 DEF GensFor, gens
        <4>2. ASSUME NEW r \in Projects, NEW q \in Projects, Younger(r, q, "best")
              PROVE  Younger(r, q, "best")'
          <5>1. r # p
            <6> SUFFICES ASSUME r = p PROVE FALSE
              OBVIOUS
            <6>1. q # p
              <7>1. tx[p].turn \in Nat
                BY <1>4 DEF TxOf
              <7> QED BY <3>1, <4>2, <7>1 DEF Younger
            <6> QED BY <1>3, <2>4, <4>2, <6>1 DEF Younger
          <5>2. Queues(r, "best")' /\ tx'[r].turn = tx[r].turn
            BY <1>15, <2>1, <4>2, <5>1 DEF Younger
          <5> QED BY <1>15, <2>1, <3>1, <4>2, <5>1, <5>2 DEF Younger
        <4>3. \A q \in Projects : /\ Has(q, "best")' = Has(q, "best")
                                  /\ Has(q, "best") => GensFor(q, "best")' = GensFor(q, "best")
          BY <2>1, <3>1, <4>1 DEF Has
        <4> QED BY <1>10, <1>13, <4>2, <4>3, BestStays DEF IInv
      <3>4. CASE ~Waits(p)
        <4>1. \A q \in Projects : ~Has(q, "best")
          BY <1>3, <2>4, <3>2, <3>4 DEF Has
        <4>2. \A q \in Projects : q # p => ~Has(q, "best")'
          BY <2>1, <4>1
        <4>3. gens = SeenGens(p)
          BY <3>4 DEF gens
        <4> SUFFICES ASSUME faults' = 0, NEW v \in Versions, ~Pending(v[1])'
                     PROVE  /\ view'["best"].gens[v] # rows'[v].gen =>
                                 \E r \in Projects : /\ phase'[r] = "revalidate" /\ Has(r, "best")'
                                                     /\ GensFor(r, "best")'[v] = rows'[v].gen
                            /\ \A q \in Projects :
                                 Has(q, "best")' /\ ~(q = v[1] /\ phase'[q] = "default")
                                    /\ GensFor(q, "best")'[v] # rows'[v].gen
                                 => \E r \in Projects : /\ phase'[r] = "revalidate" /\ Has(r, "best")'
                                                        /\ GensFor(r, "best")'[v] = rows'[v].gen
                                                        /\ Younger(r, q, "best")'
          BY DEF BestInv
        <4>4. faults = 0 /\ v[1] \in Projects
          BY <1>10 DEF Versions
        <4>5. p # v[1] \/ phase[p] = "revalidate" => SeenGens(p)[v] = rows[v].gen
          <5>1. v = Version(p) => v[1] = p /\ phase[p] \in {"default", "named"}
            BY DEF Version, Versions
          <5> QED BY <1>2, <5>1, SeenGensAre DEF IInv
        <4>6. p = v[1] => phase[p] # "named"
          BY <1>15 DEF Pending
        <4>7. phase[p] \in {"default", "named", "revalidate"}
          BY <1>2 DEF Open, IInv, Types
        <4>8. view["best"].gens[v] # rows[v].gen => p = v[1] /\ phase[p] = "revalidate"
          <5>1. ~Pending(v[1]) => view["best"].gens[v] = rows[v].gen
            BY <4>1, <4>4 DEF IInv, BestInv
          <5>2. Pending(v[1]) => v[1] = p /\ phase[p] = "revalidate"
            BY <1>15, <2>1, <4>4, <4>6 DEF Pending
          <5> QED BY <5>1, <5>2
        <4> QED BY <1>15, <3>1, <4>2, <4>3, <4>5, <4>6, <4>7, <4>8
      <3> QED BY <3>3, <3>4
    <2> QED BY <2>3, <2>4
  <1> QED BY <1>14, <1>19, <1>20, <1>21, <1>22, <1>23, <1>24 DEF IInv

(* A revalidation is not refused, and waits for nobody who waits for it: who *)
(* holds best waits for flat at most, and who holds flat has finished.       *)
LEMMA RevalidationIsNotRefused ==
  ASSUME IInv, NEW p \in Projects, phase[p] = "revalidate"
  PROVE  ~Fails(p)
  <1> SUFFICES ASSUME Fails(p) PROVE FALSE
    OBVIOUS
  <1>1. ~tx[p].aborted
    BY DEF IInv, Progress
  <1>2. ~Finished(p) /\ Open(p)
    BY DEF Fails
  <1>3. tx[p].step \in 1 .. Len(ScriptOf(p)) + 1
    BY <1>2 DEF IInv, Types
  <1>4. Len(ScriptOf(p)) = 1 /\ ScriptOf(p)[1].do = "refresh"
    BY RevalidationShape
  <1>5. tx[p].step = 1
    BY <1>2, <1>3, <1>4 DEF Finished
  <1>6. Current(p).do = "refresh"
    BY <1>4, <1>5 DEF Current
  <1> QED BY <1>1, <1>6 DEF Fails

LEMMA HolderRefreshes ==
  ASSUME IInv, NEW q \in Projects, Holds(q) # {}, ~Finished(q)
  PROVE  At(q, "refresh")
  <1>1. Open(q) /\ tx[q].step \in Nat \ {0}
    BY DEF IInv, Progress, Types, TxOf
  <1>2. CASE phase[q] = "revalidate"
    <2>1. Len(ScriptOf(q)) = 1 /\ ScriptOf(q)[1].do = "refresh"
      BY <1>2, RevalidationShape
    <2>2. tx[q].step = 1
      BY <1>1, <2>1 DEF Finished
    <2> QED BY <1>1, <2>1, <2>2 DEF At, Current
  <1>3. CASE phase[q] # "revalidate"
    <2>1. phase[q] \in {"default", "named"}
      BY <1>1, <1>3 DEF IInv, Types, Open
    <2>2. ScriptIs(q)
      BY <2>1, ScriptShape DEF IInv
    <2>3. Holds(q) = {ScriptOf(q)[i].what : i \in Wrote(q) + 1 .. tx[q].step - 1}
      BY <2>1 DEF IInv, Progress, Wrote
    <2>4. PICK i \in Wrote(q) + 1 .. tx[q].step - 1 : TRUE
      BY <2>3
    <2>5. tx[q].step \in Wrote(q) + 1 .. Len(ScriptOf(q))
      <3>1. Wrote(q) \in Nat /\ Len(ScriptOf(q)) \in Nat
        BY <2>2 DEF ScriptIs
      <3> QED BY <1>1, <2>4, <3>1 DEF Finished
    <2> QED BY <1>1, <2>2, <2>5 DEF ScriptIs, At, Current
  <1> QED BY <1>2, <1>3

LEMMA RevalidationIsNoVictim ==
  ASSUME IInv, NEW p \in Projects, phase[p] = "revalidate"
  PROVE  ~Deadlocked(p)
  <1> SUFFICES ASSUME Deadlocked(p) PROVE FALSE
    OBVIOUS
  <1> DEFINE S == {q \in Projects \ {p} : \/ HoldsView(q, "best") \/ HoldsView(q, "flat") \/ Queues(q, "flat")
                                          \/ Queues(q, "best") /\ tx[q].turn < tx[p].turn}
  <1>1. Waits(p) /\ ~Finished(p) /\ ~tx[p].aborted /\ Open(p)
    BY DEF Deadlocked, IInv, Progress, Open
  <1>2. tx[p].step \in Nat \ {0} /\ \A q \in Projects : tx[q].turn \in Nat
    BY DEF IInv, Types, TxOf
  <1>3. At(p, "refresh") /\ Current(p).what = "best" /\ Holds(p) = {}
    <2>1. Len(ScriptOf(p)) = 1 /\ ScriptOf(p)[1].do = "refresh" /\ ScriptOf(p)[1].what = "best"
      BY RevalidationShape
    <2>2. tx[p].step = 1
      BY <1>1, <1>2, <2>1 DEF Finished
    <2> QED BY <1>1, <2>1, <2>2 DEF At, Current, IInv, Progress
  <1>4. Blockers(p) \subseteq S
    <2> SUFFICES ASSUME NEW q \in Blockers(p) PROVE q \in S
      OBVIOUS
    <2> QED BY <1>1, <1>3 DEF Blockers, At
  <1>5. ASSUME NEW q \in S, Waits(q) PROVE Blockers(q) \subseteq S
    <2>1. ~Finished(q) /\ ~tx[q].aborted
      BY <1>5 DEF IInv, Progress
    <2>2. At(q, "refresh")
      <3>1. CASE Holds(q) # {}
        BY <2>1, <3>1, HolderRefreshes
      <3>2. CASE Holds(q) = {}
        BY <3>2 DEF Queues, HoldsView, Holds
      <3> QED BY <3>1, <3>2
    <2>3. Current(q).what \in Views /\ ~HoldsView(q, Current(q).what)
      BY <2>2, RefreshAt DEF IInv
    <2> SUFFICES ASSUME NEW x \in Blockers(q) PROVE x \in S
      OBVIOUS
    <2>4. /\ x \in Projects /\ x # q
          /\ \/ HoldsView(x, Current(q).what)
             \/ Queues(x, Current(q).what) /\ tx[x].turn < tx[q].turn
      BY <1>5, <2>2 DEF Blockers, At
    <2>5. CASE Current(q).what = "flat"
      <3>1. x # p
        BY <1>3, <2>4, <2>5 DEF HoldsView, Holds, Queues
      <3> QED BY <2>4, <2>5, <3>1
    <2>6. CASE Current(q).what = "best"
      <3>1. Holds(q) = {}
        BY <2>2, <2>6, RefreshAt DEF IInv
      <3>2. tx[q].turn < tx[p].turn
        BY <2>6, <3>1 DEF HoldsView, Holds, Queues
      <3>3. CASE HoldsView(x, "best")
        BY <1>3, <2>4, <3>3 DEF HoldsView, Holds
      <3>4. CASE Queues(x, "best") /\ tx[x].turn < tx[q].turn
        BY <1>2, <2>4, <3>2, <3>4
      <3> QED BY <2>4, <2>6, <3>3, <3>4
    <2> QED BY <2>3, <2>5, <2>6 DEF Views
  <1>6. S \in SUBSET Projects /\ p \notin S
    OBVIOUS
  <1> HIDE DEF S
  <1> QED BY <1>4, <1>5, <1>6 DEF Deadlocked

(* The end of a transaction, and the beginning of the next one.              *)
LEMMA NewTxIn ==
  ASSUME NEW alone \in BOOLEAN
  PROVE  /\ NewTx(alone) \in TxOf
         /\ NewTx(alone).step = 1 /\ NewTx(alone).turn = 0 /\ NewTx(alone).keys = {}
         /\ NewTx(alone).aborted = FALSE /\ DOMAIN NewTx(alone).views = {}
         /\ NewTx(alone).recipes = {} /\ NewTx(alone).benches = {}
         /\ NewTx(alone).found = NoRow /\ NewTx(alone).solo = alone
  <1> DEFINE gens == [v \in Versions |-> 0]
             none == <<>>
  <1>1. gens \in GensOf /\ NoRow \in RowsOf
    BY IngestionAssumption DEF GensOf, NoRow, RowsOf, Row
  <1>2. none \in [{} -> ViewOf] /\ DOMAIN none = {}
    OBVIOUS
  <1> HIDE DEF none
  <1>3. none \in UNION {[D -> ViewOf] : D \in SUBSET Views}
    BY <1>2
  <1> HIDE DEF gens
  <1>4. NewTx(alone) = [step |-> 1, turn |-> 0, aborted |-> FALSE, keys |-> {}, recipes |-> {}, benches |-> {},
                        found |-> NoRow, snapshot |-> gens, views |-> none, solo |-> alone]
    BY DEF NewTx, gens, none
  <1> QED BY <1>1, <1>2, <1>3, <1>4 DEF TxOf

LEMMA EnterFrame ==
  ASSUME Types, NEW p \in Projects, NEW next, Enter(p, next)
  PROVE  /\ tx' \in [Projects -> TxOf]
         /\ tx'[p].step = 1 /\ tx'[p].turn = 0 /\ tx'[p].keys = {} /\ tx'[p].aborted = FALSE
         /\ phase'[p] = next /\ Holds(p)' = {} /\ ~Waits(p)'
         /\ \A k : ~HoldsView(p, k)' /\ ~Queues(p, k)' /\ ~Has(p, k)'
  <1> DEFINE alone == next # "idle" /\ {q \in Projects \ {p} : Open(q)} = {}
             left(q) == [tx[q] EXCEPT !.solo = tx[q].solo /\ next = "idle"]
  <1>1. phase'[p] = next
    BY DEF Enter, Types
  <1>2. alone \in BOOLEAN
    OBVIOUS
  <1>3. tx' = [q \in Projects |-> IF q = p THEN NewTx(alone) ELSE left(q)]
    BY DEF Enter
  <1>4. ASSUME NEW q \in Projects PROVE left(q) \in TxOf
    <2> DEFINE solo == tx[q].solo /\ next = "idle"
    <2>1. tx[q] \in TxOf /\ solo \in BOOLEAN
      BY DEF Types
    <2> HIDE DEF solo
    <2>2. left(q) = [tx[q] EXCEPT !.solo = solo]
      BY DEF solo
    <2> HIDE DEF left
    <2> QED BY <2>1, <2>2 DEF TxOf
  <1> HIDE DEF alone, left
  <1>5. tx'[p] = NewTx(alone)
    BY <1>3
  <1>6. tx' \in [Projects -> TxOf]
    BY <1>2, <1>3, <1>4, NewTxIn
  <1>7. tx'[p].step = 1 /\ tx'[p].turn = 0 /\ tx'[p].keys = {} /\ tx'[p].aborted = FALSE
        /\ DOMAIN tx'[p].views = {}
    BY <1>2, <1>5, NewTxIn
  <1>8. Holds(p)' = {} /\ ~Waits(p)' /\ \A k : ~HoldsView(p, k)' /\ ~Queues(p, k)'
    BY <1>7 DEF Holds, Waits, HoldsView, Queues
  <1> QED BY <1>1, <1>6, <1>7, <1>8 DEF Has

LEMMA EnterBlank ==
  ASSUME Types, NEW p \in Projects, NEW next, Enter(p, next)
  PROVE  tx'[p].recipes = {} /\ tx'[p].benches = {} /\ tx'[p].found = NoRow
  <1> DEFINE alone == next # "idle" /\ {q \in Projects \ {p} : Open(q)} = {}
  <1>1. alone \in BOOLEAN
    OBVIOUS
  <1>2. tx'[p] = NewTx(alone)
    BY DEF Enter
  <1> HIDE DEF alone
  <1> QED BY <1>1, <1>2, NewTxIn

LEMMA EnterOthers ==
  ASSUME Types, NEW p \in Projects, NEW next, Enter(p, next), NEW q \in Projects, q # p
  PROVE  /\ phase'[q] = phase[q]
         /\ tx'[q].step = tx[q].step /\ tx'[q].turn = tx[q].turn /\ tx'[q].keys = tx[q].keys
         /\ tx'[q].aborted = tx[q].aborted /\ tx'[q].views = tx[q].views
         /\ tx'[q].snapshot = tx[q].snapshot /\ tx'[q].found = tx[q].found
         /\ tx'[q].recipes = tx[q].recipes /\ tx'[q].benches = tx[q].benches
  <1> DEFINE solo == tx[q].solo /\ next = "idle"
  <1>1. phase'[q] = phase[q]
    BY DEF Enter, Types
  <1>2. tx[q] \in TxOf
    BY DEF Types
  <1>3. tx'[q] = [tx[q] EXCEPT !.solo = solo]
    BY DEF Enter
  <1> HIDE DEF solo
  <1> QED BY <1>1, <1>2, <1>3 DEF TxOf

(* The other transactions are where they were.                               *)
LEMMA OthersStay ==
  ASSUME Types, NEW p \in Projects, NEW next, Enter(p, next), NEW q \in Projects, q # p, job'[q] = job[q]
  PROVE  /\ ScriptOf(q)' = ScriptOf(q) /\ Writing(q)' = Writing(q) /\ Open(q)' = Open(q)
         /\ Version(q)' = Version(q) /\ Holds(q)' = Holds(q) /\ Waits(q)' = Waits(q)
         /\ Finished(q)' = Finished(q)
         /\ \A k : /\ HoldsView(q, k)' = HoldsView(q, k) /\ Queues(q, k)' = Queues(q, k)
                   /\ Has(q, k)' = Has(q, k) /\ GensFor(q, k)' = GensFor(q, k)
  <1>1. /\ phase'[q] = phase[q] /\ tx'[q].step = tx[q].step /\ tx'[q].turn = tx[q].turn
        /\ tx'[q].views = tx[q].views /\ tx'[q].snapshot = tx[q].snapshot
    BY EnterOthers
  <1>2. Source(q)' = Source(q) /\ Open(q)' = Open(q) /\ Version(q)' = Version(q)
    BY <1>1 DEF Source, Open, Version
  <1>3. ScriptOf(q)' = ScriptOf(q) /\ Writing(q)' = Writing(q)
    BY <1>1, <1>2 DEF ScriptOf, Writing
  <1>4. Holds(q)' = Holds(q) /\ Waits(q)' = Waits(q) /\ Finished(q)' = Finished(q)
    BY <1>1, <1>3 DEF Holds, Waits, Finished
  <1>5. \A k : HoldsView(q, k)' = HoldsView(q, k) /\ Queues(q, k)' = Queues(q, k)
    BY <1>1, <1>2, <1>3, <1>4 DEF HoldsView, Queues, At, Current
  <1>6. \A k : Has(q, k)' = Has(q, k) /\ GensFor(q, k)' = GensFor(q, k)
    BY <1>1, <1>5 DEF Has, GensFor
  <1> QED BY <1>2, <1>3, <1>4, <1>5, <1>6

(* What may come next.                                                       *)
Phases == {"idle", "default", "named", "revalidate"}

LEMMA EnterStep ==
  ASSUME IInv, NEW p \in Projects, NEW next \in Phases, Enter(p, next),
         shared' \subseteq shared \cup tx[p].keys,
         rows' \in [Versions -> [gen : 0 .. MaxDeploys, source : DOMAIN Files, recipes : SUBSET RecipeRows]],
         \A v \in Versions : rows'[v].gen <= count'[v[1]],
         benches' \subseteq BenchRows, view' \in [Views -> ViewOf],
         count' \in [Projects -> 0 .. MaxDeploys], faults' \in 0 .. MaxFaults,
         job' \in [Projects -> UNION {Jobs[q] : q \in Projects}], job'[p] \in Jobs[p],
         \A q \in Projects : q # p => job'[q] = job[q]
  PROVE  Types' /\ KeysApart' /\ Progress' /\ TurnsApart' /\ HoldersApart'
  <1>0. Types /\ KeysApart /\ Progress /\ TurnsApart /\ HoldersApart
    BY DEF IInv
  <1>1. /\ tx' \in [Projects -> TxOf]
        /\ tx'[p].step = 1 /\ tx'[p].turn = 0 /\ tx'[p].keys = {} /\ tx'[p].aborted = FALSE
        /\ phase'[p] = next /\ Holds(p)' = {} /\ ~Waits(p)'
    BY <1>0, EnterFrame
  <1>2. ASSUME NEW q \in Projects, q # p
        PROVE  /\ phase'[q] = phase[q]
               /\ tx'[q].step = tx[q].step /\ tx'[q].turn = tx[q].turn /\ tx'[q].keys = tx[q].keys
               /\ tx'[q].aborted = tx[q].aborted
    BY <1>0, <1>2, EnterOthers
  <1>3. \A q \in Projects : q # p =>
           /\ ScriptOf(q)' = ScriptOf(q) /\ Writing(q)' = Writing(q) /\ Open(q)' = Open(q)
           /\ Holds(q)' = Holds(q) /\ Waits(q)' = Waits(q) /\ Finished(q)' = Finished(q)
    BY OthersStay DEF IInv
  <1>4. shared' \subseteq KeysOf
    BY DEF IInv, Types, TxOf
  <1>5. phase' \in [Projects -> Phases]
    BY DEF Enter, IInv, Types, Phases
  <1>6. \A q \in Projects : job'[q] \in Jobs[q]
    BY DEF IInv, Types
  <1>7. IF next = "revalidate" THEN Len(ScriptOf(p)') = 1
        ELSE next # "idle" => Len(ScriptOf(p)') \in Nat
    <2>1. CASE next = "revalidate"
      BY <1>1, <2>1 DEF ScriptOf, Statement
    <2>2. CASE next \in {"default", "named"}
      <3> DEFINE c == Source(p)'
      <3>1. c \in DOMAIN Files /\ IsCheckout(Files[c])
        BY <1>6, IngestionAssumption DEF Source
      <3> HIDE DEF c
      <3>2. ScriptOf(p)' = Script(Files[c], Modid[p], next = "default")
        <4>1. (next = "default") \in BOOLEAN
          OBVIOUS
        <4> QED BY <1>1, <2>2, <3>1, <4>1 DEF ScriptOf, Scripts, c
      <3>3. Writes(Files[c], Modid[p], next = "default") \in Seq(StatementsOf)
        BY <3>1, WritesIn DEF Parts
      <3>4. Refreshes(Files[c]) \in Seq(StatementsOf)
        BY RefreshesAre
      <3> QED BY <2>2, <3>2, <3>3, <3>4 DEF Script
    <2> QED BY <2>1, <2>2 DEF Phases
  <1>8. \A q \in Projects : Open(q)' => tx'[q].step \in 1 .. Len(ScriptOf(q)') + 1
    <2>1. Open(p)' => tx'[p].step \in 1 .. Len(ScriptOf(p)') + 1
      BY <1>1, <1>7 DEF Open
    <2>2. \A q \in Projects : q # p /\ Open(q) => tx[q].step \in 1 .. Len(ScriptOf(q)) + 1
      BY DEF IInv, Types
    <2> QED BY <1>2, <1>3, <2>1, <2>2
  <1>9. Types'
    BY <1>1, <1>4, <1>5, <1>6, <1>8 DEF Types, Phases
  <1>10. KeysApart'
    <2>1. \A q \in Projects : tx'[q].keys \cap shared' = {}
      BY <1>0, <1>1, <1>2 DEF KeysApart
    <2>2. ASSUME NEW q \in Projects, NEW r \in Projects, q # r PROVE tx'[q].keys \cap tx'[r].keys = {}
      <3>1. \A x \in Projects : tx'[x].keys \subseteq tx[x].keys
        BY <1>1, <1>2
      <3>2. tx[q].keys \cap tx[r].keys = {}
        BY <1>0, <2>2 DEF KeysApart
      <3> QED BY <3>1, <3>2
    <2> QED BY <2>1, <2>2 DEF KeysApart
  <1>11. TurnsApart' /\ HoldersApart'
    <2>1. TurnsApart'
      BY <1>0, <1>1, <1>2 DEF TurnsApart, Waits
    <2>2. HoldersApart'
      BY <1>0, <1>1, <1>3 DEF HoldersApart
    <2> QED BY <2>1, <2>2
  <1>12. Progress'
    <2>1. ASSUME NEW q \in Projects, ~Open(q)'
          PROVE  tx'[q].turn = 0 /\ Holds(q)' = {} /\ ~tx'[q].aborted /\ tx'[q].keys = {}
      BY <1>1, <1>2, <1>3, <2>1, <1>0 DEF Progress
    <2>2. ASSUME NEW q \in Projects, phase'[q] = "revalidate"
          PROVE ~tx'[q].aborted /\ Holds(q)' = IF tx'[q].step = 1 THEN {} ELSE {"best"}
      <3>1. CASE q = p
        BY <1>1, <3>1
      <3>2. CASE q # p
        <4>1. phase[q] = "revalidate"
          BY <1>2, <2>2, <3>2
        <4>2. ~tx[q].aborted /\ Holds(q) = IF tx[q].step = 1 THEN {} ELSE {"best"}
          BY <1>0, <4>1 DEF Progress
        <4> QED BY <1>2, <1>3, <3>2, <4>2
      <3> QED BY <3>1, <3>2
    <2>3. ASSUME NEW q \in Projects, phase'[q] \in {"default", "named"}
          PROVE /\ tx'[q].aborted => tx'[q].step <= Len(Writing(q)') + 1
                /\ Holds(q)' = {ScriptOf(q)'[i].what : i \in Len(Writing(q)') + 1 .. tx'[q].step - 1}
      <3>1. CASE q = p
        <4>1. Len(Writing(p)') \in Nat
          <5>1. IsCheckout(Files[Source(p)])'
            BY <1>6, IngestionAssumption DEF Source
          <5>2. Writing(p)' \in Seq(StatementsOf)
            BY <5>1, WritesIn DEF Writing, Parts
          <5> QED BY <5>2
        <4>2. Len(Writing(p)') + 1 .. tx'[p].step - 1 = {}
          BY <1>1, <4>1
        <4> QED BY <1>1, <3>1, <4>2
      <3>2. CASE q # p
        <4>1. phase[q] \in {"default", "named"}
          BY <1>2, <2>3, <3>2
        <4>2. /\ tx[q].aborted => tx[q].step <= Len(Writing(q)) + 1
              /\ Holds(q) = {ScriptOf(q)[i].what : i \in Len(Writing(q)) + 1 .. tx[q].step - 1}
          BY <1>0, <4>1 DEF Progress
        <4>3. /\ Writing(q)' = Writing(q) /\ ScriptOf(q)' = ScriptOf(q) /\ Holds(q)' = Holds(q)
              /\ tx'[q].step = tx[q].step /\ tx'[q].aborted = tx[q].aborted
          BY <1>2, <1>3, <3>2
        <4> QED BY <4>2, <4>3
      <3> QED BY <3>1, <3>2
    <2>4. \A q \in Projects : Waits(q)' => ~Finished(q)' /\ ~tx'[q].aborted
      BY <1>0, <1>1, <1>2, <1>3 DEF Progress
    <2> QED BY <2>1, <2>2, <2>3, <2>4 DEF Progress
  <1> QED BY <1>9, <1>10, <1>11, <1>12

(* What is said of best when p is through with a transaction: whoever came   *)
(* later than it is a revalidation of another project.                       *)
LEMMA EnterBest ==
  ASSUME IInv, NEW p \in Projects, NEW next, Enter(p, next), faults' = 0 => faults = 0,
         \A q \in Projects : q # p => job'[q] = job[q],
         \A v \in Versions : v[1] # p => rows'[v].gen = rows[v].gen,
         Pending(p)' \/ (~Pending(p) /\ \A v \in Versions : v[1] = p => rows'[v].gen = rows[v].gen),
         phase[p] = "revalidate" => Finished(p),
         \/ view'["best"] = view["best"] /\ phase[p] # "revalidate"
         \/ /\ HoldsView(p, "best") /\ view'["best"] = tx[p].views["best"]
            /\ phase[p] = "default" => Pending(p)'
  PROVE  BestInv'
  <1>0. Types /\ BestInv
    BY DEF IInv
  <1>1. ASSUME NEW q \in Projects, q # p
        PROVE  /\ phase'[q] = phase[q] /\ tx'[q].turn = tx[q].turn
               /\ HoldsView(q, "best")' = HoldsView(q, "best") /\ Queues(q, "best")' = Queues(q, "best")
               /\ Has(q, "best")' = Has(q, "best") /\ GensFor(q, "best")' = GensFor(q, "best")
    BY <1>0, <1>1, EnterOthers, OthersStay
  <1>2. ~Has(p, "best")'
    BY <1>0, EnterFrame
  <1>3. phase[p] = "revalidate" => ~Queues(p, "best")
    BY DEF Queues, At
  <1> DEFINE sees(r, v) == phase[r] = "revalidate" /\ Has(r, "best") /\ GensFor(r, "best")[v] = rows[v].gen
             seesAfter(r, v) == /\ phase'[r] = "revalidate" /\ Has(r, "best")'
                                /\ GensFor(r, "best")'[v] = rows'[v].gen
  <1>4. ASSUME NEW r \in Projects, NEW q \in Projects, q # p, phase[r] = "revalidate", Younger(r, q, "best")
        PROVE  r # p /\ Younger(r, q, "best")'
    <2>1. r # p
      BY <1>3, <1>4 DEF Younger
    <2>2. Queues(r, "best")'
      BY <1>1, <1>4, <2>1 DEF Younger
    <2>3. HoldsView(q, "best")' \/ (Queues(q, "best")' /\ tx'[q].turn < tx'[r].turn)
      BY <1>1, <1>4, <2>1 DEF Younger
    <2> QED BY <2>1, <2>2, <2>3 DEF Younger
  <1>5. ASSUME NEW v \in Versions, ~Pending(v[1])'
        PROVE  /\ ~Pending(v[1]) /\ rows'[v].gen = rows[v].gen /\ v[1] \in Projects
    <2>1. v[1] \in Projects
      BY DEF Versions
    <2>2. CASE v[1] = p
      BY <1>5, <2>2
    <2>3. CASE v[1] # p
      BY <1>1, <1>5, <2>1, <2>3 DEF Pending
    <2> QED BY <2>1, <2>2, <2>3
  <1>6. ASSUME faults' = 0, NEW v \in Versions, ~Pending(v[1])'
        PROVE  /\ view'["best"].gens[v] # rows'[v].gen => \E r \in Projects : seesAfter(r, v)
               /\ \A q \in Projects :
                    Has(q, "best")' /\ ~(q = v[1] /\ phase'[q] = "default")
                       /\ GensFor(q, "best")'[v] # rows'[v].gen
                    => \E r \in Projects : seesAfter(r, v) /\ Younger(r, q, "best")'
    <2>1. /\ view["best"].gens[v] # rows[v].gen => \E r \in Projects : sees(r, v)
          /\ \A q \in Projects :
               Has(q, "best") /\ ~(q = v[1] /\ phase[q] = "default") /\ GensFor(q, "best")[v] # rows[v].gen
               => \E r \in Projects : sees(r, v) /\ Younger(r, q, "best")
      BY <1>0, <1>5, <1>6 DEF BestInv
    <2>2. \A r \in Projects : r # p /\ sees(r, v) => seesAfter(r, v)
      BY <1>1, <1>5, <1>6
    <2>3. ASSUME view'["best"].gens[v] # rows'[v].gen PROVE \E r \in Projects : seesAfter(r, v)
      <3>1. CASE view'["best"] = view["best"] /\ phase[p] # "revalidate"
        <4>1. PICK r \in Projects : sees(r, v)
          BY <1>5, <1>6, <2>1, <2>3, <3>1
        <4> QED BY <2>2, <3>1, <4>1
      <3>2. CASE /\ HoldsView(p, "best") /\ view'["best"] = tx[p].views["best"]
                 /\ phase[p] = "default" => Pending(p)'
        <4>1. Has(p, "best") /\ GensFor(p, "best") = view'["best"].gens
          BY <3>2 DEF Has, GensFor
        <4>2. ~(p = v[1] /\ phase[p] = "default")
          BY <1>6, <3>2
        <4>3. GensFor(p, "best")[v] # rows[v].gen
          BY <1>5, <1>6, <2>3, <4>1
        <4>4. PICK r \in Projects : sees(r, v) /\ Younger(r, p, "best")
          BY <2>1, <4>1, <4>2, <4>3
        <4>5. r # p
          BY <1>3, <4>4 DEF Younger
        <4> QED BY <2>2, <4>4, <4>5
      <3> QED BY <3>1, <3>2
    <2>4. ASSUME NEW q \in Projects, Has(q, "best")', ~(q = v[1] /\ phase'[q] = "default"),
                 GensFor(q, "best")'[v] # rows'[v].gen
          PROVE  \E r \in Projects : seesAfter(r, v) /\ Younger(r, q, "best")'
      <3>1. q # p
        BY <1>2, <2>4
      <3>2. Has(q, "best") /\ ~(q = v[1] /\ phase[q] = "default") /\ GensFor(q, "best")[v] # rows[v].gen
        BY <1>1, <1>5, <1>6, <2>4, <3>1
      <3>3. PICK r \in Projects : sees(r, v) /\ Younger(r, q, "best")
        BY <2>1, <3>2
      <3>4. r # p /\ Younger(r, q, "best")'
        BY <1>4, <3>1, <3>3
      <3> QED BY <2>2, <3>3, <3>4
    <2> QED BY <2>3, <2>4
  <1> HIDE DEF seesAfter
  <1>7. \A v \in Versions : faults' = 0 /\ ~Pending(v[1])' =>
           /\ view'["best"].gens[v] # rows'[v].gen => \E r \in Projects : seesAfter(r, v)
           /\ \A q \in Projects :
                Has(q, "best")' /\ ~(q = v[1] /\ phase'[q] = "default")
                   /\ GensFor(q, "best")'[v] # rows'[v].gen
                => \E r \in Projects : seesAfter(r, v) /\ Younger(r, q, "best")'
    BY <1>6
  <1> QED BY <1>7 DEF BestInv, seesAfter

(* What is said of flat, if p has not refreshed it or does not commit.       *)
LEMMA EnterFlat ==
  ASSUME IInv, NEW p \in Projects, NEW next, Enter(p, next), view'["flat"] = view["flat"],
         \A q \in Projects : q # p => job'[q] = job[q] /\ count'[q] = count[q],
         \A v \in Versions : Tags(v)' => Tags(v) /\ rows'[v].gen = rows[v].gen
  PROVE  FlatInv'
  <1>0. Types /\ FlatInv
    BY DEF IInv
  <1>1. ASSUME NEW v \in Versions, Tags(v)'
        PROVE  view'["flat"].late \/ view'["flat"].gens[v] = rows'[v].gen
    BY <1>0, <1>1 DEF FlatInv
  <1>2. ASSUME NEW q \in Projects, HoldsView(q, "flat")', ~tx'[q].views["flat"].late
        PROVE  /\ tx'[q].views["flat"].gens[Version(q)'] = count'[q]
               /\ \A v \in Versions : Tags(v)' /\ v # Version(q)' /\ ~(v[1] = q /\ phase'[q] = "default") =>
                     tx'[q].views["flat"].gens[v] = rows'[v].gen
    <2>1. q # p
      BY <1>0, <1>2, EnterFrame
    <2>2. /\ phase'[q] = phase[q] /\ tx'[q].views = tx[q].views /\ count'[q] = count[q]
          /\ HoldsView(q, "flat")' = HoldsView(q, "flat") /\ Version(q)' = Version(q)
      BY <1>0, <2>1, EnterOthers, OthersStay
    <2>3. /\ tx[q].views["flat"].gens[Version(q)] = count[q]
          /\ \A v \in Versions : Tags(v) /\ v # Version(q) /\ ~(v[1] = q /\ phase[q] = "default") =>
                tx[q].views["flat"].gens[v] = rows[v].gen
      BY <1>0, <1>2, <2>2 DEF FlatInv
    <2> QED BY <2>2, <2>3
  <1> QED BY <1>1, <1>2 DEF FlatInv

LEMMA DeployStep == ASSUME IInv, NEW p \in Projects, Deploy(p) PROVE IInv'
  <1>1. /\ phase[p] = "idle" /\ count[p] < MaxDeploys /\ count' = [count EXCEPT ![p] = @ + 1]
        /\ Enter(p, "default") /\ UNCHANGED <<databaseVars, reported, faults>>
    BY DEF Deploy
  <1>2. PICK j \in Jobs[p] : job' = [job EXCEPT ![p] = j]
    BY DEF Deploy
  <1>0. Types
    BY DEF IInv
  <1>3. /\ job' \in [Projects -> UNION {Jobs[q] : q \in Projects}] /\ job'[p] \in Jobs[p]
        /\ \A q \in Projects : q # p => job'[q] = job[q]
    BY <1>0, <1>2 DEF Types
  <1>4. /\ count' \in [Projects -> 0 .. MaxDeploys]
        /\ \A q \in Projects : count[q] <= count'[q] /\ (q # p => count'[q] = count[q])
    <2>1. count \in [Projects -> 0 .. MaxDeploys] /\ MaxDeploys \in Nat
      BY <1>0, IngestionAssumption DEF Types
    <2>2. count[p] + 1 \in 0 .. MaxDeploys
      BY <1>1, <2>1
    <2> QED BY <1>1, <2>1, <2>2
  <1>5. shared' = shared /\ rows' = rows /\ benches' = benches /\ view' = view /\ faults' = faults
    BY <1>1 DEF databaseVars
  <1>6. \A v \in Versions : rows'[v].gen <= count'[v[1]]
    <2> SUFFICES ASSUME NEW v \in Versions PROVE rows[v].gen <= count'[v[1]]
      BY <1>5
    <2>1. v[1] \in Projects
      BY DEF Versions
    <2>2. rows[v].gen <= count[v[1]] /\ rows[v].gen \in 0 .. MaxDeploys /\ count[v[1]] \in 0 .. MaxDeploys
          /\ count'[v[1]] \in 0 .. MaxDeploys /\ MaxDeploys \in Nat
      BY <1>0, <1>4, <2>1, IngestionAssumption DEF Types
    <2> QED BY <1>4, <2>1, <2>2
  <1>7. Types' /\ KeysApart' /\ Progress' /\ TurnsApart' /\ HoldersApart'
    <2>1. /\ shared' \subseteq shared \cup tx[p].keys /\ benches' \subseteq BenchRows
          /\ view' \in [Views -> ViewOf] /\ faults' \in 0 .. MaxFaults
          /\ rows' \in [Versions -> [gen : 0 .. MaxDeploys, source : DOMAIN Files, recipes : SUBSET RecipeRows]]
      BY <1>0, <1>5 DEF Types
    <2>2. "default" \in Phases
      BY DEF Phases
    <2> QED BY <1>1, <1>3, <1>4, <1>6, <2>1, <2>2, EnterStep
  <1>8. ~Pending(p)' /\ ~Pending(p)
    <2>1. phase'[p] = "default"
      BY <1>0, <1>1, EnterFrame
    <2> QED BY <1>1, <2>1 DEF Pending
  <1>9. BestInv'
    BY <1>1, <1>3, <1>5, <1>8, EnterBest
  <1>10. FlatInv'
    <2>1. \A v \in Versions : Tags(v)' = Tags(v)
      BY <1>5 DEF Tags
    <2> QED BY <1>1, <1>3, <1>4, <1>5, <2>1, EnterFlat
  <1> QED BY <1>7, <1>9, <1>10 DEF IInv

(* A rollback, and the end of a transaction that had been aborted.           *)
LEMMA RollbackStep ==
  ASSUME IInv, NEW p \in Projects, NEW next \in Phases, Enter(p, next), UNCHANGED <<databaseVars, count, job>>,
         faults' \in 0 .. MaxFaults, faults' = 0 => faults = 0 /\ phase[p] # "revalidate",
         next = "revalidate" \/ next = "named" \/ (next = "idle" /\ phase[p] # "named")
  PROVE  IInv'
  <1>0. Types
    BY DEF IInv
  <1>1. shared' = shared /\ rows' = rows /\ benches' = benches /\ view' = view /\ count' = count /\ job' = job
    BY DEF databaseVars
  <1>2. Types' /\ KeysApart' /\ Progress' /\ TurnsApart' /\ HoldersApart'
    <2>1. /\ shared' \subseteq shared \cup tx[p].keys /\ benches' \subseteq BenchRows
          /\ view' \in [Views -> ViewOf] /\ count' \in [Projects -> 0 .. MaxDeploys]
          /\ rows' \in [Versions -> [gen : 0 .. MaxDeploys, source : DOMAIN Files, recipes : SUBSET RecipeRows]]
          /\ job' \in [Projects -> UNION {Jobs[q] : q \in Projects}] /\ job'[p] \in Jobs[p]
          /\ (\A v \in Versions : rows'[v].gen <= count'[v[1]])
          /\ \A q \in Projects : q # p => job'[q] = job[q]
      BY <1>0, <1>1 DEF Types
    <2> QED BY <2>1, EnterStep
  <1>3. BestInv'
    <2>1. CASE faults' # 0
      BY <2>1 DEF BestInv
    <2>2. CASE faults' = 0
      <3>1. phase'[p] = next /\ ~Has(p, "best")'
        BY <1>0, EnterFrame
      <3>2. Pending(p)' \/ ~Pending(p)
        <4>1. next = "named" \/ next = "revalidate" => Pending(p)'
          BY <3>1 DEF Pending
        <4>2. next = "idle" /\ phase[p] # "named" /\ phase[p] # "revalidate" => ~Pending(p)
          BY DEF Pending
        <4> QED BY <2>2, <4>1, <4>2
      <3> QED BY <1>1, <2>2, <3>2, EnterBest
    <2> QED BY <2>1, <2>2
  <1>4. FlatInv'
    <2>1. \A v \in Versions : Tags(v)' = Tags(v)
      BY <1>1 DEF Tags
    <2> QED BY <1>1, <2>1, EnterFlat
  <1> QED BY <1>2, <1>3, <1>4 DEF IInv

LEMMA StatementFailsStep ==
  ASSUME IInv, NEW p \in Projects, StatementFails(p), UNCHANGED <<databaseVars, count, job>>,
         faults' \in 0 .. MaxFaults, faults <= faults', faults' = 0 => phase[p] # "revalidate"
  PROVE  IInv'
  <1>1. CASE At(p, "bench") /\ ~tx[p].aborted
    BY <1>1, SkipBenchStep DEF StatementFails
  <1>2. CASE ~(At(p, "bench") /\ ~tx[p].aborted)
    <2> DEFINE next == IF phase[p] = "named" THEN "revalidate" ELSE "idle"
    <2>1. Enter(p, next)
      BY <1>2 DEF StatementFails, Rollback
    <2>2. next \in Phases /\ (next = "revalidate" \/ (next = "idle" /\ phase[p] # "named"))
      BY DEF Phases
    <2>3. faults' = 0 => faults = 0
      BY IngestionAssumption DEF IInv, Types
    <2>4. PICK n \in Phases : n = next
      BY <2>2
    <2> HIDE DEF next
    <2> QED BY <2>1, <2>2, <2>3, <2>4, RollbackStep
  <1> QED BY <1>1, <1>2

(* What a commit stores.                                                     *)
LEMMA StoreGives ==
  ASSUME IInv, NEW p \in Projects, Open(p), Store(p)
  PROVE  /\ shared' = shared \cup tx[p].keys /\ benches' \subseteq BenchRows /\ view' \in [Views -> ViewOf]
         /\ rows' \in [Versions -> [gen : 0 .. MaxDeploys, source : DOMAIN Files, recipes : SUBSET RecipeRows]]
         /\ \A v \in Versions : rows'[v].gen <= count[v[1]]
         /\ \A v \in Versions :
               /\ v = Version(p) => rows'[v].gen = count[p] /\ rows'[v].source = Source(p)
               /\ v # Version(p) /\ v[1] = p /\ phase[p] = "default" => rows'[v].source = NoVersion
               /\ v # Version(p) /\ ~(v[1] = p /\ phase[p] = "default") =>
                     rows'[v].gen = rows[v].gen /\ rows'[v].source = rows[v].source
         /\ \A k \in Views : view'[k] = IF HoldsView(p, k) THEN tx[p].views[k] ELSE view[k]
  <1> DEFINE gone(x) == phase[p] = "default" /\ x.version[1] = p /\ x.gen # count[p]
             new == [gen |-> count[p], source |-> Source(p), recipes |-> tx[p].recipes]
             left(v) == {r \in rows[v].recipes : ~gone(r.type)}
             kept(v) == IF v[1] = p /\ phase[p] = "default" THEN NoRows ELSE [rows[v] EXCEPT !.recipes = left(v)]
             OneRows == [gen : 0 .. MaxDeploys, source : DOMAIN Files, recipes : SUBSET RecipeRows]
  <1>0. Types /\ MaxDeploys \in Nat
    BY IngestionAssumption DEF IInv
  <1>1. /\ shared' = shared \cup tx[p].keys
        /\ rows' = [v \in Versions |-> IF v = Version(p) THEN new ELSE kept(v)]
        /\ benches' = {b \in benches \cup tx[p].benches : ~gone(b.type) /\ ~gone(b.item)}
        /\ view' = [k \in Views |-> IF k \in DOMAIN tx[p].views THEN tx[p].views[k] ELSE view[k]]
    BY DEF Store
  <1>2. tx[p] \in TxOf
    BY <1>0 DEF Types
  <1>3. benches' \subseteq BenchRows
    <2>1. benches \subseteq BenchRows /\ tx[p].benches \subseteq BenchRows
      BY <1>0, <1>2 DEF Types, TxOf
    <2> HIDE DEF gone
    <2> QED BY <1>1, <2>1
  <1>4. /\ \A k \in Views : view'[k] = IF HoldsView(p, k) THEN tx[p].views[k] ELSE view[k]
        /\ view' \in [Views -> ViewOf]
    <2>1. PICK D \in SUBSET Views : tx[p].views \in [D -> ViewOf]
      BY <1>2 DEF TxOf
    <2>2. \A k \in DOMAIN tx[p].views : tx[p].views[k] \in ViewOf
      BY <2>1
    <2>3. view \in [Views -> ViewOf]
      BY <1>0 DEF Types
    <2> QED BY <1>1, <2>2, <2>3 DEF HoldsView
  <1>5. new \in OneRows /\ new.gen = count[p] /\ new.source = Source(p)
    <2>1. count[p] \in 0 .. MaxDeploys /\ Source(p) \in DOMAIN Files /\ tx[p].recipes \subseteq RecipeRows
      BY <1>0, <1>2, SourceIn DEF Types, TxOf
    <2> QED BY <2>1
  <1>6. NoRows \in OneRows /\ NoRows.gen = 0 /\ NoRows.source = NoVersion
    <2>1. NoVersion \in DOMAIN Files
      BY IngestionAssumption
    <2> QED BY <1>0, <2>1 DEF NoRows
  <1>7. ASSUME NEW v \in Versions
        PROVE  LET r == [rows[v] EXCEPT !.recipes = left(v)] IN
               r \in OneRows /\ r.gen = rows[v].gen /\ r.source = rows[v].source
    <2>1. rows[v] \in OneRows
      BY <1>0 DEF Types
    <2>2. left(v) \subseteq RecipeRows
      BY <2>1
    <2> HIDE DEF left
    <2> QED BY <2>1, <2>2
  <1>8. ASSUME NEW v \in Versions
        PROVE  /\ rows'[v] \in OneRows
               /\ v = Version(p) => rows'[v] = new
               /\ v # Version(p) /\ v[1] = p /\ phase[p] = "default" => rows'[v] = NoRows
               /\ v # Version(p) /\ ~(v[1] = p /\ phase[p] = "default") =>
                     rows'[v].gen = rows[v].gen /\ rows'[v].source = rows[v].source
    <2> HIDE DEF new, left, OneRows
    <2>1. rows'[v] = IF v = Version(p) THEN new
                     ELSE IF v[1] = p /\ phase[p] = "default" THEN NoRows ELSE [rows[v] EXCEPT !.recipes = left(v)]
      BY <1>1
    <2> QED BY <1>5, <1>6, <1>7, <2>1
  <1>9. ASSUME NEW v \in Versions PROVE rows'[v].gen <= count[v[1]]
    <2>1. v[1] \in Projects
      BY DEF Versions
    <2>2. count[v[1]] \in 0 .. MaxDeploys /\ count[p] \in 0 .. MaxDeploys /\ rows[v].gen <= count[v[1]]
      BY <1>0, <2>1 DEF Types
    <2>3. v = Version(p) => v[1] = p
      BY DEF Version
    <2> HIDE DEF new
    <2> QED BY <1>0, <1>5, <1>6, <1>8, <2>2, <2>3
  <1>10. rows' \in [Versions -> OneRows]
    <2>1. rows' = [v \in Versions |-> rows'[v]]
      BY <1>1
    <2> HIDE DEF OneRows
    <2> QED BY <1>8, <2>1
  <1> HIDE DEF new
  <1> QED BY <1>1, <1>3, <1>4, <1>5, <1>6, <1>8, <1>9, <1>10

LEMMA NoVersionHasNoTags == TagIds(Files[NoVersion]) = {}
  <1> DEFINE c == Files[NoVersion]
  <1>1. DOMAIN c.tags = {}
    BY IngestionAssumption
  <1> HIDE DEF c
  <1> QED BY <1>1 DEF TagIds, c

(* The commit of what has been written.                                      *)
LEMMA CommitStep == ASSUME IInv, NEW p \in Projects, Commit(p) PROVE IInv'
  <1> DEFINE next == AfterCommit(p)
  <1>0. Types /\ Progress /\ FlatInv /\ HoldersApart /\ faults \in 0 .. MaxFaults
    BY DEF IInv, Types
  <1>1. /\ Open(p) /\ Finished(p) /\ Enter(p, next) /\ UNCHANGED <<reported, count, job, faults>>
        /\ IF tx[p].aborted THEN UNCHANGED databaseVars ELSE Store(p)
    BY DEF Commit
  <1>2. phase[p] \in {"default", "named", "revalidate"}
    BY <1>0, <1>1 DEF Types, Open
  <1>3. /\ next \in Phases
        /\ phase[p] # "revalidate" => next \in {"named", "revalidate"}
        /\ phase[p] = "revalidate" => next = "idle"
    BY <1>2 DEF AfterCommit, Phases
  <1> HIDE DEF next
  <1>4. CASE tx[p].aborted
    <2>1. phase[p] # "revalidate"
      BY <1>0, <1>4 DEF Progress
    <2>2. PICK n \in Phases : n = next
      BY <1>3
    <2> QED BY <1>0, <1>1, <1>3, <1>4, <2>1, <2>2, RollbackStep
  <1>5. CASE ~tx[p].aborted
    <2>1. Store(p)
      BY <1>1, <1>5
    <2>2. /\ shared' = shared \cup tx[p].keys /\ benches' \subseteq BenchRows /\ view' \in [Views -> ViewOf]
          /\ rows' \in [Versions -> [gen : 0 .. MaxDeploys, source : DOMAIN Files, recipes : SUBSET RecipeRows]]
          /\ \A v \in Versions : rows'[v].gen <= count[v[1]]
      BY <1>1, <2>1, StoreGives
    <2>3. ASSUME NEW v \in Versions
          PROVE  /\ v = Version(p) => rows'[v].gen = count[p] /\ rows'[v].source = Source(p)
                 /\ v # Version(p) /\ v[1] = p /\ phase[p] = "default" => rows'[v].source = NoVersion
                 /\ v # Version(p) /\ ~(v[1] = p /\ phase[p] = "default") =>
                       rows'[v].gen = rows[v].gen /\ rows'[v].source = rows[v].source
      BY <1>1, <2>1, StoreGives
    <2>4. /\ view'["best"] = IF HoldsView(p, "best") THEN tx[p].views["best"] ELSE view["best"]
          /\ view'["flat"] = IF HoldsView(p, "flat") THEN tx[p].views["flat"] ELSE view["flat"]
      BY <1>1, <2>1, StoreGives DEF Views
    <2>5. Types' /\ KeysApart' /\ Progress' /\ TurnsApart' /\ HoldersApart'
      <3>1. /\ shared' \subseteq shared \cup tx[p].keys /\ count' \in [Projects -> 0 .. MaxDeploys]
            /\ (\A v \in Versions : rows'[v].gen <= count'[v[1]]) /\ faults' \in 0 .. MaxFaults
            /\ job' \in [Projects -> UNION {Jobs[q] : q \in Projects}] /\ job'[p] \in Jobs[p]
            /\ \A q \in Projects : q # p => job'[q] = job[q]
        BY <1>0, <1>1, <2>2 DEF Types
      <3>2. PICK n \in Phases : n = next
        BY <1>3
      <3> QED BY <1>1, <2>2, <3>1, <3>2, EnterStep
    <2>6. phase'[p] = next /\ ~Has(p, "best")'
      BY <1>0, <1>1, EnterFrame
    <2>7. phase[p] = "revalidate" => HoldsView(p, "best") /\ Holds(p) = {"best"} /\ ~Pending(p)
      <3> SUFFICES ASSUME phase[p] = "revalidate" PROVE HoldsView(p, "best") /\ Holds(p) = {"best"} /\ ~Pending(p)
        OBVIOUS
      <3>1. Len(ScriptOf(p)) = 1 /\ tx[p].step # 1
        BY <1>1, RevalidationShape DEF Finished
      <3>2. Holds(p) = {"best"}
        BY <1>0, <3>1 DEF Progress
      <3> QED BY <3>2 DEF Holds, HoldsView, Pending, Has
    <2>8. BestInv'
      <3>1. phase[p] # "revalidate" => Pending(p)'
        BY <1>3, <2>6 DEF Pending
      <3>2. \A v \in Versions : v[1] # p => rows'[v].gen = rows[v].gen
        BY <2>3 DEF Version
      <3>3. phase[p] = "revalidate" => \A v \in Versions : rows'[v].gen = rows[v].gen
        <4>1. phase[p] = "revalidate" => \A v \in Versions : v # Version(p)
          BY DEF Version, Versions
        <4> QED BY <2>3, <4>1
      <3>4. faults' = 0 => faults = 0
        BY <1>1
      <3>5. \A q \in Projects : q # p => job'[q] = job[q]
        BY <1>1
      <3>6. Pending(p)' \/ (~Pending(p) /\ \A v \in Versions : v[1] = p => rows'[v].gen = rows[v].gen)
        BY <2>7, <3>1, <3>3
      <3>7. \/ view'["best"] = view["best"] /\ phase[p] # "revalidate"
            \/ /\ HoldsView(p, "best") /\ view'["best"] = tx[p].views["best"]
               /\ phase[p] = "default" => Pending(p)'
        BY <2>4, <2>7, <3>1
      <3>8. PICK n : n = next
        OBVIOUS
      <3> QED BY <1>1, <3>2, <3>4, <3>5, <3>6, <3>7, <3>8, EnterBest
    <2>9. ASSUME NEW v \in Versions, Tags(v)', ~(v = Version(p) /\ TagIds(Files[Source(p)]) # {})
          PROVE  Tags(v) /\ rows'[v].gen = rows[v].gen /\ v # Version(p) /\ ~(v[1] = p /\ phase[p] = "default")
      <3>1. v # Version(p)
        BY <2>3, <2>9 DEF Tags
      <3>2. ~(v[1] = p /\ phase[p] = "default")
        BY <2>3, <2>9, <3>1, NoVersionHasNoTags DEF Tags
      <3> QED BY <2>3, <2>9, <3>1, <3>2 DEF Tags
    <2>10. CASE phase[p] = "revalidate"
      <3>1. view'["flat"] = view["flat"]
        BY <2>4, <2>7, <2>10 DEF HoldsView, Holds
      <3>2. \A v \in Versions : v # Version(p)
        BY <2>10 DEF Version, Versions
      <3>3. \A v \in Versions : Tags(v)' => Tags(v) /\ rows'[v].gen = rows[v].gen
        BY <2>9, <3>2
      <3>4. PICK n : n = next
        OBVIOUS
      <3>5. FlatInv'
        BY <1>1, <3>1, <3>3, <3>4, EnterFlat
      <3> QED BY <2>5, <2>8, <3>5 DEF IInv
    <2>11. CASE phase[p] # "revalidate" /\ TagIds(Files[Source(p)]) = {}
      <3>1. ~HoldsView(p, "flat")
        <4>1. ScriptIs(p) /\ phase[p] \in {"default", "named"}
          BY <1>0, <1>2, <2>11, ScriptShape
        <4>2. Holds(p) = {ScriptOf(p)[i].what : i \in Wrote(p) + 1 .. tx[p].step - 1}
          BY <1>0, <4>1 DEF Progress, Wrote
        <4>3. \A i \in Wrote(p) + 1 .. tx[p].step - 1 : i \in Wrote(p) + 1 .. Len(ScriptOf(p))
          <5>1. tx[p].step \in 1 .. Len(ScriptOf(p)) + 1
            BY <1>0, <1>1 DEF Types
          <5>2. Wrote(p) \in Nat /\ Len(ScriptOf(p)) \in Nat
            BY <4>1 DEF ScriptIs
          <5> QED BY <5>1, <5>2
        <4>4. \A i \in Wrote(p) + 1 .. Len(ScriptOf(p)) : ScriptOf(p)[i].what # "flat"
          BY <2>11, <4>1 DEF ScriptIs
        <4> QED BY <4>2, <4>3, <4>4 DEF HoldsView, Holds
      <3>2. \A v \in Versions : Tags(v)' => Tags(v) /\ rows'[v].gen = rows[v].gen
        BY <2>9, <2>11
      <3>3. PICK n : n = next
        OBVIOUS
      <3>4. FlatInv'
        BY <1>1, <2>4, <3>1, <3>2, <3>3, EnterFlat
      <3> QED BY <2>5, <2>8, <3>4 DEF IInv
    <2>12. CASE phase[p] # "revalidate" /\ TagIds(Files[Source(p)]) # {}
      <3>1. HoldsView(p, "flat")
        <4>1. ScriptIs(p) /\ phase[p] \in {"default", "named"}
          BY <1>0, <1>2, <2>12, ScriptShape
        <4>2. Holds(p) = {ScriptOf(p)[i].what : i \in Wrote(p) + 1 .. tx[p].step - 1}
          BY <1>0, <4>1 DEF Progress, Wrote
        <4>3. Len(ScriptOf(p)) \in Wrote(p) + 1 .. Len(ScriptOf(p)) /\ Len(ScriptOf(p)) \in Nat /\ Wrote(p) \in Nat
          BY <2>12, <4>1 DEF ScriptIs
        <4>4. ScriptOf(p)[Len(ScriptOf(p))].what = "flat"
          BY <2>12, <4>1, <4>3 DEF ScriptIs
        <4>5. tx[p].step - 1 >= Len(ScriptOf(p))
          <5>1. tx[p].step \in Nat
            BY <1>0 DEF Types, TxOf
          <5> QED BY <1>1, <4>3, <5>1 DEF Finished
        <4>6. Len(ScriptOf(p)) \in Wrote(p) + 1 .. tx[p].step - 1
          <5>1. tx[p].step \in Nat
            BY <1>0 DEF Types, TxOf
          <5> QED BY <4>3, <4>5, <5>1
        <4> QED BY <4>2, <4>4, <4>6 DEF HoldsView, Holds
      <3>2. view'["flat"] = tx[p].views["flat"]
        BY <2>4, <3>1
      <3>3. ASSUME NEW v \in Versions, Tags(v)'
            PROVE  view'["flat"].late \/ view'["flat"].gens[v] = rows'[v].gen
        <4>1. CASE v = Version(p)
          <5>1. tx[p].views["flat"].late \/ tx[p].views["flat"].gens[Version(p)] = count[p]
            BY <1>0, <3>1 DEF FlatInv
          <5> QED BY <2>3, <3>2, <4>1, <5>1
        <4>2. CASE v # Version(p)
          <5>1. Tags(v) /\ rows'[v].gen = rows[v].gen /\ ~(v[1] = p /\ phase[p] = "default")
            BY <2>9, <3>3, <4>2
          <5> QED BY <1>0, <3>1, <3>2, <4>2, <5>1 DEF FlatInv
        <4> QED BY <4>1, <4>2
      <3>4. ASSUME NEW q \in Projects PROVE ~HoldsView(q, "flat")'
        <4>1. CASE q = p
          BY <1>0, <1>1, <4>1, EnterFrame
        <4>2. CASE q # p
          <5>1. ~HoldsView(q, "flat")
            BY <1>0, <3>1, <4>2 DEF HoldersApart, HoldsView, Holds
          <5> QED BY <1>0, <1>1, <4>2, <5>1, OthersStay
        <4> QED BY <4>1, <4>2
      <3>5. FlatInv'
        BY <3>3, <3>4 DEF FlatInv
      <3> QED BY <2>5, <2>8, <3>5 DEF IInv
    <2> QED BY <2>10, <2>11, <2>12
  <1> QED BY <1>4, <1>5

(* The steps that are left.                                                  *)
LEMMA RefuseStep == ASSUME IInv, NEW p \in Projects, Refuse(p) PROVE IInv'
  <1>1. phase[p] # "revalidate" /\ StatementFails(p) /\ UNCHANGED <<databaseVars, count, job, faults>>
    BY RevalidationIsNotRefused DEF Refuse
  <1>2. faults' \in 0 .. MaxFaults /\ faults <= faults'
    BY <1>1, IngestionAssumption DEF IInv, Types
  <1> QED BY <1>1, <1>2, StatementFailsStep

LEMMA DeadlockVictimStep == ASSUME IInv, NEW p \in Projects, DeadlockVictim(p) PROVE IInv'
  <1>1. phase[p] # "revalidate" /\ StatementFails(p) /\ UNCHANGED <<databaseVars, count, job, faults>>
    BY RevalidationIsNoVictim DEF DeadlockVictim
  <1>2. faults' \in 0 .. MaxFaults /\ faults <= faults'
    BY <1>1, IngestionAssumption DEF IInv, Types
  <1> QED BY <1>1, <1>2, StatementFailsStep

LEMMA FaultStep == ASSUME IInv, NEW p \in Projects, Fault(p) PROVE IInv'
  <1>1. StatementFails(p) /\ UNCHANGED <<databaseVars, count, job>> /\ faults < MaxFaults /\ faults' = faults + 1
    BY DEF Fault
  <1>2. faults' \in 0 .. MaxFaults /\ faults <= faults' /\ faults' # 0
    BY <1>1, IngestionAssumption DEF IInv, Types
  <1> QED BY <1>1, <1>2, StatementFailsStep

LEMMA StutterStep == ASSUME IInv, UNCHANGED vars PROVE IInv'
  <1> USE DEF vars, databaseVars
  <1>1. Types'
    <2>1. Types
      BY DEF IInv
    <2> QED BY <2>1 DEF Types, Open, ScriptOf, Source
  <1>2. KeysApart' /\ TurnsApart' /\ HoldersApart'
    BY DEF IInv, KeysApart, TurnsApart, HoldersApart, Waits, Holds
  <1>3. Progress'
    <2>1. \A p \in Projects : /\ Open(p)' = Open(p) /\ Waits(p)' = Waits(p) /\ Holds(p)' = Holds(p)
                              /\ Finished(p)' = Finished(p) /\ ScriptOf(p)' = ScriptOf(p)
                              /\ Writing(p)' = Writing(p)
      BY DEF Open, Waits, Holds, Finished, ScriptOf, Source, Writing
    <2>2. phase' = phase /\ tx' = tx /\ Progress
      BY DEF IInv
    <2>3. \A p \in Projects : ~Open(p)' => tx'[p].turn = 0 /\ Holds(p)' = {} /\ ~tx'[p].aborted /\ tx'[p].keys = {}
      BY <2>1, <2>2 DEF Progress
    <2>4. \A p \in Projects : phase'[p] = "revalidate" =>
             ~tx'[p].aborted /\ Holds(p)' = IF tx'[p].step = 1 THEN {} ELSE {"best"}
      BY <2>1, <2>2 DEF Progress
    <2>5. \A p \in Projects : phase'[p] \in {"default", "named"} =>
             /\ tx'[p].aborted => tx'[p].step <= Len(Writing(p)') + 1
             /\ Holds(p)' = {ScriptOf(p)'[i].what : i \in Len(Writing(p)') + 1 .. tx'[p].step - 1}
      <3> SUFFICES ASSUME NEW p \in Projects, phase'[p] \in {"default", "named"}
                   PROVE  /\ tx'[p].aborted => tx'[p].step <= Len(Writing(p)') + 1
                          /\ Holds(p)' = {ScriptOf(p)'[i].what : i \in Len(Writing(p)') + 1 .. tx'[p].step - 1}
        OBVIOUS
      <3>1. /\ tx[p].aborted => tx[p].step <= Len(Writing(p)) + 1
            /\ Holds(p) = {ScriptOf(p)[i].what : i \in Len(Writing(p)) + 1 .. tx[p].step - 1}
        BY <2>2 DEF Progress
      <3> QED BY <2>1, <2>2, <3>1
    <2>6. \A p \in Projects : Waits(p)' => ~Finished(p)' /\ ~tx'[p].aborted
      BY <2>1, <2>2 DEF Progress
    <2> QED BY <2>3, <2>4, <2>5, <2>6 DEF Progress
  <1>4. BestInv'
    <2>1. \A q \in Projects : /\ HoldsView(q, "best")' = HoldsView(q, "best")
                              /\ Queues(q, "best")' = Queues(q, "best")
      BY DEF HoldsView, Queues, At, Open, Finished, Current, Waits, ScriptOf, Source
    <2>2. \A q \in Projects : /\ Has(q, "best")' = Has(q, "best")
                              /\ GensFor(q, "best")' = GensFor(q, "best")
      BY <2>1 DEF Has, GensFor
    <2>3. \A q, r \in Projects : Younger(r, q, "best") => Younger(r, q, "best")'
      BY <2>1 DEF Younger
    <2>4. faults \in Nat
      BY IngestionAssumption DEF IInv, Types
    <2> QED BY <2>2, <2>3, <2>4, BestStays DEF IInv
  <1>5. FlatInv'
    BY DEF IInv, FlatInv, Tags, HoldsView, Version
  <1> QED BY <1>1, <1>2, <1>3, <1>4, <1>5 DEF IInv

LEMMA InvInit == Init => IInv
  <1> SUFFICES ASSUME Init PROVE IInv
    OBVIOUS
  <1>1. /\ shared = {} /\ benches = {} /\ faults = 0
        /\ rows = [v \in Versions |-> NoRows]
        /\ view = [k \in Views |-> [gens |-> [v \in Versions |-> 0], late |-> FALSE]]
        /\ count = [p \in Projects |-> 0]
        /\ job = [p \in Projects |-> CHOOSE j \in Jobs[p] : TRUE]
        /\ phase = [p \in Projects |-> "idle"]
        /\ tx = [p \in Projects |-> NewTx(FALSE)]
    BY DEF Init
  <1>2. \A p \in Projects : /\ tx[p] \in TxOf /\ tx[p].step = 1 /\ tx[p].turn = 0 /\ tx[p].keys = {}
                            /\ tx[p].aborted = FALSE /\ Holds(p) = {} /\ phase[p] = "idle"
    BY <1>1, NewTxIn DEF Holds
  <1>3. \A p \in Projects : ~Open(p) /\ ~Waits(p) /\ \A k : ~HoldsView(p, k) /\ ~Has(p, k)
    BY <1>2 DEF Open, Waits, HoldsView, Holds, Has, Queues, At
  <1>4. \A v \in Versions : rows[v].gen = 0 /\ rows[v].source = NoVersion /\ ~Tags(v) /\ v[1] \in Projects
    BY <1>1, NoVersionHasNoTags DEF NoRows, Tags, Versions
  <1>5. Types
    <2>1. rows \in [Versions -> [gen : 0 .. MaxDeploys, source : DOMAIN Files, recipes : SUBSET RecipeRows]]
      BY <1>1, IngestionAssumption DEF NoRows
    <2>2. view \in [Views -> ViewOf]
      BY <1>1, IngestionAssumption DEF ViewOf, GensOf
    <2>3. \A p \in Projects : job[p] \in Jobs[p]
      BY <1>1, IngestionAssumption
    <2>4. job \in [Projects -> UNION {Jobs[p] : p \in Projects}]
      BY <1>1, <2>3
    <2>5. \A v \in Versions : rows[v].gen <= count[v[1]]
      BY <1>1, <1>4
    <2>6. tx \in [Projects -> TxOf]
      BY <1>1, <1>2
    <2>7. count \in [Projects -> 0 .. MaxDeploys] /\ faults \in 0 .. MaxFaults
      BY <1>1, IngestionAssumption
    <2>8. phase \in [Projects -> {"idle", "default", "named", "revalidate"}]
      BY <1>1
    <2>9. shared \in SUBSET KeysOf /\ benches \in SUBSET BenchRows
      BY <1>1
    <2> QED BY <1>3, <2>1, <2>2, <2>3, <2>4, <2>5, <2>6, <2>7, <2>8, <2>9 DEF Types
  <1>6. KeysApart /\ TurnsApart /\ HoldersApart
    BY <1>1, <1>2, <1>3 DEF KeysApart, TurnsApart, HoldersApart
  <1>7. Progress
    BY <1>2, <1>3 DEF Progress
  <1>8. BestInv
    <2>1. \A v \in Versions : view["best"].gens[v] = rows[v].gen
      BY <1>1, <1>4 DEF Views
    <2> QED BY <1>3, <2>1 DEF BestInv
  <1>9. FlatInv
    BY <1>3, <1>4 DEF FlatInv
  <1> QED BY <1>5, <1>6, <1>7, <1>8, <1>9 DEF IInv

LEMMA InvStep == IInv /\ [Next]_vars => IInv'
  <1> SUFFICES ASSUME IInv, [Next]_vars PROVE IInv'
    OBVIOUS
  <1>1. CASE UNCHANGED vars
    BY <1>1, StutterStep
  <1>2. CASE Terminated
    BY <1>2, StutterStep DEF Terminated
  <1>3. ASSUME NEW p \in Projects, Advance(p) PROVE IInv'
    <2>1. Purge(p) \/ AddTagTagEntry(p) \/ AddRecipeTypes(p) => IInv'
      BY PlainStep DEF Purge, AddTagTagEntry, AddRecipeTypes
    <2> QED BY <1>3, <2>1, RefuseStep, DeadlockVictimStep, StartWaitingStep, FindOrCreateStep, LookupTypeStep,
               AddRecipeStep, AddWorkbenchStep, RefreshViewStep, CommitStep DEF Advance
  <1> QED BY <1>1, <1>2, <1>3, DeployStep, FaultStep DEF Next

(* The transactions keep to their scripts and apart from each other, and     *)
(* whatever the views miss a later refresh will see.                         *)
THEOREM InductiveInvariant == Spec => []IInv
  BY InvInit, InvStep, PTL DEF Spec

(* The types of the rows and of the transactions; no two open transactions   *)
(* have inserted the same key of item, tag or project_item.                  *)
THEOREM TypeCorrect == Spec => []TypeOK
  <1>1. IInv => TypeOK
    <2> SUFFICES ASSUME IInv PROVE TypeOK
      OBVIOUS
    <2>0. Types /\ KeysApart
      BY DEF IInv
    <2>1. \A v \in Versions : rows[v].gen \in 0 .. count[v[1]] /\ \A r \in rows[v].recipes : r.type \in RowsOf
      <3> SUFFICES ASSUME NEW v \in Versions
                   PROVE  rows[v].gen \in 0 .. count[v[1]] /\ \A r \in rows[v].recipes : r.type \in RowsOf
        OBVIOUS
      <3>1. v[1] \in Projects
        BY DEF Versions
      <3>2. rows[v].gen \in 0 .. MaxDeploys /\ count[v[1]] \in 0 .. MaxDeploys /\ rows[v].gen <= count[v[1]]
            /\ rows[v].recipes \subseteq RecipeRows
        BY <2>0, <3>1 DEF Types
      <3> QED BY <3>2, IngestionAssumption DEF RecipeRows
    <2>2. ASSUME NEW p \in Projects
          PROVE  LET t == tx[p] IN
                 /\ job[p] \in Jobs[p]
                 /\ Open(p) => t.step \in 1 .. Len(ScriptOf(p)) + 1
                 /\ t.turn \in Nat /\ {t.aborted, t.solo} \subseteq BOOLEAN
                 /\ t.keys \subseteq KeysOf \ shared /\ t.found \in RowsOf /\ t.snapshot \in GensOf
                 /\ t.benches \subseteq [type : RowsOf, item : RowsOf]
                 /\ \A q \in Projects \ {p} : t.keys \cap tx[q].keys = {}
                 /\ DOMAIN t.views \subseteq Views
      <3>1. tx[p] \in TxOf
        BY <2>0 DEF Types
      <3>2. DOMAIN tx[p].views \subseteq Views
        BY <3>1 DEF TxOf
      <3>3. tx[p].keys \subseteq KeysOf \ shared /\ \A q \in Projects \ {p} : tx[p].keys \cap tx[q].keys = {}
        BY <2>0, <3>1 DEF KeysApart, TxOf
      <3>4. tx[p].benches \subseteq [type : RowsOf, item : RowsOf]
        BY <3>1 DEF TxOf, BenchRows
      <3>5. job[p] \in Jobs[p] /\ (Open(p) => tx[p].step \in 1 .. Len(ScriptOf(p)) + 1)
        BY <2>0 DEF Types
      <3>6. tx[p].turn \in Nat /\ tx[p].aborted \in BOOLEAN /\ tx[p].solo \in BOOLEAN
            /\ tx[p].found \in RowsOf /\ tx[p].snapshot \in GensOf
        BY <3>1 DEF TxOf
      <3> QED BY <3>2, <3>3, <3>4, <3>5, <3>6
    <2>3. /\ shared \subseteq KeysOf /\ benches \subseteq [type : RowsOf, item : RowsOf]
          /\ view \in [Views -> [gens : GensOf, late : BOOLEAN]]
          /\ count \in [Projects -> 0 .. MaxDeploys] /\ faults \in 0 .. MaxFaults
          /\ phase \in [Projects -> {"idle", "default", "named", "revalidate"}]
      BY <2>0 DEF Types, BenchRows, ViewOf
    <2> QED BY <2>1, <2>2, <2>3 DEF TypeOK
  <1> QED BY <1>1, InductiveInvariant, PTL

(* When nothing is being deployed, and nothing has failed for no reason, the *)
(* refresh after the commit of a deployment (revalidate_project) has brought *)
(* the view of the best pages up to date with every project, however the     *)
(* refreshes overlapped; that of the tags too, unless it came late.          *)
THEOREM ViewsCoverHolds == Spec => []ViewsCover
  <1>1. IInv => ViewsCover
    <2> SUFFICES ASSUME IInv, faults = 0, \A p \in Projects : phase[p] = "idle", NEW v \in Versions
                 PROVE  /\ view["best"].gens[v] = rows[v].gen
                        /\ Tags(v) => view["flat"].gens[v] = rows[v].gen \/ view["flat"].late
      BY DEF ViewsCover, Tags
    <2>1. v[1] \in Projects
      BY DEF Versions
    <2>2. ~Pending(v[1])
      BY <2>1 DEF Pending
    <2>3. view["best"].gens[v] = rows[v].gen
      BY <2>2 DEF IInv, BestInv
    <2> QED BY <2>3 DEF IInv, FlatInv
  <1> QED BY <1>1, InductiveInvariant, PTL
-----------------------------------------------------------------------------
(* A transaction that has run alone has found a row that is still there, has *)
(* not waited, and nothing of an acceptable checkout has been refused.       *)
Alone(p) == Open(p) /\ tx[p].solo
SoloInv == \A p \in Projects : Alone(p) =>
    /\ \A q \in Projects : q # p => ~Open(q)
    /\ ~Waits(p) /\ TypeExists(p, tx[p].found)
    /\ faults = 0 /\ Acceptable(p) => ~tx[p].aborted

(* The tags above a tag in some entries are above it in more of them.        *)
LEMMA AboveGrows ==
  ASSUME NEW E, NEW F, IsFiniteSet(F), E \subseteq F, NEW t
  PROVE  Above(E, t) \subseteq Above(F, t)
  <1> DEFINE Raised(D, T) == T \cup {e[1] : e \in {f \in D : f[2] \in T}}
             Levels(D, up, n) == up = [k \in 0 .. n |-> IF k = 0 THEN {t} ELSE Raised(D, up[k - 1])]
             m == Cardinality(E)
             n == Cardinality(F)
  <1>1. m \in Nat /\ n \in Nat /\ m <= n
    BY FS_Subset, FS_CardinalityType
  <1>2. ASSUME NEW D, NEW k \in Nat PROVE \E up : Levels(D, up, k)
    <2> DEFINE S == {j \in Nat : ~ \E up : Levels(D, up, j)}
    <2>1. SUFFICES ASSUME S # {} PROVE FALSE
      OBVIOUS
    <2>2. PICK j \in S : \A i \in S : j <= i
      <3>1. S \in SUBSET Nat
        OBVIOUS
      <3> HIDE DEF S
      <3> QED BY <2>1, <3>1, Least
    <2>3. CASE j = 0
      <3> DEFINE up == [i \in 0 .. 0 |-> {t}]
      <3>1. up = [i \in 0 .. 0 |-> IF i = 0 THEN {t} ELSE Raised(D, up[i - 1])]
        OBVIOUS
      <3> QED BY <2>2, <2>3, <3>1
    <2>4. CASE j # 0
      <3>1. j - 1 \in Nat /\ j - 1 \notin S
        <4> HIDE DEF Levels
        <4> QED BY <2>2, <2>4
      <3>2. PICK g : Levels(D, g, j - 1)
        BY <3>1
      <3> DEFINE h == [i \in 0 .. j |-> IF i = j THEN Raised(D, g[j - 1]) ELSE g[i]]
      <3> HIDE DEF Raised
      <3>3. ASSUME NEW i \in 0 .. j PROVE h[i] = IF i = 0 THEN {t} ELSE Raised(D, h[i - 1])
        <4>1. CASE i = j
          BY <2>4, <3>1, <4>1
        <4>2. CASE i # j
          <5>1. i \in 0 .. j - 1 /\ (i # 0 => i - 1 \in 0 .. j - 1 /\ i - 1 # j)
            BY <3>1, <4>2
          <5>2. g[i] = IF i = 0 THEN {t} ELSE Raised(D, g[i - 1])
            BY <3>2, <5>1
          <5> QED BY <4>2, <5>1, <5>2
        <4> QED BY <4>1, <4>2
      <3>4. Levels(D, h, j)
        BY <3>3
      <3> QED BY <2>2, <3>4
    <2> QED BY <2>3, <2>4
  <1>3. ASSUME NEW D, Cardinality(D) \in Nat
        PROVE  \E up : Levels(D, up, Cardinality(D)) /\ Above(D, t) = up[Cardinality(D)]
    <2> DEFINE up[k \in 0 .. Cardinality(D)] ==
                 IF k = 0 THEN {t} ELSE up[k - 1] \cup {e[1] : e \in {f \in D : f[2] \in up[k - 1]}}
    <2>1. Above(D, t) = up[Cardinality(D)]
      BY DEF Above
    <2>2. up = CHOOSE u : Levels(D, u, Cardinality(D))
      OBVIOUS
    <2>3. Levels(D, up, Cardinality(D))
      <3> HIDE DEF Levels, up
      <3> QED BY <1>2, <1>3, <2>2
    <2> HIDE DEF up
    <2> QED BY <2>1, <2>3
  <1>4. PICK e : Levels(E, e, m) /\ Above(E, t) = e[m]
    BY <1>1, <1>3
  <1>5. PICK f : Levels(F, f, n) /\ Above(F, t) = f[n]
    BY <1>1, <1>3
  <1>6. /\ \A k \in 0 .. m : e[k] = IF k = 0 THEN {t} ELSE Raised(E, e[k - 1])
        /\ \A k \in 0 .. n : f[k] = IF k = 0 THEN {t} ELSE Raised(F, f[k - 1])
    <2> HIDE DEF Raised
    <2> QED BY <1>4, <1>5
  <1>7. \A S, T : S \subseteq T => Raised(E, S) \subseteq Raised(F, T)
    OBVIOUS
  <1>8. \A S : S \subseteq Raised(F, S)
    OBVIOUS
  <1> HIDE DEF Raised, Levels, m, n
  <1>9. \A k \in 0 .. m : e[k] \subseteq f[k]
    <2> DEFINE S == {k \in 0 .. m : ~(e[k] \subseteq f[k])}
    <2>1. SUFFICES ASSUME S # {} PROVE FALSE
      OBVIOUS
    <2>2. PICK k \in S : \A i \in S : k <= i
      <3>1. S \in SUBSET Nat
        BY <1>1
      <3> HIDE DEF S
      <3> QED BY <2>1, <3>1, Least
    <2>3. k # 0
      BY <1>1, <1>6, <2>2
    <2>4. k - 1 \in 0 .. m /\ k - 1 \notin S /\ k \in 0 .. n
      BY <1>1, <2>2, <2>3
    <2>5. e[k] = Raised(E, e[k - 1]) /\ f[k] = Raised(F, f[k - 1])
      BY <1>6, <2>2, <2>3, <2>4
    <2> QED BY <1>7, <2>2, <2>4, <2>5
  <1>10. \A k \in m .. n : f[m] \subseteq f[k]
    <2> DEFINE S == {k \in m .. n : ~(f[m] \subseteq f[k])}
    <2>1. SUFFICES ASSUME S # {} PROVE FALSE
      OBVIOUS
    <2>2. PICK k \in S : \A i \in S : k <= i
      <3>1. S \in SUBSET Nat
        BY <1>1
      <3> HIDE DEF S
      <3> QED BY <2>1, <3>1, Least
    <2>3. k # m /\ k \in m .. n
      BY <2>2
    <2>4. k - 1 \in m .. n /\ k - 1 \notin S /\ k \in 0 .. n /\ k # 0
      BY <1>1, <2>2, <2>3
    <2>5. f[k] = Raised(F, f[k - 1])
      BY <1>6, <2>4
    <2> QED BY <1>8, <2>2, <2>4, <2>5
  <1> QED BY <1>1, <1>4, <1>5, <1>9, <1>10

(* The first ingredient that cannot be inserted.                             *)
LEMMA FirstBadIs ==
  ASSUME NEW r \in RecipeFiles, NEW known, FirstBad(r, known) # 0
  PROVE  /\ FirstBad(r, known) \in DOMAIN r.ingredients
         /\ Unknown(r, FirstBad(r, known), known) \/ Repeated(r, FirstBad(r, known))
  <1> DEFINE bad == {i \in DOMAIN r.ingredients : Unknown(r, i, known) \/ Repeated(r, i)}
  <1>1. bad # {} /\ FirstBad(r, known) = CHOOSE i \in bad : \A j \in bad : i <= j
    BY DEF FirstBad
  <1>2. bad \in SUBSET Nat
    BY DEF RecipeFiles
  <1>3. \E i \in bad : \A j \in bad : i <= j
    <2> HIDE DEF bad
    <2> QED BY <1>1, <1>2, Least
  <1>4. FirstBad(r, known) \in bad
    <2> HIDE DEF bad
    <2> QED BY <1>1, <1>3
  <1> QED BY <1>4

(* What Acceptable rules out is all that a transaction without company can   *)
(* be refused for.                                                           *)
LEMMA AloneIsNotRefused ==
  ASSUME IInv, SoloInv, NEW p \in Projects, Alone(p), Acceptable(p), ~tx[p].aborted
  PROVE  ~Fails(p)
  <1> SUFFICES ASSUME Fails(p) PROVE FALSE
    OBVIOUS
  <1>1. Open(p) /\ ~Finished(p) /\ tx[p].step \in Nat \ {0}
    BY DEF Fails, IInv, Types, TxOf
  <1>2. phase[p] # "revalidate"
    BY RevalidationIsNotRefused
  <1>3. phase[p] \in {"default", "named"}
    BY <1>1, <1>2 DEF IInv, Types, Open
  <1>4. ScriptOf(p) \in Seq(StatementsOf) /\ Len(ScriptOf(p)) \in Nat
    BY <1>3, ScriptShape DEF IInv, ScriptIs
  <1>5. tx[p].step \in DOMAIN ScriptOf(p) /\ Current(p) = ScriptOf(p)[tx[p].step] /\ Current(p) \in StatementsOf
    BY <1>1, <1>4 DEF Current, Finished
  <1>6. ~Waits(p) /\ TypeExists(p, tx[p].found)
    BY DEF SoloInv
  <1>7. CASE Current(p).do = "key" /\ Current(p).what[2] \notin Storable
    BY <1>5, <1>7 DEF Acceptable
  <1>8. CASE /\ Current(p).do = "entry"
             /\ LET before == {ScriptOf(p)[i].what : i \in {j \in 1 .. tx[p].step - 1 : ScriptOf(p)[j].do = "entry"}}
                IN  MakesCycle(before, Current(p).what)
    <2> DEFINE script == ScriptOf(p)
               before == {script[i].what : i \in {j \in 1 .. tx[p].step - 1 : script[j].do = "entry"}}
               entries == {script[i].what : i \in {j \in DOMAIN script : script[j].do = "entry"}}
               I == {j \in DOMAIN script : script[j].do = "entry"}
    <2>1. MakesCycle(before, Current(p).what)
      BY <1>8
    <2>2. before \subseteq entries
      <3>1. 1 .. tx[p].step - 1 \subseteq DOMAIN script
        BY <1>4, <1>5
      <3> QED BY <3>1
    <2>3. IsFiniteSet(entries)
      <3>1. IsFiniteSet(DOMAIN script)
        BY <1>4, FS_Interval
      <3>2. IsFiniteSet(I)
        BY <3>1, FS_Subset
      <3> DEFINE of == [i \in I |-> script[i].what]
      <3>3. of \in Surjection(I, entries)
        BY DEF Surjection
      <3> HIDE DEF I, of, entries
      <3> QED BY <3>2, <3>3, FS_Surjection
    <2>4. ~MakesCycle(entries, Current(p).what)
      BY <1>5, <1>8 DEF Acceptable
    <2> HIDE DEF before, entries
    <2> QED BY <2>1, <2>2, <2>3, <2>4, AboveGrows DEF MakesCycle
  <1>9. CASE /\ Current(p).do = "recipe"
             /\ FirstBad(Current(p).what, SeenKeys(p)) # 0
             /\ ~Unknown(Current(p).what, FirstBad(Current(p).what, SeenKeys(p)), SeenKeys(p))
    <2> DEFINE r == Current(p).what
               n == FirstBad(r, SeenKeys(p))
    <2>1. r \in RecipeFiles
      BY <1>5, <1>9 DEF StatementsOf
    <2>2. n \in DOMAIN r.ingredients /\ Repeated(r, n)
      BY <1>9, <2>1, FirstBadIs
    <2>3. IsInjective(r.ingredients)
      BY <1>5, <1>9 DEF Acceptable
    <2>4. DOMAIN r.ingredients = 1 .. Len(r.ingredients) /\ Len(r.ingredients) \in Nat
      BY <2>1 DEF RecipeFiles
    <2> HIDE DEF n, r
    <2>5. PICK j \in 1 .. n - 1 : r.ingredients[j] = r.ingredients[n]
      BY <2>2 DEF Repeated
    <2>6. j \in DOMAIN r.ingredients /\ j # n
      BY <2>2, <2>4, <2>5
    <2> QED BY <2>2, <2>3, <2>5, <2>6 DEF IsInjective
  <1> QED BY <1>6, <1>7, <1>8, <1>9 DEF Fails, Overtaken

(* Nobody is in the way of it either.                                        *)
LEMMA AloneIsNotBlocked ==
  ASSUME SoloInv, NEW p \in Projects, Alone(p)
  PROVE  Blockers(p) = {} /\ ~Deadlocked(p)
  <1>1. \A q \in Projects : q # p => ~Open(q)
    BY DEF SoloInv
  <1>2. Blockers(p) = {}
    BY <1>1 DEF Blockers
  <1>3. ~Waits(p)
    BY DEF SoloInv
  <1> QED BY <1>2, <1>3 DEF Deadlocked

LEMMA AcceptableStays ==
  ASSUME NEW p, ScriptOf(p)' = ScriptOf(p)
  PROVE  Acceptable(p)' = Acceptable(p)
  <1> DEFINE Entries(s) == {s[i].what : i \in {j \in DOMAIN s : s[j].do = "entry"}}
  <1>1. Entries(ScriptOf(p))' = Entries(ScriptOf(p))
    OBVIOUS
  <1> QED BY <1>1 DEF Acceptable

(* A step of p within its transaction.                                       *)
LEMMA SoloLocal ==
  ASSUME IInv, SoloInv, NEW p \in Projects, Open(p), NEW t, tx' = [tx EXCEPT ![p] = t],
         UNCHANGED <<databaseVars, count, job, phase>>, faults \in Nat, faults' = 0 => faults = 0,
         t.solo = tx[p].solo,
         Alone(p) => t.turn = 0 /\ TypeExists(p, t.found) /\ (faults' = 0 => t.aborted = tx[p].aborted)
  PROVE  SoloInv'
  <1> SUFFICES ASSUME NEW q \in Projects, Alone(q)'
               PROVE  /\ \A r \in Projects : r # q => ~Open(r)'
                      /\ ~Waits(q)' /\ TypeExists(q, tx[q].found)'
                      /\ faults' = 0 /\ Acceptable(q)' => ~tx'[q].aborted
    BY DEF SoloInv
  <1>1. /\ \A r \in Projects : /\ Open(r)' = Open(r) /\ Version(r)' = Version(r) /\ ScriptOf(r)' = ScriptOf(r)
                               /\ tx'[r] = IF r = p THEN t ELSE tx[r]
        /\ rows' = rows
    BY ScriptSame DEF IInv, Types, databaseVars
  <1>2. Alone(q)
    BY <1>1 DEF Alone
  <1>3. q = p
    BY <1>2 DEF SoloInv
  <1>4. \A x : TypeExists(p, x)' = TypeExists(p, x)
    BY <1>1 DEF TypeExists
  <1>5. TypeExists(q, tx[q].found)'
    <2>1. TypeExists(p, tx'[p].found)
      BY <1>1, <1>2, <1>3
    <2> QED BY <1>1, <1>3, <2>1 DEF TypeExists
  <1>6. Acceptable(q)' = Acceptable(q)
    BY <1>1, AcceptableStays
  <1>7. tx'[q] = t
    BY <1>1, <1>3
  <1> QED BY <1>1, <1>2, <1>3, <1>5, <1>6, <1>7 DEF SoloInv, Waits

(* p is through with a transaction, or begins to deploy.                     *)
LEMMA SoloEnter ==
  ASSUME IInv, SoloInv, NEW p \in Projects, NEW next, Enter(p, next), next # "idle" \/ Open(p)
  PROVE  SoloInv'
  <1> SUFFICES ASSUME NEW q \in Projects, Alone(q)'
               PROVE  /\ \A r \in Projects : r # q => ~Open(r)'
                      /\ ~Waits(q)' /\ TypeExists(q, tx[q].found)'
                      /\ faults' = 0 /\ Acceptable(q)' => ~tx'[q].aborted
    BY DEF SoloInv
  <1> DEFINE alone == next # "idle" /\ {r \in Projects \ {p} : Open(r)} = {}
  <1>1. /\ phase'[p] = next /\ \A r \in Projects : r # p => phase'[r] = phase[r]
        /\ \A r \in Projects : r # p => tx'[r] = [tx[r] EXCEPT !.solo = tx[r].solo /\ next = "idle"]
        /\ tx'[p] = NewTx(alone)
    BY DEF Enter, IInv, Types
  <1>2. q = p
    <2> SUFFICES ASSUME q # p PROVE FALSE
      OBVIOUS
    <2>1. Open(q)
      BY <1>1 DEF Alone, Open
    <2>2. tx[q] \in TxOf /\ tx'[q] = [tx[q] EXCEPT !.solo = tx[q].solo /\ next = "idle"] /\ tx'[q].solo
      BY <1>1 DEF IInv, Types, Alone
    <2>3. PICK solo : solo = (tx[q].solo /\ next = "idle")
      OBVIOUS
    <2>4. tx'[q].solo = solo
      BY <2>2, <2>3 DEF TxOf
    <2>5. tx[q].solo /\ next = "idle"
      BY <2>2, <2>3, <2>4
    <2> QED BY <2>1, <2>5 DEF SoloInv, Alone
  <1>3. alone \in BOOLEAN
    OBVIOUS
  <1>4. tx'[p].solo = alone /\ tx'[p].turn = 0 /\ tx'[p].found = NoRow /\ tx'[p].aborted = FALSE
    <2> HIDE DEF alone
    <2> QED BY <1>1, <1>3, NewTxIn
  <1>5. alone
    BY <1>2, <1>4 DEF Alone
  <1>6. \A r \in Projects : r # p => ~Open(r)'
    BY <1>1, <1>5 DEF Open
  <1>7. TypeExists(p, tx[p].found)'
    BY <1>4 DEF TypeExists, NoRow, Row
  <1> QED BY <1>2, <1>4, <1>6, <1>7 DEF Waits

(* A statement that is executed.                                             *)
LEMMA SoloExecute ==
  ASSUME IInv, SoloInv, NEW p \in Projects, NEW do, NEW t, Execute(p, do, t),
         t.solo = tx[p].solo, t.turn = 0, t.aborted = tx[p].aborted, t.found = tx[p].found \/ TypeExists(p, t.found)
  PROVE  SoloInv'
  <1>1. /\ Open(p) /\ tx' = [tx EXCEPT ![p] = t] /\ UNCHANGED <<databaseVars, count, job, phase>>
        /\ faults' = faults /\ faults \in Nat
    BY IngestionAssumption DEF Execute, At, IInv, Types
  <1>2. Alone(p) => TypeExists(p, tx[p].found)
    BY DEF SoloInv
  <1> QED BY <1>1, <1>2, SoloLocal

(* A row that a transaction sees is there, or its own.                       *)
LEMMA SeenTypesExist ==
  ASSUME Types, NEW p \in Projects, NEW t \in SeenTypes(p)
  PROVE  TypeExists(p, t)
  <1>1. CASE t \in {Row(Game, 0, l) : l \in BuiltinTypes}
    BY <1>1 DEF Row, TypeExists
  <1>2. CASE t \in UNION {{Row(v, Seen(p, v).gen, l) : l \in Files[Seen(p, v).source].types} : v \in Versions}
    <2>1. PICK v \in Versions : t \in {Row(v, Seen(p, v).gen, l) : l \in Files[Seen(p, v).source].types}
      BY <1>2
    <2>2. PICK l \in Files[Seen(p, v).source].types : t = Row(v, Seen(p, v).gen, l)
      BY <2>1
    <2>3. ~(Purged(p) /\ v[1] = p)
      BY <2>2, IngestionAssumption DEF Seen, NoRows
    <2>4. t.version = v /\ t.gen = rows[v].gen
      BY <2>2, <2>3 DEF Seen, Row
    <2> QED BY <2>4 DEF TypeExists
  <1>3. CASE Done(p, "types") /\ t \in {Row(Version(p), count[p], l) : l \in Files[Source(p)].types}
    BY <1>3 DEF Row, TypeExists
  <1> QED BY <1>1, <1>2, <1>3 DEF SeenTypes

(* The refusal of the statement of p, an arbitrary failure, or a deadlock.   *)
LEMMA SoloFails ==
  ASSUME IInv, SoloInv, NEW p \in Projects, Open(p), StatementFails(p), UNCHANGED <<databaseVars, count, job>>,
         faults \in Nat, faults' \in Nat, faults <= faults', faults' = 0 => ~Alone(p) \/ ~At(p, "bench")
  PROVE  SoloInv'
  <1>1. CASE At(p, "bench") /\ ~tx[p].aborted
    <2> DEFINE n == tx[p].step + 1
    <2>1. PICK t : t = [tx[p] EXCEPT !.aborted = TRUE, !.turn = 0, !.step = n]
      OBVIOUS
    <2>2. tx' = [tx EXCEPT ![p] = t] /\ phase' = phase
      BY <1>1, <2>1 DEF StatementFails, SkipBench
    <2>3. tx[p] \in TxOf
      BY DEF IInv, Types
    <2> HIDE DEF n
    <2>4. t.solo = tx[p].solo /\ t.turn = 0 /\ t.found = tx[p].found
      BY <2>1, <2>3 DEF TxOf
    <2>5. Alone(p) => TypeExists(p, t.found) /\ faults' # 0
      BY <1>1, <2>4 DEF SoloInv
    <2>6. (faults' = 0 => faults = 0) /\ UNCHANGED <<databaseVars, count, job, phase>>
      BY <2>2
    <2>7. Alone(p) => t.turn = 0 /\ TypeExists(p, t.found) /\ (faults' = 0 => t.aborted = tx[p].aborted)
      BY <2>4, <2>5
    <2> QED BY <2>2, <2>4, <2>6, <2>7, SoloLocal
  <1>2. CASE ~(At(p, "bench") /\ ~tx[p].aborted)
    <2> DEFINE next == IF phase[p] = "named" THEN "revalidate" ELSE "idle"
    <2>1. Enter(p, next)
      BY <1>2 DEF StatementFails, Rollback
    <2>2. PICK n : n = next
      OBVIOUS
    <2> HIDE DEF next
    <2> QED BY <2>1, <2>2, SoloEnter
  <1> QED BY <1>1, <1>2

LEMMA SoloStep == IInv /\ SoloInv /\ [Next]_vars => SoloInv'
  <1> SUFFICES ASSUME IInv, SoloInv, [Next]_vars PROVE SoloInv'
    OBVIOUS
  <1>0. faults \in Nat /\ tx \in [Projects -> TxOf]
    BY IngestionAssumption DEF IInv, Types
  <1>1. ASSUME UNCHANGED vars PROVE SoloInv'
    <2>1. \A p \in Projects : ScriptOf(p)' = ScriptOf(p)
      BY <1>1, ScriptSame DEF vars
    <2>2. \A p \in Projects : Acceptable(p)' = Acceptable(p)
      BY <2>1, AcceptableStays
    <2> QED BY <1>1, <2>2 DEF vars, databaseVars, SoloInv, Alone, Open, Waits, TypeExists, Version
  <1>2. ASSUME NEW p \in Projects, Deploy(p) PROVE SoloInv'
    <2>1. Enter(p, "default")
      BY <1>2 DEF Deploy
    <2> QED BY <2>1, SoloEnter
  <1>3. ASSUME NEW p \in Projects, Fault(p) PROVE SoloInv'
    <2>1. /\ Open(p) /\ StatementFails(p) /\ UNCHANGED <<databaseVars, count, job>>
          /\ faults' \in Nat /\ faults <= faults' /\ faults' # 0
      BY <1>0, <1>3 DEF Fault
    <2> QED BY <1>0, <2>1, SoloFails
  <1>4. ASSUME NEW p \in Projects, Refuse(p) PROVE SoloInv'
    <2>1. /\ Open(p) /\ Fails(p) /\ StatementFails(p) /\ UNCHANGED <<databaseVars, count, job, faults>>
      BY <1>4 DEF Refuse, Fails
    <2>2. CASE At(p, "bench") /\ ~tx[p].aborted
      <3>1. ~TypeExists(p, tx[p].found)
        BY <2>1, <2>2 DEF Fails, At
      <3>2. ~Alone(p)
        BY <3>1 DEF SoloInv
      <3> QED BY <1>0, <2>1, <3>2, SoloFails
    <2>3. CASE ~(At(p, "bench") /\ ~tx[p].aborted)
      <3> DEFINE next == IF phase[p] = "named" THEN "revalidate" ELSE "idle"
      <3>1. Enter(p, next)
        BY <2>1, <2>3 DEF StatementFails, Rollback
      <3>2. PICK n : n = next
        OBVIOUS
      <3> HIDE DEF next
      <3> QED BY <2>1, <3>1, <3>2, SoloEnter
    <2> QED BY <2>2, <2>3
  <1>5. ASSUME NEW p \in Projects, DeadlockVictim(p) PROVE SoloInv'
    <2>1. /\ Deadlocked(p) /\ StatementFails(p) /\ UNCHANGED <<databaseVars, count, job, faults>>
      BY <1>5 DEF DeadlockVictim
    <2>2. Open(p)
      BY <2>1 DEF Deadlocked, Waits, IInv, Progress
    <2>3. ~Alone(p)
      BY <2>1, AloneIsNotBlocked
    <2> QED BY <1>0, <2>1, <2>2, <2>3, SoloFails
  <1>6. ASSUME NEW p \in Projects, StartWaiting(p) PROVE SoloInv'
    <2> DEFINE n == Max({tx[q].turn : q \in Projects}) + 1
               gens == SeenGens(p)
    <2>1. PICK t : t = [tx[p] EXCEPT !.turn = n, !.snapshot = gens]
      OBVIOUS
    <2>2. /\ Blockers(p) # {} /\ tx' = [tx EXCEPT ![p] = t]
          /\ UNCHANGED <<databaseVars, count, job, phase>> /\ faults' = faults
      BY <1>6, <2>1 DEF StartWaiting
    <2>3. Open(p) /\ ~Alone(p)
      BY <2>2, AloneIsNotBlocked DEF Blockers
    <2> HIDE DEF n, gens
    <2>4. t.solo = tx[p].solo
      BY <1>0, <2>1 DEF TxOf
    <2> QED BY <1>0, <2>2, <2>3, <2>4, SoloLocal
  <1>7. ASSUME NEW p \in Projects, NEW do, Execute(p, do, Stepped(p)) PROVE SoloInv'
    <2>1. PICK t : t = Stepped(p)
      OBVIOUS
    <2>2. t.solo = tx[p].solo /\ t.turn = 0 /\ t.aborted = tx[p].aborted /\ t.found = tx[p].found
      BY <2>1, SteppedIn DEF IInv
    <2> QED BY <1>7, <2>1, <2>2, SoloExecute
  <1>8. ASSUME NEW p \in Projects, NEW do, NEW x,
               \/ Execute(p, do, [Stepped(p) EXCEPT !.keys = x])
               \/ Execute(p, do, [Stepped(p) EXCEPT !.step = x])
               \/ Execute(p, do, [Stepped(p) EXCEPT !.recipes = x])
               \/ Execute(p, do, [Stepped(p) EXCEPT !.benches = x])
               \/ Execute(p, do, [Stepped(p) EXCEPT !.views = x])
        PROVE  SoloInv'
    <2>1. PICK t : /\ Execute(p, do, t)
                   /\ \/ t = [Stepped(p) EXCEPT !.keys = x]
                      \/ t = [Stepped(p) EXCEPT !.step = x]
                      \/ t = [Stepped(p) EXCEPT !.recipes = x]
                      \/ t = [Stepped(p) EXCEPT !.benches = x]
                      \/ t = [Stepped(p) EXCEPT !.views = x]
      BY <1>8
    <2>2. /\ Stepped(p) \in TxOf /\ Stepped(p).solo = tx[p].solo /\ Stepped(p).turn = 0
          /\ Stepped(p).aborted = tx[p].aborted /\ Stepped(p).found = tx[p].found
      BY SteppedIn DEF IInv
    <2>3. t.solo = tx[p].solo /\ t.turn = 0 /\ t.aborted = tx[p].aborted /\ t.found = tx[p].found
      BY <2>1, <2>2 DEF TxOf
    <2> QED BY <2>1, <2>3, SoloExecute
  <1>9. ASSUME NEW p \in Projects, LookupType(p) PROVE SoloInv'
    <2> DEFINE what == Current(p).what
    <2>1. CASE \E t \in SeenTypes(p) : Execute(p, "lookup", [Stepped(p) EXCEPT !.found = t])
      <3>1. PICK r \in SeenTypes(p) : Execute(p, "lookup", [Stepped(p) EXCEPT !.found = r])
        BY <2>1
      <3>2. PICK t : t = [Stepped(p) EXCEPT !.found = r]
        OBVIOUS
      <3>3. /\ Stepped(p) \in TxOf /\ Stepped(p).solo = tx[p].solo /\ Stepped(p).turn = 0
            /\ Stepped(p).aborted = tx[p].aborted
        BY SteppedIn DEF IInv
      <3>4. t.solo = tx[p].solo /\ t.turn = 0 /\ t.aborted = tx[p].aborted /\ t.found = r
        BY <3>2, <3>3 DEF TxOf
      <3>5. TypeExists(p, r)
        BY SeenTypesExist DEF IInv
      <3> QED BY <3>1, <3>2, <3>4, <3>5, SoloExecute
    <2>2. CASE Execute(p, "lookup", [Stepped(p) EXCEPT !.step = @ + what.skip])
      <3>1. PICK n : n = Stepped(p).step + what.skip
        OBVIOUS
      <3> QED BY <1>8, <2>2, <3>1
    <2> QED BY <1>9, <2>1, <2>2 DEF LookupType
  <1>10. ASSUME NEW p \in Projects,
                FindOrCreate(p) \/ Purge(p) \/ AddTagTagEntry(p) \/ AddRecipeTypes(p) \/ AddRecipe(p) \/ AddWorkbench(p)
         PROVE  SoloInv'
    <2> DEFINE what == Current(p).what
               row == [id |-> what.id, type |-> tx[p].found, ingredients |-> Range(what.ingredients)]
               stored == (Stepped(p).benches \cup {Benches(p, what)}) \ benches
    <2>1. CASE Purge(p) \/ AddTagTagEntry(p) \/ AddRecipeTypes(p)
      BY <1>7, <2>1 DEF Purge, AddTagTagEntry, AddRecipeTypes
    <2>2. CASE FindOrCreate(p)
      <3>1. PICK x : x = Stepped(p).keys \cup {what}
        OBVIOUS
      <3>2. Execute(p, "key", Stepped(p)) \/ Execute(p, "key", [Stepped(p) EXCEPT !.keys = x])
        BY <2>2, <3>1 DEF FindOrCreate
      <3> QED BY <1>7, <1>8, <3>2
    <2>3. CASE AddRecipe(p)
      <3>1. PICK x : x = Stepped(p).recipes \cup {row}
        OBVIOUS
      <3>2. Execute(p, "recipe", Stepped(p)) \/ Execute(p, "recipe", [Stepped(p) EXCEPT !.recipes = x])
        BY <2>3, <3>1 DEF AddRecipe
      <3> QED BY <1>7, <1>8, <3>2
    <2>4. CASE AddWorkbench(p)
      <3>1. PICK x : x = stored
        OBVIOUS
      <3>2. Execute(p, "bench", [Stepped(p) EXCEPT !.benches = x])
        BY <2>4, <3>1 DEF AddWorkbench
      <3> QED BY <1>8, <3>2
    <2> QED BY <1>10, <2>1, <2>2, <2>3, <2>4
  <1>11. ASSUME NEW p \in Projects, RefreshView(p) PROVE SoloInv'
    <2> DEFINE k == Current(p).what
               seen == [gens |-> IF Waits(p) THEN tx[p].snapshot ELSE SeenGens(p), late |-> Waits(p)]
               more == [m \in DOMAIN tx[p].views \cup {k} |-> IF m = k THEN seen ELSE tx[p].views[m]]
    <2>1. PICK x : x = more
      OBVIOUS
    <2>2. Execute(p, "refresh", [Stepped(p) EXCEPT !.views = x])
      BY <1>11, <2>1 DEF RefreshView
    <2> QED BY <1>8, <2>2
  <1>12. ASSUME NEW p \in Projects, Commit(p) PROVE SoloInv'
    <2>1. Open(p) /\ Enter(p, AfterCommit(p))
      BY <1>12 DEF Commit
    <2>2. PICK n : n = AfterCommit(p)
      OBVIOUS
    <2> QED BY <2>1, <2>2, SoloEnter
  <1>13. ASSUME NEW p \in Projects, Advance(p) PROVE SoloInv'
    BY <1>4, <1>5, <1>6, <1>9, <1>10, <1>11, <1>12, <1>13 DEF Advance
  <1> QED BY <1>1, <1>2, <1>3, <1>13 DEF Next, Terminated

(* A transaction that is alone is refused nothing that the checkout does not *)
(* ask for: whatever former deployments have left in the tables they share,  *)
(* find_or_create_item and the others find or create, a recipe type that was *)
(* looked up is there when a recipe refers to it, and the cycles of tags are *)
(* those of the checkout itself (Ingestor::run in setup_version).            *)
THEOREM AloneSucceedsHolds == Spec => []AloneSucceeds
  <1>1. Init => SoloInv
    BY DEF Init, SoloInv, Alone, Open
  <1>2. Spec => []SoloInv
    BY <1>1, SoloStep, InductiveInvariant, PTL DEF Spec
  <1>3. IInv /\ SoloInv => AloneSucceeds
    <2> SUFFICES ASSUME IInv, SoloInv, NEW p \in Projects, Fails(p), tx[p].solo, faults = 0, Acceptable(p)
                 PROVE  FALSE
      BY DEF AloneSucceeds
    <2>1. Alone(p)
      BY DEF Alone, Fails
    <2>2. ~tx[p].aborted
      BY <2>1 DEF SoloInv
    <2> QED BY <2>1, <2>2, AloneIsNotRefused
  <1> QED BY <1>2, <1>3, InductiveInvariant, PTL
-----------------------------------------------------------------------------
(* Rows are where their recipe types belong: those of a project in its       *)
(* namespace.                                                                *)
Placed(x) == x.version = Game \/ (x.version \in Versions /\ Namespace[x.loc] = Modid[x.version[1]])
OwnTypes(v) == \A l \in Files[rows[v].source].types : l \in Valid /\ Namespace[l] = Modid[v[1]]

(* The committed rows are those of their checkout, or there is a reason.     *)
Is(row, r) == row.id = r.id /\ row.ingredients = Range(r.ingredients) /\ row.type.loc = r.type
Bench(w, v, type, l) == w.type.loc = type /\ w.item.loc = l /\ w.item.version \in {Game, v}
Told(v, gen, file) == <<v[1], gen, file>> \in reported
RecipesExact(v, R) ==
    /\ \A r \in R : \/ \E row \in rows[v].recipes : Is(row, r)
                    \/ Told(v, rows[v].gen, r.id) \/ Foreign(v, r.type)
    /\ \A row \in rows[v].recipes : Placed(row.type) /\ \E r \in R : Is(row, r)
BenchesExact(v, B) ==
    \A type \in DOMAIN B : \/ \A l \in Range(B[type]) : \E w \in benches : Bench(w, v, type, l)
                           \/ Told(v, rows[v].gen, "workbenches") \/ Foreign(v, type)
RowsExact(v) == RecipesExact(v, Files[rows[v].source].recipes) /\ BenchesExact(v, Files[rows[v].source].benches)

(* Those of an open transaction too, as far as its script has gone; what it  *)
(* has found is of the type that it looked up, and is nothing that its own   *)
(* purge deletes.                                                            *)
Kept(p, x) == phase[p] = "default" /\ x.version[1] = p => x.gen = count[p]
Passed(p) == 1 .. tx[p].step - 1
FoundRight(p) == \A j \in Passed(p) :
    ScriptOf(p)[j].do = "lookup" /\ tx[p].step \in Block(ScriptOf(p), j) => tx[p].found.loc = ScriptOf(p)[j].what.type
RecipesSoFar(p) ==
    /\ \A i \in Passed(p) : ScriptOf(p)[i].do = "recipe" =>
          \/ \E row \in tx[p].recipes : Is(row, ScriptOf(p)[i].what)
          \/ Told(Version(p), count[p], ScriptOf(p)[i].what.id)
    /\ \A row \in tx[p].recipes : Placed(row.type) /\ \E r \in Files[Source(p)].recipes : Is(row, r)
Provided(p, type, l) ==
    \/ \E w \in tx[p].benches \cup benches : Bench(w, Version(p), type, l) /\ Kept(p, w.type) /\ Kept(p, w.item)
    \/ Told(Version(p), count[p], "workbenches") \/ Foreign(Version(p), type)
BenchesSoFar(p) == \A j, i \in Passed(p) : \A type, l :
    BenchesAt(ScriptOf(p), j, i, type, l) => Provided(p, type, l)
WrittenExact(p) == Kept(p, tx[p].found) /\ FoundRight(p) /\ RecipesSoFar(p) /\ BenchesSoFar(p)

Storing(p) == phase[p] \in {"default", "named"} /\ ~tx[p].aborted
PlacedInv ==
    /\ \A v \in Versions : OwnTypes(v)
    /\ \A w \in benches : Placed(w.type)
    /\ \A p \in Projects : Placed(tx[p].found) /\ \A w \in tx[p].benches : Placed(w.type)
ExactInv ==
    /\ PlacedInv
    /\ \A v \in Versions : RowsExact(v)
    /\ \A p \in Projects : Storing(p) => WrittenExact(p)

(* Names differ, and none is that of the game.                               *)
LEMMA PlacedForeign ==
  ASSUME NEW x, Placed(x), NEW q \in Projects, x.version[1] = q, NEW v \in Versions, v[1] # q
  PROVE  Foreign(v, x.loc)
  <1>1. x.version # Game
    BY IngestionAssumption DEF Game
  <1>2. Namespace[x.loc] = Modid[q]
    BY <1>1 DEF Placed
  <1>3. v[1] \in Projects /\ Modid[q] \notin BuiltinNamespaces /\ Modid[q] # Modid[v[1]]
    BY IngestionAssumption DEF Versions
  <1> QED BY <1>2, <1>3 DEF Foreign

(* The recipe types that a transaction sees.                                 *)
LEMMA SeenPlaced ==
  ASSUME Types, PlacedInv, NEW p \in Projects, NEW t \in SeenTypes(p)
  PROVE  Placed(t)
  <1>1. CASE t \in {Row(Game, 0, l) : l \in BuiltinTypes}
    BY <1>1 DEF Row, Placed
  <1>2. CASE t \in UNION {{Row(v, Seen(p, v).gen, l) : l \in Files[Seen(p, v).source].types} : v \in Versions}
    <2>1. PICK v \in Versions : t \in {Row(v, Seen(p, v).gen, l) : l \in Files[Seen(p, v).source].types}
      BY <1>2
    <2>2. PICK l \in Files[Seen(p, v).source].types : t = Row(v, Seen(p, v).gen, l)
      BY <2>1
    <2>3. Seen(p, v) = rows[v]
      BY <2>2, IngestionAssumption DEF Seen, NoRows
    <2>4. Namespace[l] = Modid[v[1]]
      BY <2>2, <2>3 DEF PlacedInv, OwnTypes
    <2>5. t.version = v /\ t.loc = l
      BY <2>2 DEF Row
    <2> QED BY <2>4, <2>5 DEF Placed
  <1>3. CASE Done(p, "types") /\ t \in {Row(Version(p), count[p], l) : l \in Files[Source(p)].types}
    <2>1. PICK l \in Files[Source(p)].types : t = Row(Version(p), count[p], l)
      BY <1>3
    <2>2. Version(p) \in Versions /\ Version(p)[1] = p
      <3>1. phase[p] \in {"default", "named"}
        <4>1. CASE phase[p] = "revalidate"
          <5>1. Len(ScriptOf(p)) = 1 /\ ScriptOf(p)[1].do = "refresh"
            BY <4>1, RevalidationShape
          <5>2. tx[p].step \in 1 .. 2
            <6>1. tx[p].step \in 1 .. Len(ScriptOf(p)) + 1
              BY <1>3 DEF Done, Types
            <6> QED BY <5>1, <6>1
          <5>3. PICK i \in 1 .. tx[p].step - 1 : ScriptOf(p)[i].do = "types"
            BY <1>3 DEF Done
          <5>4. i = 1
            BY <5>2, <5>3
          <5> QED BY <5>1, <5>3, <5>4
        <4>2. CASE phase[p] # "revalidate"
          BY <1>3, <4>2 DEF Done, Open, Types
        <4> QED BY <4>1, <4>2
      <3> QED BY <3>1 DEF Version, Versions
    <2>3. Namespace[l] = Modid[p]
      <3>1. job[p] \in Jobs[p] /\ Source(p) \in {job[p].default, job[p].named}
        BY DEF Types, Source
      <3>2. Files[Source(p)].types \subseteq {m \in Valid : Namespace[m] = Modid[p]}
        BY <3>1, IngestionAssumption
      <3> QED BY <3>2
    <2>4. t.version = Version(p) /\ t.loc = l
      BY <2>1 DEF Row
    <2> QED BY <2>2, <2>3, <2>4 DEF Placed
  <1> QED BY <1>1, <1>2, <1>3 DEF SeenTypes

(* After the purge they are none that a commit would delete.                 *)
LEMMA SeenKept ==
  ASSUME Types, NEW p \in Projects, phase[p] = "default" => Purged(p), NEW t \in SeenTypes(p)
  PROVE  Kept(p, t)
  <1> SUFFICES ASSUME phase[p] = "default", t.version[1] = p, Purged(p) PROVE t.gen = count[p]
    BY DEF Kept
  <1>1. CASE t \in {Row(Game, 0, l) : l \in BuiltinTypes}
    <2>1. t.version = Game
      BY <1>1 DEF Row
    <2> QED BY <2>1, IngestionAssumption DEF Game
  <1>2. CASE t \in UNION {{Row(v, Seen(p, v).gen, l) : l \in Files[Seen(p, v).source].types} : v \in Versions}
    <2>1. PICK v \in Versions : t \in {Row(v, Seen(p, v).gen, l) : l \in Files[Seen(p, v).source].types}
      BY <1>2
    <2>2. PICK l \in Files[Seen(p, v).source].types : t = Row(v, Seen(p, v).gen, l)
      BY <2>1
    <2>3. v[1] = p
      BY <2>2 DEF Row
    <2>4. Seen(p, v).source = NoVersion
      BY <2>3 DEF Seen, NoRows
    <2> QED BY <2>2, <2>4, IngestionAssumption
  <1>3. CASE t \in {Row(Version(p), count[p], l) : l \in Files[Source(p)].types}
    BY <1>3 DEF Row
  <1> QED BY <1>1, <1>2, <1>3 DEF SeenTypes

-----------------------------------------------------------------------------
(* What a step leaves as exact as it was.                                    *)
LEMMA ReasonsStay ==
  ASSUME reported \subseteq reported', NEW v, NEW g, NEW file, Told(v, g, file)
  PROVE  Told(v, g, file)'
  BY DEF Told

LEMMA RowsStay ==
  ASSUME NEW v \in Versions, RowsExact(v), rows'[v] = rows[v], reported \subseteq reported', benches \subseteq benches'
  PROVE  RowsExact(v)'
  <1>1. RecipesExact(v, Files[rows[v].source].recipes)'
    BY DEF RowsExact, RecipesExact, Told
  <1>2. BenchesExact(v, Files[rows[v].source].benches)'
    BY DEF RowsExact, BenchesExact, Told
  <1> QED BY <1>1, <1>2 DEF RowsExact

(* Where the rows of somebody else go, with whatever refers to them, the     *)
(* recipe types of what went are not of the project.                         *)
Spared(q) == \A w \in benches : w \in benches' \/ \E o \in Projects \ {q} : o \in {w.type.version[1], w.item.version[1]}
LEMMA WrittenStays ==
  ASSUME Types, PlacedInv, NEW q \in Projects, Storing(q), WrittenExact(q), Spared(q),
         phase'[q] = phase[q], job'[q] = job[q], count'[q] = count[q], reported \subseteq reported',
         tx'[q].step = tx[q].step, tx'[q].found = tx[q].found,
         tx'[q].recipes = tx[q].recipes, tx'[q].benches = tx[q].benches
  PROVE  WrittenExact(q)'
  <1>1. /\ ScriptOf(q)' = ScriptOf(q) /\ Source(q)' = Source(q) /\ Version(q)' = Version(q) /\ Passed(q)' = Passed(q)
        /\ \A x : Kept(q, x)' = Kept(q, x)
    BY DEF ScriptOf, Source, Version, Passed, Kept
  <1>2. Kept(q, tx[q].found)' /\ FoundRight(q)'
    BY <1>1 DEF WrittenExact, FoundRight, Kept
  <1>3. RecipesSoFar(q)'
    BY <1>1, ReasonsStay DEF WrittenExact, RecipesSoFar, Told
  <1>4. ASSUME NEW type, NEW l, Provided(q, type, l) PROVE Provided(q, type, l)'
    <2>1. CASE Told(Version(q), count[q], "workbenches") \/ Foreign(Version(q), type)
      BY <1>1, <2>1 DEF Provided, Told, Foreign
    <2>2. CASE \E w \in tx[q].benches \cup benches :
                  Bench(w, Version(q), type, l) /\ Kept(q, w.type) /\ Kept(q, w.item)
      <3>1. PICK w \in tx[q].benches \cup benches :
                  Bench(w, Version(q), type, l) /\ Kept(q, w.type) /\ Kept(q, w.item)
        BY <2>2
      <3>2. CASE w \in tx'[q].benches \cup benches'
        BY <1>1, <3>1, <3>2 DEF Provided, Bench
      <3>3. CASE w \notin tx'[q].benches \cup benches'
        <4>1. PICK o \in Projects \ {q} : o \in {w.type.version[1], w.item.version[1]}
          BY <3>1, <3>3 DEF Spared
        <4>2. o # w.item.version[1]
          BY <3>1, <4>1, IngestionAssumption DEF Bench, Game, Version
        <4>3. o = w.type.version[1] /\ Placed(w.type) /\ w.type.loc = type
          BY <3>1, <4>1, <4>2 DEF Bench, PlacedInv
        <4>4. Version(q) \in Versions /\ Version(q)[1] = q
          BY DEF Version, Versions, Storing
        <4>5. Foreign(Version(q), type)
          BY <4>1, <4>3, <4>4, PlacedForeign
        <4> QED BY <1>1, <4>5 DEF Provided, Foreign
      <3> QED BY <3>2, <3>3
    <2> QED BY <1>4, <2>1, <2>2 DEF Provided
  <1>5. BenchesSoFar(q)'
    <2> SUFFICES ASSUME NEW j \in Passed(q)', NEW i \in Passed(q)', NEW type, NEW l,
                        BenchesAt(ScriptOf(q)', j, i, type, l)
                 PROVE  Provided(q, type, l)'
      BY DEF BenchesSoFar
    <2>1. Provided(q, type, l)
      BY <1>1 DEF WrittenExact, BenchesSoFar
    <2> QED BY <1>4, <2>1
  <1> QED BY <1>2, <1>3, <1>5 DEF WrittenExact
-----------------------------------------------------------------------------
(* Where a transaction is: among its statements, with no lookup in the block *)
(* of another one.                                                           *)
LEMMA PassedIn ==
  ASSUME Types, NEW p \in Projects, phase[p] \in {"default", "named"}
  PROVE  /\ Wrote(p) \in Nat /\ tx[p].step \in Nat \ {0} /\ Passed(p) \subseteq Nat \ {0}
         /\ \A i \in Passed(p) : ScriptOf(p)[i].do # "refresh" => i \in 1 .. Wrote(p)
         /\ \A i \in Passed(p) : ScriptOf(p)[i] \in StatementsOf
         /\ \A i, j \in 1 .. Wrote(p) :
               ScriptOf(p)[i].do = "lookup" /\ j \in Block(ScriptOf(p), i) => ScriptOf(p)[j].do # "lookup"
  <1>1. ScriptIs(p)
    BY ScriptShape
  <1>2. \A i \in 1 .. Wrote(p) : Fits(Files[Source(p)].recipes, phase[p] = "default", ScriptOf(p), i)
    BY ScriptFits
  <1>3. tx[p].step \in 1 .. Len(ScriptOf(p)) + 1 /\ tx[p].step \in Nat \ {0}
    BY DEF Types, Open, TxOf
  <1>4. PICK s, n : s = ScriptOf(p) /\ n = Wrote(p)
    OBVIOUS
  <1>5. /\ s \in Seq(StatementsOf) /\ n \in Nat /\ Len(s) \in n .. n + 2
        /\ \A i \in n + 1 .. Len(s) : s[i].do = "refresh"
    BY <1>1, <1>4 DEF ScriptIs
  <1>6. Passed(p) \subseteq 1 .. Len(s)
    BY <1>3, <1>4, <1>5 DEF Passed
  <1>7. \A i \in Passed(p) : i \in Nat \ {0} /\ s[i] \in StatementsOf /\ (s[i].do # "refresh" => i \in 1 .. n)
    BY <1>5, <1>6
  <1>8. ASSUME NEW i \in 1 .. n, NEW j \in 1 .. n, s[i].do = "lookup", j \in Block(s, i) PROVE s[j].do # "lookup"
    BY <1>2, <1>4, <1>8 DEF Fits
  <1> QED BY <1>3, <1>4, <1>5, <1>7, <1>8

(* What p does next is of the type that it has found.                        *)
LEMMA FoundIs ==
  ASSUME Types, NEW p \in Projects, phase[p] \in {"default", "named"}, FoundRight(p)
  PROVE  /\ \A j \in Passed(p) : \A type, l :
               BenchesAt(ScriptOf(p), j, tx[p].step, type, l) => tx[p].found.loc = type /\ Current(p).what = l
         /\ At(p, "recipe") => /\ tx[p].found.loc = Current(p).what.type
                               /\ Current(p).what \in Files[Source(p)].recipes
  <1>1. ASSUME NEW j \in Passed(p), NEW type, NEW l, BenchesAt(ScriptOf(p), j, tx[p].step, type, l)
        PROVE  tx[p].found.loc = type /\ Current(p).what = l
    BY <1>1 DEF BenchesAt, FoundRight, Current
  <1>2. ASSUME At(p, "recipe")
        PROVE  tx[p].found.loc = Current(p).what.type /\ Current(p).what \in Files[Source(p)].recipes
    <2>1. tx[p].step \in 1 .. Wrote(p) /\ Wrote(p) \in Nat /\ Current(p).do = "recipe"
      BY <1>2, WritesAt
    <2>2. PICK s, i : s = ScriptOf(p) /\ i = tx[p].step
      OBVIOUS
    <2>3. Fits(Files[Source(p)].recipes, phase[p] = "default", s, i) /\ Current(p) = s[i]
      BY <2>1, <2>2, ScriptFits DEF Current
    <2>4. /\ s[i].what \in Files[Source(p)].recipes /\ i # 1 /\ s[i - 1].do = "lookup"
          /\ s[i - 1].what = [type |-> s[i].what.type, file |-> s[i].what.id, skip |-> 1]
      BY <2>1, <2>3 DEF Fits
    <2>5. i \in Nat /\ i - 1 \in Passed(p)
      BY <2>1, <2>2, <2>4 DEF Passed
    <2>6. i \in Block(s, i - 1) /\ s[i - 1].what.type = s[i].what.type
      BY <2>4, <2>5 DEF Block
    <2> QED BY <2>2, <2>3, <2>4, <2>5, <2>6 DEF FoundRight
  <1> QED BY <1>1, <1>2

Moves(p, t) ==
    /\ tx' = [tx EXCEPT ![p] = t] /\ UNCHANGED <<databaseVars, count, job, phase>>
    /\ reported \subseteq reported'

LEMMA MovesFrame ==
  ASSUME Types, NEW p \in Projects, NEW t, Moves(p, t)
  PROVE  /\ ScriptOf(p)' = ScriptOf(p) /\ Source(p)' = Source(p) /\ Version(p)' = Version(p)
         /\ tx'[p] = t /\ Passed(p)' = 1 .. t.step - 1 /\ \A x : Kept(p, x)' = Kept(p, x)
         /\ \A v, g, file : Told(v, g, file) => Told(v, g, file)'
  <1>1. tx'[p] = t /\ phase'[p] = phase[p] /\ job'[p] = job[p] /\ count' = count /\ reported \subseteq reported'
    BY DEF Moves, Types
  <1> QED BY <1>1 DEF ScriptOf, Source, Version, Passed, Kept, Told

LEMMA ProvidedStays ==
  ASSUME Types, NEW p \in Projects, NEW t, Moves(p, t), tx[p].benches \subseteq t.benches \cup benches,
         NEW type, NEW l, Provided(p, type, l)
  PROVE  Provided(p, type, l)'
  <1>1. /\ Version(p)' = Version(p) /\ \A x : Kept(p, x)' = Kept(p, x)
        /\ tx[p].benches \cup benches \subseteq (tx[p].benches \cup benches)'
    BY MovesFrame DEF Moves, databaseVars
  <1>2. CASE \E w \in tx[p].benches \cup benches :
                Bench(w, Version(p), type, l) /\ Kept(p, w.type) /\ Kept(p, w.item)
    BY <1>1, <1>2 DEF Provided, Bench
  <1>3. CASE Told(Version(p), count[p], "workbenches") \/ Foreign(Version(p), type)
    <2>1. count'[p] = count[p] /\ reported \subseteq reported'
      BY DEF Moves
    <2> QED BY <1>1, <1>3, <2>1 DEF Provided, Told, Foreign
  <1> QED BY <1>2, <1>3 DEF Provided

(* A statement other than a lookup has been executed.                        *)
LEMMA WrittenMoves ==
  ASSUME Types, NEW p \in Projects, Storing(p), WrittenExact(p), NEW do, At(p, do), do # "lookup",
         NEW t, Moves(p, t), t.step = tx[p].step + 1, t.found = tx[p].found,
         tx[p].recipes \subseteq t.recipes, tx[p].benches \subseteq t.benches \cup benches,
         do = "recipe" => \/ \E row \in t.recipes : Is(row, Current(p).what)
                          \/ <<p, count[p], Current(p).what.id>> \in reported',
         \A row \in t.recipes \ tx[p].recipes : Placed(row.type) /\ \E r \in Files[Source(p)].recipes : Is(row, r),
         \A j \in Passed(p) : \A type, l : BenchesAt(ScriptOf(p), j, tx[p].step, type, l) => Provided(p, type, l)'
  PROVE  WrittenExact(p)'
  <1>1. PICK s, i : s = ScriptOf(p) /\ i = tx[p].step
    OBVIOUS
  <1>2. /\ ScriptOf(p)' = s /\ Source(p)' = Source(p) /\ Version(p)' = Version(p)
        /\ tx'[p] = t /\ Passed(p)' = 1 .. t.step - 1 /\ \A x : Kept(p, x)' = Kept(p, x)
        /\ \A v, g, file : Told(v, g, file) => Told(v, g, file)'
        /\ count' = count
    BY <1>1, MovesFrame DEF Moves
  <1>3. phase[p] \in {"default", "named"}
    BY DEF Storing
  <1>4. i \in Nat \ {0} /\ Passed(p) = 1 .. i - 1 /\ Passed(p)' = Passed(p) \cup {i} /\ s[i].do = do
    BY <1>1, <1>2, <1>3, PassedIn DEF Passed, At, Current
  <1>5. Kept(p, tx[p].found)'
    BY <1>2 DEF WrittenExact, Kept
  <1>6. FoundRight(p)'
    <2> SUFFICES ASSUME NEW j \in Passed(p)', s[j].do = "lookup", i + 1 \in Block(s, j)
                 PROVE  t.found.loc = s[j].what.type
      BY <1>1, <1>2 DEF FoundRight
    <2>1. j \in Passed(p)
      BY <1>4
    <2>2. j \in 1 .. i - 1 /\ i + 1 \in j + 1 .. j + s[j].what.skip
      BY <1>4, <2>1 DEF Block
    <2>3. s[j].what.skip \in Nat
      <3>1. s[j] \in StatementsOf
        BY <1>1, <1>3, <2>1, PassedIn
      <3>2. ASSUME NEW x \in StatementsOf, x.do = "lookup" PROVE x.what.skip \in Nat
        BY <3>2 DEF StatementsOf
      <3> QED BY <3>1, <3>2
    <2>4. i \in j + 1 .. j + s[j].what.skip
      BY <1>4, <2>2, <2>3
    <2>5. i \in Block(s, j)
      BY <2>4 DEF Block
    <2> QED BY <1>1, <2>1, <2>5 DEF WrittenExact, FoundRight
  <1>7. RecipesSoFar(p)'
    <2>1. ASSUME NEW k \in Passed(p)', s[k].do = "recipe"
          PROVE  (\E row \in t.recipes : Is(row, s[k].what)) \/ <<p, count[p], s[k].what.id>> \in reported'
      <3>1. CASE k = i
        BY <1>1, <1>4, <2>1, <3>1 DEF Current
      <3>2. CASE k # i
        <4>1. k \in Passed(p)
          BY <1>4, <3>2
        <4>2. (\E row \in tx[p].recipes : Is(row, s[k].what)) \/ Told(Version(p), count[p], s[k].what.id)
          BY <1>1, <2>1, <4>1 DEF WrittenExact, RecipesSoFar
        <4> QED BY <4>2 DEF Told, Version, Moves
      <3> QED BY <3>1, <3>2
    <2>2. ASSUME NEW row \in t.recipes PROVE Placed(row.type) /\ \E r \in Files[Source(p)].recipes : Is(row, r)
      BY DEF WrittenExact, RecipesSoFar
    <2>3. Version(p)'[1] = p
      BY DEF Version
    <2> QED BY <1>2, <2>1, <2>2, <2>3 DEF RecipesSoFar, Told
  <1>8. BenchesSoFar(p)'
    <2> SUFFICES ASSUME NEW j \in Passed(p)', NEW k \in Passed(p)', NEW type, NEW l, BenchesAt(s, j, k, type, l)
                 PROVE  Provided(p, type, l)'
      BY <1>2 DEF BenchesSoFar
    <2>1. j \in Passed(p)
      BY <1>4 DEF BenchesAt
    <2>2. CASE k = i
      BY <1>1, <2>1, <2>2
    <2>3. CASE k # i
      <3>1. Provided(p, type, l)
        BY <1>1, <1>4, <2>1, <2>3 DEF WrittenExact, BenchesSoFar
      <3> QED BY <3>1, ProvidedStays
    <2> QED BY <2>2, <2>3
  <1> QED BY <1>5, <1>6, <1>7, <1>8 DEF WrittenExact

(* The lookup has found a row.                                               *)
LEMMA WrittenFinds ==
  ASSUME Types, NEW p \in Projects, Storing(p), WrittenExact(p), At(p, "lookup"),
         NEW t, Moves(p, t), t.step = tx[p].step + 1, t.recipes = tx[p].recipes, t.benches = tx[p].benches,
         t.found \in SeenTypes(p), t.found.loc = Current(p).what.type
  PROVE  WrittenExact(p)'
  <1>1. PICK s, i : s = ScriptOf(p) /\ i = tx[p].step
    OBVIOUS
  <1>2. /\ ScriptOf(p)' = s /\ Source(p)' = Source(p) /\ Version(p)' = Version(p)
        /\ tx'[p] = t /\ Passed(p)' = 1 .. t.step - 1 /\ \A x : Kept(p, x)' = Kept(p, x)
        /\ \A v, g, file : Told(v, g, file) => Told(v, g, file)'
        /\ count' = count
    BY <1>1, MovesFrame DEF Moves
  <1>3. phase[p] \in {"default", "named"}
    BY DEF Storing
  <1>4. /\ i \in Nat \ {0} /\ Passed(p) = 1 .. i - 1 /\ Passed(p)' = Passed(p) \cup {i}
        /\ s[i].do = "lookup" /\ s[i].what.type = t.found.loc
    BY <1>1, <1>2, <1>3, PassedIn DEF Passed, At, Current
  <1>5. Kept(p, tx[p].found)'
    <2>1. phase[p] = "default" => Purged(p)
      <3> SUFFICES ASSUME phase[p] = "default" PROVE Purged(p)
        OBVIOUS
      <3>1. s[1].do = "purge"
        BY <1>1, <1>3, ScriptFits
      <3>2. 1 \in 1 .. i - 1
        BY <1>4, <3>1
      <3> QED BY <1>1, <3>1, <3>2 DEF Purged, Done, At
    <2>2. Kept(p, t.found)
      BY <2>1, SeenKept
    <2> QED BY <1>2, <2>2 DEF Kept
  <1>6. FoundRight(p)'
    <2> SUFFICES ASSUME NEW j \in Passed(p)', s[j].do = "lookup", i + 1 \in Block(s, j)
                 PROVE  t.found.loc = s[j].what.type
      BY <1>1, <1>2 DEF FoundRight
    <2>1. CASE j = i
      BY <1>4, <2>1
    <2>2. CASE j # i
      <3>1. j \in 1 .. i - 1 /\ i + 1 \in j + 1 .. j + s[j].what.skip
        BY <1>4, <2>2 DEF Block
      <3>2. s[j].what.skip \in Nat /\ j \in 1 .. Wrote(p)
        <4>1. s[j] \in StatementsOf /\ j \in 1 .. Wrote(p)
          BY <1>1, <1>3, <1>4, <3>1, PassedIn
        <4>2. ASSUME NEW x \in StatementsOf, x.do = "lookup" PROVE x.what.skip \in Nat
          BY <4>2 DEF StatementsOf
        <4> QED BY <4>1, <4>2
      <3>3. i \in j + 1 .. j + s[j].what.skip
        BY <1>4, <3>1, <3>2
      <3>4. i \in 1 .. Wrote(p)
        BY <1>1, WritesAt
      <3> QED BY <1>1, <1>3, <1>4, <3>2, <3>3, <3>4, PassedIn DEF Block
    <2> QED BY <2>1, <2>2
  <1>7. RecipesSoFar(p)'
    <2>1. ASSUME NEW k \in Passed(p)', s[k].do = "recipe"
          PROVE  (\E row \in t.recipes : Is(row, s[k].what)) \/ <<p, count[p], s[k].what.id>> \in reported'
      <3>1. k \in Passed(p)
        BY <1>4, <2>1
      <3>2. (\E row \in tx[p].recipes : Is(row, s[k].what)) \/ Told(Version(p), count[p], s[k].what.id)
        BY <1>1, <2>1, <3>1 DEF WrittenExact, RecipesSoFar
      <3> QED BY <3>2 DEF Told, Version, Moves
    <2>2. ASSUME NEW row \in t.recipes PROVE Placed(row.type) /\ \E r \in Files[Source(p)].recipes : Is(row, r)
      BY DEF WrittenExact, RecipesSoFar
    <2>3. Version(p)'[1] = p
      BY DEF Version
    <2> QED BY <1>2, <2>1, <2>2, <2>3 DEF RecipesSoFar, Told
  <1>8. BenchesSoFar(p)'
    <2> SUFFICES ASSUME NEW j \in Passed(p)', NEW k \in Passed(p)', NEW type, NEW l, BenchesAt(s, j, k, type, l)
                 PROVE  Provided(p, type, l)'
      BY <1>2 DEF BenchesSoFar
    <2>1. k \in Passed(p)
      BY <1>4 DEF BenchesAt
    <2>2. j \in Passed(p)
      BY <1>4, <2>1 DEF BenchesAt, Block
    <2>3. Provided(p, type, l)
      BY <1>1, <2>1, <2>2 DEF WrittenExact, BenchesSoFar
    <2> QED BY <2>3, ProvidedStays
  <1> QED BY <1>5, <1>6, <1>7, <1>8 DEF WrittenExact

(* It has found none, and there is an issue about the file.                  *)
LEMMA WrittenSkips ==
  ASSUME Types, NEW p \in Projects, Storing(p), WrittenExact(p), At(p, "lookup"),
         NEW t, Moves(p, t), t.step = tx[p].step + 1 + Current(p).what.skip,
         t.recipes = tx[p].recipes, t.benches = tx[p].benches, t.found = tx[p].found,
         Current(p).what.skip # 0 => <<p, count[p], Current(p).what.file>> \in reported'
  PROVE  WrittenExact(p)'
  <1>1. PICK s, i, skip, n : s = ScriptOf(p) /\ i = tx[p].step /\ skip = Current(p).what.skip /\ n = Wrote(p)
    OBVIOUS
  <1>2. /\ ScriptOf(p)' = s /\ Source(p)' = Source(p) /\ Version(p)' = Version(p)
        /\ tx'[p] = t /\ Passed(p)' = 1 .. t.step - 1 /\ \A x : Kept(p, x)' = Kept(p, x)
        /\ \A v, g, file : Told(v, g, file) => Told(v, g, file)'
        /\ count' = count
    BY <1>1, MovesFrame DEF Moves
  <1>3. phase[p] \in {"default", "named"}
    BY DEF Storing
  <1>4. /\ s[i].do = "lookup" /\ s[i].what.skip = skip /\ skip \in Nat /\ Current(p) = s[i]
        /\ n \in Nat /\ i \in 1 .. n /\ i + skip <= n
    <2>1. /\ Wrote(p) \in Nat /\ tx[p].step \in 1 .. Wrote(p) /\ Current(p) \in StatementsOf
          /\ Current(p).do = "lookup" /\ tx[p].step + Current(p).what.skip <= Wrote(p)
      BY WritesAt
    <2>2. ASSUME NEW x \in StatementsOf, x.do = "lookup" PROVE x.what.skip \in Nat
      BY <2>2 DEF StatementsOf
    <2> QED BY <1>1, <2>1, <2>2 DEF Current
  <1>5. Passed(p) = 1 .. i - 1 /\ Passed(p)' = 1 .. i + skip
    <2>1. t.step - 1 = i + skip /\ Passed(p) = 1 .. i - 1
      BY <1>1, <1>4 DEF Passed
    <2> QED BY <1>2, <2>1
  <1>6. ASSUME NEW j \in 1 .. n, s[j].do = "lookup", NEW k \in 1 .. n, s[k].do = "lookup"
        PROVE  k \notin j + 1 .. j + s[j].what.skip
    BY <1>1, <1>3, <1>6, PassedIn DEF Block
  <1>7. ASSUME NEW j \in 1 .. n, s[j].do = "lookup" PROVE s[j].what.skip \in Nat
    <2>1. ScriptIs(p) /\ Wrote(p) = n /\ ScriptOf(p) = s
      BY <1>1, <1>3, ScriptShape
    <2>2. s[j] \in StatementsOf
      BY <1>4, <2>1 DEF ScriptIs
    <2>3. ASSUME NEW x \in StatementsOf, x.do = "lookup" PROVE x.what.skip \in Nat
      BY <2>3 DEF StatementsOf
    <2> QED BY <1>7, <2>2, <2>3
  <1>8. Kept(p, tx[p].found)'
    BY <1>2 DEF WrittenExact, Kept
  <1>9. FoundRight(p)'
    <2> SUFFICES ASSUME NEW j \in 1 .. i + skip, s[j].do = "lookup", i + 1 + skip \in Block(s, j)
                 PROVE  FALSE
      BY <1>1, <1>2, <1>5 DEF FoundRight
    <2>1. j \in 1 .. n /\ s[j].what.skip \in Nat /\ i + 1 + skip \in j + 1 .. j + s[j].what.skip
      BY <1>4, <1>7 DEF Block
    <2>2. j # i
      BY <1>4, <2>1
    <2>3. i \in j + 1 .. j + s[j].what.skip \/ j \in i + 1 .. i + skip
      BY <1>4, <2>1, <2>2
    <2> QED BY <1>4, <1>6, <2>1, <2>3
  <1>10. ASSUME NEW j \in 1 .. i + skip, NEW k \in 1 .. i + skip, s[j].do = "lookup", k \in Block(s, j), k >= i
         PROVE  j = i /\ skip # 0
    <2>1. j \in 1 .. n /\ s[j].what.skip \in Nat /\ k \in j + 1 .. j + s[j].what.skip
      BY <1>4, <1>7, <1>10 DEF Block
    <2>2. CASE j < i
      <3>1. i \in j + 1 .. j + s[j].what.skip
        BY <1>4, <1>10, <2>1, <2>2
      <3> QED BY <1>4, <1>6, <1>10, <2>1, <3>1
    <2>3. CASE j > i
      <3>1. j \in i + 1 .. i + skip
        BY <1>4, <1>10, <2>1, <2>3
      <3> QED BY <1>4, <1>6, <1>10, <2>1, <3>1
    <2>4. CASE j = i
      BY <1>4, <1>10, <2>1, <2>4
    <2> QED BY <1>4, <2>1, <2>2, <2>3, <2>4
  <1>11. ASSUME NEW k \in 1 .. i + skip
         PROVE  Fits(Files[Source(p)].recipes, phase[p] = "default", s, k)
    <2>1. k \in 1 .. n
      BY <1>4
    <2> QED BY <1>1, <1>3, <2>1, ScriptFits
  <1>12. RecipesSoFar(p)'
    <2>1. ASSUME NEW k \in 1 .. i + skip, s[k].do = "recipe"
          PROVE  (\E row \in t.recipes : Is(row, s[k].what)) \/ <<p, count[p], s[k].what.id>> \in reported'
      <3>1. CASE k < i
        <4>1. k \in Passed(p)
          BY <1>4, <1>5, <3>1
        <4>2. (\E row \in tx[p].recipes : Is(row, s[k].what)) \/ Told(Version(p), count[p], s[k].what.id)
          BY <1>1, <2>1, <4>1 DEF WrittenExact, RecipesSoFar
        <4> QED BY <4>2 DEF Told, Version, Moves
      <3>2. CASE ~(k < i)
        <4>1. /\ k # 1 /\ s[k - 1].do = "lookup"
              /\ s[k - 1].what = [type |-> s[k].what.type, file |-> s[k].what.id, skip |-> 1]
          BY <1>11, <2>1 DEF Fits
        <4>2. k - 1 \in 1 .. i + skip /\ k \in Block(s, k - 1)
          BY <1>4, <4>1 DEF Block
        <4>3. k >= i
          BY <1>4, <3>2
        <4>4. k - 1 = i /\ skip # 0
          BY <1>10, <4>1, <4>2, <4>3
        <4>5. Current(p).what.file = s[k].what.id
          BY <1>4, <4>1, <4>4
        <4> QED BY <1>1, <4>4, <4>5
      <3> QED BY <3>1, <3>2
    <2>2. ASSUME NEW row \in t.recipes PROVE Placed(row.type) /\ \E r \in Files[Source(p)].recipes : Is(row, r)
      BY DEF WrittenExact, RecipesSoFar
    <2>3. Version(p)'[1] = p
      BY DEF Version
    <2> QED BY <1>2, <1>5, <2>1, <2>2, <2>3 DEF RecipesSoFar, Told
  <1>13. BenchesSoFar(p)'
    <2> SUFFICES ASSUME NEW j \in 1 .. i + skip, NEW k \in 1 .. i + skip, NEW type, NEW l,
                        BenchesAt(s, j, k, type, l)
                 PROVE  Provided(p, type, l)'
      BY <1>2, <1>5 DEF BenchesSoFar
    <2>1. s[j].do = "lookup" /\ k \in Block(s, j) /\ s[k].do = "bench"
      BY DEF BenchesAt
    <2>2. CASE k < i
      <3>1. k \in Passed(p) /\ j \in Passed(p)
        BY <1>4, <1>5, <2>1, <2>2 DEF Block
      <3>2. Provided(p, type, l)
        BY <1>1, <3>1 DEF WrittenExact, BenchesSoFar
      <3> QED BY <3>2, ProvidedStays
    <2>3. CASE ~(k < i)
      <3>1. k >= i
        BY <1>4, <2>3
      <3>2. j = i /\ skip # 0
        BY <1>10, <2>1, <3>1
      <3>3. Current(p).what.file = "workbenches"
        <4>1. Fits(Files[Source(p)].recipes, phase[p] = "default", s, j)
          BY <1>11
        <4>2. s[j].what.file = "workbenches"
          BY <2>1, <4>1 DEF Fits
        <4> QED BY <1>4, <3>2, <4>2
      <3>4. <<p, count[p], "workbenches">> \in reported'
        BY <1>1, <3>2, <3>3
      <3>5. Version(p)'[1] = p
        BY DEF Version
      <3> QED BY <1>2, <3>4, <3>5 DEF Provided, Told
    <2> QED BY <2>2, <2>3
  <1> QED BY <1>8, <1>9, <1>12, <1>13 DEF WrittenExact

-----------------------------------------------------------------------------
(* A step within the transaction of p, then one into another.                *)
LEMMA PlacedStays ==
  ASSUME PlacedInv, rows' = rows, benches' = benches,
         \A q \in Projects : Placed(tx'[q].found) /\ \A w \in tx'[q].benches : Placed(w.type)
  PROVE  PlacedInv'
  BY DEF PlacedInv, OwnTypes, Placed

LEMMA ExactLocal ==
  ASSUME IInv, ExactInv, NEW p \in Projects, NEW t, Moves(p, t),
         Placed(t.found), \A w \in t.benches : Placed(w.type), Storing(p)' => WrittenExact(p)'
  PROVE  ExactInv'
  <1>1. \A q \in Projects : tx'[q] = IF q = p THEN t ELSE tx[q]
    BY DEF Moves, IInv, Types
  <1>2. UNCHANGED <<databaseVars, count, job, phase>> /\ reported \subseteq reported'
    BY DEF Moves
  <1>3. PlacedInv'
    <2>1. rows' = rows /\ benches' = benches
      BY <1>2 DEF databaseVars
    <2>2. \A q \in Projects : Placed(tx'[q].found) /\ \A w \in tx'[q].benches : Placed(w.type)
      BY <1>1 DEF ExactInv, PlacedInv
    <2> QED BY <2>1, <2>2, PlacedStays DEF ExactInv
  <1>4. \A v \in Versions : RowsExact(v)'
    BY <1>2, RowsStay DEF ExactInv, databaseVars
  <1>5. ASSUME NEW q \in Projects, q # p, Storing(q)' PROVE WrittenExact(q)'
    <2>1. /\ tx'[q] = tx[q] /\ phase'[q] = phase[q] /\ job'[q] = job[q] /\ count'[q] = count[q]
          /\ benches' = benches
      BY <1>1, <1>2, <1>5 DEF databaseVars
    <2>2. Storing(q)
      BY <1>5, <2>1 DEF Storing
    <2>3. Spared(q)
      BY <2>1 DEF Spared
    <2> QED BY <1>2, <2>1, <2>2, <2>3, WrittenStays DEF ExactInv, IInv
  <1> QED BY <1>3, <1>4, <1>5 DEF ExactInv

(* A transaction that has just begun has written nothing.                    *)
LEMMA FreshExact ==
  ASSUME NEW p \in Projects, tx'[p].step = 1, tx'[p].found = NoRow, tx'[p].recipes = {}
  PROVE  WrittenExact(p)'
  <1>1. Passed(p)' = {}
    BY DEF Passed
  <1>2. Kept(p, tx[p].found)'
    BY IngestionAssumption DEF Kept, NoRow, Row, Game
  <1>3. FoundRight(p)' /\ RecipesSoFar(p)' /\ BenchesSoFar(p)'
    BY <1>1 DEF FoundRight, RecipesSoFar, BenchesSoFar
  <1> QED BY <1>2, <1>3 DEF WrittenExact

LEMMA NoRowPlaced == Placed(NoRow)
  BY DEF Placed, NoRow, Row

(* What the transactions are after one of p, whatever became of the rows.    *)
LEMMA ExactEnter ==
  ASSUME IInv, ExactInv, NEW p \in Projects, NEW next, Enter(p, next), reported \subseteq reported',
         \A q \in Projects : q # p => job'[q] = job[q] /\ count'[q] = count[q] /\ Spared(q)
  PROVE  /\ \A q \in Projects : Placed(tx'[q].found) /\ \A w \in tx'[q].benches : Placed(w.type)
         /\ \A q \in Projects : Storing(q)' => WrittenExact(q)'
  <1>1. /\ tx'[p].step = 1 /\ tx'[p].recipes = {} /\ tx'[p].benches = {} /\ tx'[p].found = NoRow
        /\ \A q \in Projects : q # p =>
              /\ phase'[q] = phase[q] /\ tx'[q].step = tx[q].step /\ tx'[q].aborted = tx[q].aborted
              /\ tx'[q].found = tx[q].found /\ tx'[q].recipes = tx[q].recipes /\ tx'[q].benches = tx[q].benches
    <2>1. Types
      BY DEF IInv
    <2>2. tx'[p].step = 1 /\ tx'[p].recipes = {} /\ tx'[p].benches = {} /\ tx'[p].found = NoRow
      BY <2>1, EnterFrame, EnterBlank
    <2>3. ASSUME NEW q \in Projects, q # p
          PROVE  /\ phase'[q] = phase[q] /\ tx'[q].step = tx[q].step /\ tx'[q].aborted = tx[q].aborted
                 /\ tx'[q].found = tx[q].found /\ tx'[q].recipes = tx[q].recipes
                 /\ tx'[q].benches = tx[q].benches
      BY <2>1, <2>3, EnterOthers
    <2> QED BY <2>2, <2>3
  <1>2. \A q \in Projects : Placed(tx'[q].found) /\ \A w \in tx'[q].benches : Placed(w.type)
    BY <1>1, NoRowPlaced DEF ExactInv, PlacedInv
  <1>3. WrittenExact(p)'
    BY <1>1, FreshExact
  <1>4. ASSUME NEW q \in Projects, q # p, Storing(q)' PROVE WrittenExact(q)'
    <2>1. Storing(q)
      BY <1>1, <1>4 DEF Storing
    <2> QED BY <1>1, <1>4, <2>1, WrittenStays DEF ExactInv, IInv
  <1> QED BY <1>2, <1>3, <1>4

(* The beginning of a deployment, a rollback, a commit that is one.          *)
LEMMA ExactWithoutStore ==
  ASSUME IInv, ExactInv, NEW p \in Projects, NEW next, Enter(p, next), reported \subseteq reported',
         UNCHANGED databaseVars, \A q \in Projects : q # p => job'[q] = job[q] /\ count'[q] = count[q]
  PROVE  ExactInv'
  <1>1. rows' = rows /\ benches' = benches
    BY DEF databaseVars
  <1>2. \A q \in Projects : Spared(q)
    BY <1>1 DEF Spared
  <1>3. /\ \A q \in Projects : Placed(tx'[q].found) /\ \A w \in tx'[q].benches : Placed(w.type)
        /\ \A q \in Projects : Storing(q)' => WrittenExact(q)'
    BY <1>2, ExactEnter
  <1>4. PlacedInv'
    BY <1>1, <1>3, PlacedStays DEF ExactInv
  <1>5. \A v \in Versions : RowsExact(v)'
    BY <1>1, RowsStay DEF ExactInv
  <1> QED BY <1>3, <1>4, <1>5 DEF ExactInv

(* What a commit stores.                                                     *)
LEMMA StoreRows ==
  ASSUME IInv, NEW p \in Projects, Store(p)
  PROVE  /\ benches' = {w \in benches \cup tx[p].benches : Kept(p, w.type) /\ Kept(p, w.item)}
         /\ \A v \in Versions :
               /\ v = Version(p) =>
                     rows'[v].gen = count[p] /\ rows'[v].source = Source(p) /\ rows'[v].recipes = tx[p].recipes
               /\ v # Version(p) /\ v[1] = p /\ phase[p] = "default" => rows'[v] = NoRows
               /\ v # Version(p) /\ ~(v[1] = p /\ phase[p] = "default") =>
                     /\ rows'[v].gen = rows[v].gen /\ rows'[v].source = rows[v].source
                     /\ rows'[v].recipes = {r \in rows[v].recipes : Kept(p, r.type)}
  <1> DEFINE gone(x) == phase[p] = "default" /\ x.version[1] = p /\ x.gen # count[p]
             new == [gen |-> count[p], source |-> Source(p), recipes |-> tx[p].recipes]
             left(v) == {r \in rows[v].recipes : ~gone(r.type)}
             kept(v) == IF v[1] = p /\ phase[p] = "default" THEN NoRows ELSE [rows[v] EXCEPT !.recipes = left(v)]
  <1>1. /\ rows' = [v \in Versions |-> IF v = Version(p) THEN new ELSE kept(v)]
        /\ benches' = {w \in benches \cup tx[p].benches : ~gone(w.type) /\ ~gone(w.item)}
    BY DEF Store
  <1>2. \A x : ~gone(x) <=> Kept(p, x)
    BY DEF Kept
  <1>3. \A v \in Versions : left(v) = {r \in rows[v].recipes : Kept(p, r.type)}
    BY <1>2
  <1>4. benches' = {w \in benches \cup tx[p].benches : Kept(p, w.type) /\ Kept(p, w.item)}
    <2> HIDE DEF gone
    <2> QED BY <1>1, <1>2
  <1>5. new.gen = count[p] /\ new.source = Source(p) /\ new.recipes = tx[p].recipes
    OBVIOUS
  <1> HIDE DEF gone, new, left
  <1>6. ASSUME NEW v \in Versions
        PROVE  LET r == [rows[v] EXCEPT !.recipes = left(v)] IN
               r.gen = rows[v].gen /\ r.source = rows[v].source /\ r.recipes = left(v)
    BY DEF IInv, Types
  <1> QED BY <1>1, <1>3, <1>4, <1>5, <1>6

LEMMA ExactCommit ==
  ASSUME IInv, ExactInv, NEW p \in Projects, Open(p), Finished(p), ~tx[p].aborted, Store(p),
         NEW next, Enter(p, next), UNCHANGED <<reported, count, job>>
  PROVE  ExactInv'
  <1>1. /\ benches' = {w \in benches \cup tx[p].benches : Kept(p, w.type) /\ Kept(p, w.item)}
        /\ \A v \in Versions :
              /\ v = Version(p) =>
                    rows'[v].gen = count[p] /\ rows'[v].source = Source(p) /\ rows'[v].recipes = tx[p].recipes
              /\ v # Version(p) /\ v[1] = p /\ phase[p] = "default" => rows'[v] = NoRows
              /\ v # Version(p) /\ ~(v[1] = p /\ phase[p] = "default") =>
                    /\ rows'[v].gen = rows[v].gen /\ rows'[v].source = rows[v].source
                    /\ rows'[v].recipes = {r \in rows[v].recipes : Kept(p, r.type)}
    BY StoreRows
  <1>2. ASSUME NEW q \in Projects, q # p PROVE Spared(q)
    <2> SUFFICES ASSUME NEW w \in benches, w \notin benches' PROVE p \in {w.type.version[1], w.item.version[1]}
      BY <1>2 DEF Spared
    <2>1. ~Kept(p, w.type) \/ ~Kept(p, w.item)
      BY <1>1
    <2> QED BY <2>1 DEF Kept
  <1>3. /\ \A q \in Projects : Placed(tx'[q].found) /\ \A w \in tx'[q].benches : Placed(w.type)
        /\ \A q \in Projects : Storing(q)' => WrittenExact(q)'
    BY <1>2, ExactEnter
  <1>4. PlacedInv'
    <2>1. \A w \in benches' : Placed(w.type)
      BY <1>1 DEF ExactInv, PlacedInv
    <2>2. ASSUME NEW v \in Versions PROVE OwnTypes(v)'
      <3>1. CASE v = Version(p)
        <4>1. job[p] \in Jobs[p] /\ Source(p) \in {job[p].default, job[p].named}
          BY DEF IInv, Types, Source
        <4>2. Files[Source(p)].types \subseteq {m \in Valid : Namespace[m] = Modid[p]}
          BY <4>1, IngestionAssumption
        <4>3. v[1] = p
          BY <3>1 DEF Version
        <4> QED BY <1>1, <3>1, <4>2, <4>3 DEF OwnTypes
      <3>2. CASE v # Version(p) /\ v[1] = p /\ phase[p] = "default"
        <4>1. rows'[v].source = NoVersion
          BY <1>1, <3>2 DEF NoRows
        <4> QED BY <4>1, IngestionAssumption DEF OwnTypes
      <3>3. CASE v # Version(p) /\ ~(v[1] = p /\ phase[p] = "default")
        BY <1>1, <3>3 DEF OwnTypes, ExactInv, PlacedInv
      <3> QED BY <3>1, <3>2, <3>3
    <2>3. \A x : Placed(x)' = Placed(x)
      BY DEF Placed
    <2> QED BY <1>3, <2>1, <2>2, <2>3 DEF PlacedInv, Placed
  <1>5. ASSUME NEW v \in Versions PROVE RowsExact(v)'
    <2> DEFINE c == Files[rows[v].source]
    <2>1. CASE v = Version(p)
      <3>1. v[1] = p /\ phase[p] \in {"default", "named"} /\ rows'[v].source = Source(p) /\ rows'[v].gen = count[p]
        BY <1>1, <2>1 DEF Version, Versions
      <3>2. Storing(p) /\ WrittenExact(p)
        BY <3>1 DEF Storing, ExactInv
      <3>3. 1 .. Wrote(p) \subseteq Passed(p)
        <4>1. ScriptIs(p) /\ tx[p].step \in Nat
          BY <3>1, ScriptShape DEF IInv, Types, TxOf
        <4> QED BY <4>1 DEF ScriptIs, Finished, Passed
      <3>4. PICK d : d = Files[Source(p)]
        OBVIOUS
      <3>5. RecipesExact(v, d.recipes)'
        <4>1. ASSUME NEW r \in d.recipes
              PROVE  (\E row \in tx[p].recipes : Is(row, r)) \/ Told(v, count[p], r.id)
          <5>1. PICK i \in 1 .. Wrote(p) : ScriptOf(p)[i] = RecipeStatement(r)
            BY <3>1, <3>4, ScriptFits DEF IInv
          <5>2. i \in Passed(p) /\ ScriptOf(p)[i].do = "recipe" /\ ScriptOf(p)[i].what = r
            BY <3>3, <5>1 DEF RecipeStatement
          <5> QED BY <2>1, <3>2, <5>2 DEF WrittenExact, RecipesSoFar
        <4>2. \A row \in tx[p].recipes : Placed(row.type) /\ \E r \in d.recipes : Is(row, r)
          BY <3>2, <3>4 DEF WrittenExact, RecipesSoFar
        <4>3. rows'[v].recipes = tx[p].recipes /\ rows'[v].gen = count[p] /\ reported' = reported
          BY <1>1, <2>1
        <4> QED BY <4>1, <4>2, <4>3 DEF RecipesExact, Told
      <3>6. BenchesExact(v, d.benches)'
        <4> SUFFICES ASSUME NEW type \in DOMAIN d.benches, ~Told(v, count[p], "workbenches"), ~Foreign(v, type),
                            NEW l \in Range(d.benches[type])
                     PROVE  \E w \in benches' : Bench(w, v, type, l)
          BY <3>1 DEF BenchesExact, Told
        <4>1. PICK i \in 1 .. Wrote(p), k \in 1 .. Wrote(p) : BenchesAt(ScriptOf(p), i, k, type, l)
          BY <3>1, <3>4, ScriptFits DEF IInv
        <4>2. Provided(p, type, l)
          BY <3>2, <3>3, <4>1 DEF WrittenExact, BenchesSoFar
        <4>3. PICK w \in tx[p].benches \cup benches : Bench(w, v, type, l) /\ Kept(p, w.type) /\ Kept(p, w.item)
          BY <2>1, <4>2 DEF Provided
        <4> QED BY <1>1, <4>3
      <3> QED BY <3>1, <3>4, <3>5, <3>6 DEF RowsExact
    <2>2. CASE v # Version(p) /\ v[1] = p /\ phase[p] = "default"
      <3>1. rows'[v].source = NoVersion /\ rows'[v].recipes = {}
        BY <1>1, <2>2 DEF NoRows
      <3>2. Files[NoVersion].recipes = {} /\ DOMAIN Files[NoVersion].benches = {}
        BY IngestionAssumption
      <3> QED BY <3>1, <3>2 DEF RowsExact, RecipesExact, BenchesExact
    <2>3. CASE v # Version(p) /\ ~(v[1] = p /\ phase[p] = "default")
      <3>1. /\ rows'[v].gen = rows[v].gen /\ rows'[v].source = rows[v].source
            /\ rows'[v].recipes = {r \in rows[v].recipes : Kept(p, r.type)} /\ reported' = reported
        BY <1>1, <2>3
      <3>2. PICK d : d = Files[rows[v].source]
        OBVIOUS
      <3>3. RecipesExact(v, d.recipes) /\ BenchesExact(v, d.benches)
        BY <3>2 DEF ExactInv, RowsExact
      <3>4. ASSUME NEW x, Placed(x), ~Kept(p, x) PROVE Foreign(v, x.loc)
        <4>1. x.version[1] = p /\ v[1] # p
          BY <2>3, <3>4 DEF Kept
        <4> QED BY <3>4, <4>1, PlacedForeign
      <3>5. RecipesExact(v, d.recipes)'
        <4>1. ASSUME NEW r \in d.recipes, ~Told(v, rows[v].gen, r.id), ~Foreign(v, r.type)
              PROVE  \E row \in rows'[v].recipes : Is(row, r)
          <5>1. PICK row \in rows[v].recipes : Is(row, r)
            BY <3>3, <4>1 DEF RecipesExact
          <5>2. Placed(row.type) /\ row.type.loc = r.type
            BY <3>3, <5>1 DEF RecipesExact, Is
          <5>3. Kept(p, row.type)
            BY <3>4, <4>1, <5>2
          <5> QED BY <3>1, <5>1, <5>3
        <4>2. \A row \in rows'[v].recipes : Placed(row.type) /\ \E r \in d.recipes : Is(row, r)
          BY <3>1, <3>3 DEF RecipesExact
        <4> QED BY <3>1, <4>1, <4>2 DEF RecipesExact, Told
      <3>6. BenchesExact(v, d.benches)'
        <4> SUFFICES ASSUME NEW type \in DOMAIN d.benches, ~Told(v, rows[v].gen, "workbenches"), ~Foreign(v, type),
                            NEW l \in Range(d.benches[type])
                     PROVE  \E w \in benches' : Bench(w, v, type, l)
          BY <3>1 DEF BenchesExact, Told
        <4>1. PICK w \in benches : Bench(w, v, type, l)
          BY <3>3 DEF BenchesExact
        <4>2. Kept(p, w.type)
          <5>1. Placed(w.type) /\ w.type.loc = type
            BY <4>1 DEF ExactInv, PlacedInv, Bench
          <5> QED BY <3>4, <5>1
        <4>3. Kept(p, w.item)
          <5>1. w.item.version = Game \/ w.item.version = v
            BY <4>1 DEF Bench
          <5>2. phase[p] = "default" => w.item.version[1] # p
            BY <2>3, <5>1, IngestionAssumption DEF Game
          <5> QED BY <5>2 DEF Kept
        <4> QED BY <1>1, <4>1, <4>2, <4>3
      <3> QED BY <3>1, <3>2, <3>5, <3>6 DEF RowsExact
    <2> QED BY <2>1, <2>2, <2>3
  <1> QED BY <1>3, <1>4, <1>5 DEF ExactInv

LEMMA ExactFails ==
  ASSUME IInv, ExactInv, NEW p \in Projects, Open(p), StatementFails(p), UNCHANGED <<databaseVars, count, job>>
  PROVE  ExactInv'
  <1>1. CASE At(p, "bench") /\ ~tx[p].aborted
    <2> DEFINE n == tx[p].step + 1
    <2>1. PICK t : t = [tx[p] EXCEPT !.aborted = TRUE, !.turn = 0, !.step = n]
      OBVIOUS
    <2>2. tx' = [tx EXCEPT ![p] = t] /\ phase' = phase /\ reported \subseteq reported'
      BY <1>1, <2>1 DEF StatementFails, SkipBench, Report
    <2>3. tx[p] \in TxOf
      BY DEF IInv, Types
    <2> HIDE DEF n
    <2>4. t.aborted = TRUE /\ t.found = tx[p].found /\ t.benches = tx[p].benches
      BY <2>1, <2>3 DEF TxOf
    <2>5. Moves(p, t) /\ tx'[p] = t
      BY <2>2 DEF Moves, IInv, Types
    <2>6. ~Storing(p)'
      BY <2>4, <2>5 DEF Storing
    <2>7. Placed(t.found) /\ \A w \in t.benches : Placed(w.type)
      BY <2>4 DEF ExactInv, PlacedInv
    <2> QED BY <2>5, <2>6, <2>7, ExactLocal
  <1>2. CASE ~(At(p, "bench") /\ ~tx[p].aborted)
    <2> DEFINE next == IF phase[p] = "named" THEN "revalidate" ELSE "idle"
    <2>1. Enter(p, next) /\ reported \subseteq reported'
      BY <1>2 DEF StatementFails, Rollback, Report
    <2>2. PICK n : n = next
      OBVIOUS
    <2> HIDE DEF next
    <2> QED BY <2>1, <2>2, ExactWithoutStore
  <1> QED BY <1>1, <1>2

(* A statement that is executed, and is none of a transaction that has been  *)
(* aborted.                                                                  *)
LEMMA ExactExecute ==
  ASSUME IInv, ExactInv, NEW p \in Projects, NEW do, do # "lookup", NEW t, Execute(p, do, t),
         t.step = tx[p].step + 1, t.found = tx[p].found, reported \subseteq reported',
         tx[p].recipes \subseteq t.recipes, tx[p].benches \subseteq t.benches \cup benches,
         \A w \in t.benches : Placed(w.type),
         do = "recipe" => \/ \E row \in t.recipes : Is(row, Current(p).what)
                          \/ <<p, count[p], Current(p).what.id>> \in reported',
         \A row \in t.recipes \ tx[p].recipes : Placed(row.type) /\ \E r \in Files[Source(p)].recipes : Is(row, r),
         \A j \in Passed(p) : \A type, l :
            BenchesAt(ScriptOf(p), j, tx[p].step, type, l) /\ WrittenExact(p) /\ Storing(p) => Provided(p, type, l)'
  PROVE  ExactInv'
  <1>1. Moves(p, t) /\ At(p, do)
    BY DEF Execute, Moves
  <1>2. Placed(t.found)
    BY DEF ExactInv, PlacedInv
  <1>3. ASSUME Storing(p)' PROVE WrittenExact(p)'
    <2>1. Open(p) /\ ~Finished(p) /\ ~tx[p].aborted
      BY DEF Execute, Fails, At
    <2>2. Storing(p) /\ WrittenExact(p)
      BY <1>1, <1>3, <2>1 DEF Storing, Moves, ExactInv
    <2>3. Types
      BY DEF IInv
    <2> QED BY <1>1, <2>2, <2>3, WrittenMoves
  <1> QED BY <1>1, <1>2, <1>3, ExactLocal

(* One that writes neither recipes nor workbenches.                          *)
LEMMA ExactPlain ==
  ASSUME IInv, ExactInv, NEW p \in Projects, NEW do, do \notin {"lookup", "recipe", "bench"}, NEW t, Execute(p, do, t),
         t.step = tx[p].step + 1, t.found = tx[p].found, reported \subseteq reported',
         t.recipes = tx[p].recipes, t.benches = tx[p].benches
  PROVE  ExactInv'
  <1>1. \A w \in t.benches : Placed(w.type)
    BY DEF ExactInv, PlacedInv
  <1>2. ScriptOf(p)[tx[p].step].do = do
    BY DEF Execute, At, Current
  <1>3. \A j, type, l : ~BenchesAt(ScriptOf(p), j, tx[p].step, type, l)
    BY <1>2 DEF BenchesAt
  <1> QED BY <1>1, <1>3, ExactExecute

LEMMA ExactLookup == ASSUME IInv, ExactInv, NEW p \in Projects, LookupType(p) PROVE ExactInv'
  <1>1. PICK what : what = Current(p).what
    OBVIOUS
  <1>2. Types /\ At(p, "lookup")
    BY DEF IInv, LookupType
  <1>3. /\ Stepped(p) \in TxOf /\ Stepped(p).step = tx[p].step + 1 /\ Stepped(p).found = tx[p].found
        /\ Stepped(p).recipes = tx[p].recipes /\ Stepped(p).benches = tx[p].benches
        /\ Stepped(p).aborted = tx[p].aborted
    BY <1>2, SteppedIn
  <1>4. CASE \E t \in {r \in SeenTypes(p) : r.loc = what.type} :
                Execute(p, "lookup", [Stepped(p) EXCEPT !.found = t]) /\ UNCHANGED reported
    <2>1. PICK r \in SeenTypes(p) : /\ r.loc = what.type /\ UNCHANGED reported
                                    /\ Execute(p, "lookup", [Stepped(p) EXCEPT !.found = r])
      BY <1>4
    <2>2. PICK t : t = [Stepped(p) EXCEPT !.found = r]
      OBVIOUS
    <2>3. /\ t.step = tx[p].step + 1 /\ t.recipes = tx[p].recipes /\ t.benches = tx[p].benches
          /\ t.found = r /\ t.aborted = tx[p].aborted
      BY <1>3, <2>2 DEF TxOf
    <2>4. Moves(p, t) /\ phase' = phase
      BY <2>1, <2>2 DEF Execute, Moves
    <2>5. Placed(t.found) /\ \A w \in t.benches : Placed(w.type)
      BY <1>2, <2>3, SeenPlaced DEF ExactInv, PlacedInv
    <2>6. ASSUME Storing(p)' PROVE WrittenExact(p)'
      <3>1. tx'[p] = t
        BY <1>2, <2>4 DEF Moves, Types
      <3>2. Storing(p) /\ WrittenExact(p)
        BY <2>3, <2>4, <2>6, <3>1 DEF Storing, ExactInv
      <3> QED BY <1>1, <1>2, <2>1, <2>3, <2>4, <3>2, WrittenFinds
    <2> QED BY <2>4, <2>5, <2>6, ExactLocal
  <1>5. CASE /\ Execute(p, "lookup", [Stepped(p) EXCEPT !.step = @ + what.skip])
             /\ reported' = IF what.skip = 0 THEN reported ELSE Report(p, what.file)
    <2>1. PICK n : n = tx[p].step + 1 + what.skip
      OBVIOUS
    <2>2. PICK t : t = [Stepped(p) EXCEPT !.step = n]
      OBVIOUS
    <2>3. /\ t.step = n /\ t.recipes = tx[p].recipes /\ t.benches = tx[p].benches
          /\ t.found = tx[p].found /\ t.aborted = tx[p].aborted
      BY <1>3, <2>2 DEF TxOf
    <2>4. Execute(p, "lookup", t)
      BY <1>3, <1>5, <2>1, <2>2
    <2>5. Moves(p, t) /\ phase' = phase /\ (what.skip # 0 => <<p, count[p], what.file>> \in reported')
      BY <1>5, <2>4 DEF Execute, Moves, Report
    <2>6. Placed(t.found) /\ \A w \in t.benches : Placed(w.type)
      BY <2>3 DEF ExactInv, PlacedInv
    <2>7. ASSUME Storing(p)' PROVE WrittenExact(p)'
      <3>1. tx'[p] = t
        BY <1>2, <2>5 DEF Moves, Types
      <3>2. Storing(p) /\ WrittenExact(p)
        BY <2>3, <2>5, <2>7, <3>1 DEF Storing, ExactInv
      <3> QED BY <1>1, <1>2, <2>1, <2>3, <2>5, <3>2, WrittenSkips
    <2> QED BY <2>5, <2>6, <2>7, ExactLocal
  <1> QED BY <1>1, <1>4, <1>5 DEF LookupType

LEMMA ExactRecipe == ASSUME IInv, ExactInv, NEW p \in Projects, AddRecipe(p) PROVE ExactInv'
  <1>1. PICK r : r = Current(p).what
    OBVIOUS
  <1>2. PICK row : row = [id |-> r.id, type |-> tx[p].found, ingredients |-> Range(r.ingredients)]
    OBVIOUS
  <1>3. /\ Stepped(p) \in TxOf /\ Stepped(p).step = tx[p].step + 1 /\ Stepped(p).found = tx[p].found
        /\ Stepped(p).recipes = tx[p].recipes /\ Stepped(p).benches = tx[p].benches
    BY SteppedIn DEF IInv
  <1>4. At(p, "recipe") /\ PlacedInv /\ \A w \in tx[p].benches : Placed(w.type)
    BY DEF AddRecipe, ExactInv, PlacedInv
  <1>5. \A j, type, l : ~BenchesAt(ScriptOf(p), j, tx[p].step, type, l)
    <2>1. ScriptOf(p)[tx[p].step].do = "recipe"
      BY <1>4 DEF At, Current
    <2> QED BY <2>1 DEF BenchesAt
  <1>6. CASE FirstBad(r, SeenKeys(p)) = 0
    <2>1. PICK recipes : recipes = tx[p].recipes \cup {row}
      OBVIOUS
    <2>2. PICK t : t = [Stepped(p) EXCEPT !.recipes = recipes]
      OBVIOUS
    <2>3. Execute(p, "recipe", t) /\ UNCHANGED reported
      BY <1>1, <1>2, <1>3, <1>6, <2>1, <2>2 DEF AddRecipe
    <2>4. t.step = tx[p].step + 1 /\ t.found = tx[p].found /\ t.benches = tx[p].benches /\ t.recipes = recipes
      BY <1>3, <2>2 DEF TxOf
    <2>5. Moves(p, t) /\ tx'[p] = t
      BY <2>3 DEF Execute, Moves, IInv, Types
    <2>6. Placed(t.found) /\ \A w \in t.benches : Placed(w.type)
      BY <1>4, <2>4 DEF PlacedInv
    <2>7. ASSUME Storing(p)' PROVE WrittenExact(p)'
      <3>1. Open(p) /\ ~tx[p].aborted
        BY <2>3 DEF Execute, Fails, At
      <3>2. Storing(p) /\ WrittenExact(p)
        BY <2>5, <2>7, <3>1 DEF Storing, Moves, ExactInv
      <3>3. tx[p].found.loc = r.type /\ r \in Files[Source(p)].recipes
        BY <1>1, <1>4, <3>2, FoundIs DEF Storing, WrittenExact, IInv
      <3>4. Is(row, r) /\ Placed(row.type)
        BY <1>2, <1>4, <3>3 DEF Is, PlacedInv
      <3>5. Types
        BY DEF IInv
      <3>6. \E x \in t.recipes : Is(x, Current(p).what)
        BY <1>1, <2>1, <2>4, <3>4
      <3>7. \A x \in t.recipes \ tx[p].recipes : Placed(x.type) /\ \E s \in Files[Source(p)].recipes : Is(x, s)
        BY <2>1, <2>4, <3>3, <3>4
      <3>8. tx[p].recipes \subseteq t.recipes /\ tx[p].benches \subseteq t.benches \cup benches
        BY <2>1, <2>4
      <3> QED BY <1>4, <1>5, <2>4, <2>5, <3>2, <3>5, <3>6, <3>7, <3>8, WrittenMoves
    <2> QED BY <2>5, <2>6, <2>7, ExactLocal
  <1>7. CASE FirstBad(r, SeenKeys(p)) # 0
    <2>1. PICK t : t = Stepped(p)
      OBVIOUS
    <2>2. Execute(p, "recipe", t) /\ reported \subseteq reported' /\ <<p, count[p], Current(p).what.id>> \in reported'
      BY <1>1, <1>7, <2>1 DEF AddRecipe, Report
    <2> QED BY <1>3, <1>4, <1>5, <2>1, <2>2, ExactExecute
  <1> QED BY <1>6, <1>7

LEMMA ExactWorkbench == ASSUME IInv, ExactInv, NEW p \in Projects, AddWorkbench(p) PROVE ExactInv'
  <1>1. PICK l, row : l = Current(p).what /\ row = Benches(p, Current(p).what)
    OBVIOUS
  <1>2. /\ Stepped(p) \in TxOf /\ Stepped(p).step = tx[p].step + 1 /\ Stepped(p).found = tx[p].found
        /\ Stepped(p).recipes = tx[p].recipes /\ Stepped(p).benches = tx[p].benches
    BY SteppedIn DEF IInv
  <1>3. PICK stored : stored = (tx[p].benches \cup {row}) \ benches
    OBVIOUS
  <1>4. PICK t : t = [Stepped(p) EXCEPT !.benches = stored]
    OBVIOUS
  <1>5. Execute(p, "bench", t) /\ UNCHANGED reported
    BY <1>1, <1>2, <1>3, <1>4 DEF AddWorkbench
  <1>6. t.step = tx[p].step + 1 /\ t.found = tx[p].found /\ t.benches = stored /\ t.recipes = tx[p].recipes
    BY <1>2, <1>4 DEF TxOf
  <1>7. Moves(p, t) /\ tx'[p] = t
    BY <1>5 DEF Execute, Moves, IInv, Types
  <1>8. row.type = tx[p].found /\ row.item = IF IsBuiltin(l) THEN Row(Game, 0, l) ELSE Row(Version(p), count[p], l)
    BY <1>1 DEF Benches
  <1>9. PlacedInv /\ \A w \in t.benches : Placed(w.type)
    BY <1>3, <1>6, <1>8 DEF ExactInv, PlacedInv
  <1>10. ASSUME Storing(p), WrittenExact(p), NEW j \in Passed(p), NEW type, NEW m,
                BenchesAt(ScriptOf(p), j, tx[p].step, type, m)
         PROVE  Provided(p, type, m)'
    <2>1. tx[p].found.loc = type /\ l = m
      BY <1>1, <1>10, FoundIs DEF Storing, WrittenExact, IInv
    <2>2. row.item.loc = l /\ row.item.version \in {Game, Version(p)}
          /\ (row.item.version # Game => row.item.gen = count[p])
      BY <1>8 DEF Row
    <2>3. Kept(p, row.item)
      BY <2>2, IngestionAssumption DEF Kept, Game
    <2>4. Kept(p, row.type)
      BY <1>8, <1>10 DEF WrittenExact
    <2>5. Bench(row, Version(p), type, m)
      BY <1>8, <2>1, <2>2 DEF Bench
    <2>6. /\ Version(p)' = Version(p) /\ \A x : Kept(p, x)' = Kept(p, x)
          /\ row \in (tx[p].benches \cup benches)'
      <3>1. benches' = benches /\ Types
        BY <1>7 DEF Moves, databaseVars, IInv
      <3> QED BY <1>3, <1>6, <1>7, <3>1, MovesFrame
    <2> QED BY <2>3, <2>4, <2>5, <2>6 DEF Provided, Bench
  <1>11. tx[p].benches \subseteq t.benches \cup benches /\ tx[p].recipes \subseteq t.recipes
    BY <1>3, <1>6
  <1> QED BY <1>5, <1>6, <1>9, <1>10, <1>11, ExactExecute

LEMMA ExactStep == IInv /\ ExactInv /\ [Next]_vars => ExactInv'
  <1> SUFFICES ASSUME IInv, ExactInv, [Next]_vars PROVE ExactInv'
    OBVIOUS
  <1>1. ASSUME UNCHANGED vars PROVE ExactInv'
    <2>1. PlacedInv'
      BY <1>1, PlacedStays DEF vars, databaseVars, ExactInv, PlacedInv
    <2>2. \A v \in Versions : RowsExact(v)'
      BY <1>1, RowsStay DEF vars, databaseVars, ExactInv
    <2>3. ASSUME NEW q \in Projects, Storing(q)' PROVE WrittenExact(q)'
      <3>1. Storing(q) /\ Spared(q)
        BY <1>1, <2>3 DEF vars, databaseVars, Storing, Spared
      <3>2. /\ phase'[q] = phase[q] /\ job'[q] = job[q] /\ count'[q] = count[q] /\ reported' = reported
            /\ tx'[q] = tx[q]
        BY <1>1 DEF vars
      <3>3. Types /\ PlacedInv /\ WrittenExact(q)
        BY <3>1 DEF IInv, ExactInv
      <3> QED BY <3>1, <3>2, <3>3, WrittenStays
    <2> QED BY <2>1, <2>2, <2>3 DEF ExactInv
  <1>2. ASSUME NEW p \in Projects, Deploy(p) PROVE ExactInv'
    <2>1. Enter(p, "default") /\ reported' = reported /\ UNCHANGED databaseVars
      BY <1>2 DEF Deploy
    <2>2. ASSUME NEW q \in Projects, q # p PROVE job'[q] = job[q] /\ count'[q] = count[q]
      BY <1>2, <2>2 DEF Deploy, IInv, Types
    <2> QED BY <2>1, <2>2, ExactWithoutStore
  <1>3. ASSUME NEW p \in Projects, Fault(p) \/ Refuse(p) \/ DeadlockVictim(p) PROVE ExactInv'
    <2>1. Open(p)
      BY <1>3 DEF Fault, Refuse, Fails, DeadlockVictim, Deadlocked, Waits, IInv, Progress
    <2>2. StatementFails(p) /\ UNCHANGED <<databaseVars, count, job>>
      BY <1>3 DEF Fault, Refuse, DeadlockVictim
    <2> QED BY <2>1, <2>2, ExactFails
  <1>4. ASSUME NEW p \in Projects, StartWaiting(p) PROVE ExactInv'
    <2> DEFINE n == Max({tx[q].turn : q \in Projects}) + 1
               gens == SeenGens(p)
    <2>1. PICK t : t = [tx[p] EXCEPT !.turn = n, !.snapshot = gens]
      OBVIOUS
    <2>2. tx' = [tx EXCEPT ![p] = t] /\ UNCHANGED <<databaseVars, reported, count, job, phase>>
      BY <1>4, <2>1 DEF StartWaiting
    <2>3. tx[p] \in TxOf /\ Types
      BY DEF IInv, Types
    <2> HIDE DEF n, gens
    <2>4. /\ t.step = tx[p].step /\ t.found = tx[p].found /\ t.aborted = tx[p].aborted
          /\ t.recipes = tx[p].recipes /\ t.benches = tx[p].benches
      BY <2>1, <2>3 DEF TxOf
    <2>5. Moves(p, t) /\ tx'[p] = t
      BY <2>2, <2>3 DEF Moves, Types
    <2>6. Placed(t.found) /\ \A w \in t.benches : Placed(w.type)
      BY <2>4 DEF ExactInv, PlacedInv
    <2>7. ASSUME Storing(p)' PROVE WrittenExact(p)'
      <3>1. Storing(p) /\ Spared(p) /\ PlacedInv /\ WrittenExact(p)
        BY <2>2, <2>4, <2>5, <2>7 DEF Storing, Spared, databaseVars, ExactInv
      <3>2. phase'[p] = phase[p] /\ job'[p] = job[p] /\ count'[p] = count[p] /\ reported' = reported
        BY <2>2
      <3> QED BY <2>3, <2>4, <2>5, <3>1, <3>2, WrittenStays
    <2> QED BY <2>5, <2>6, <2>7, ExactLocal
  <1>5. ASSUME NEW p \in Projects, Purge(p) \/ AddTagTagEntry(p) \/ AddRecipeTypes(p) PROVE ExactInv'
    <2>1. PICK t : t = Stepped(p)
      OBVIOUS
    <2>2. PICK do \in {"purge", "entry", "types"} : Execute(p, do, t) /\ reported' = reported
      BY <1>5, <2>1 DEF Purge, AddTagTagEntry, AddRecipeTypes
    <2>3. t.step = tx[p].step + 1 /\ t.found = tx[p].found /\ t.recipes = tx[p].recipes /\ t.benches = tx[p].benches
      BY <2>1, SteppedIn DEF IInv
    <2> QED BY <2>2, <2>3, ExactPlain
  <1>6. ASSUME NEW p \in Projects, NEW do \in {"key", "refresh"}, NEW x, UNCHANGED reported,
               \/ Execute(p, do, [Stepped(p) EXCEPT !.keys = x])
               \/ Execute(p, do, [Stepped(p) EXCEPT !.views = x])
               \/ Execute(p, do, Stepped(p))
        PROVE  ExactInv'
    <2>1. PICK t : /\ Execute(p, do, t)
                   /\ t \in {[Stepped(p) EXCEPT !.keys = x], [Stepped(p) EXCEPT !.views = x], Stepped(p)}
      BY <1>6
    <2>2. /\ Stepped(p) \in TxOf /\ Stepped(p).step = tx[p].step + 1 /\ Stepped(p).found = tx[p].found
          /\ Stepped(p).recipes = tx[p].recipes /\ Stepped(p).benches = tx[p].benches
      BY SteppedIn DEF IInv
    <2>3. t.step = tx[p].step + 1 /\ t.found = tx[p].found /\ t.recipes = tx[p].recipes /\ t.benches = tx[p].benches
      BY <2>1, <2>2 DEF TxOf
    <2> QED BY <1>6, <2>1, <2>3, ExactPlain
  <1>7. ASSUME NEW p \in Projects, FindOrCreate(p) PROVE ExactInv'
    <2>1. PICK x : x = Stepped(p).keys \cup {Current(p).what}
      OBVIOUS
    <2>2. /\ Execute(p, "key", Stepped(p)) \/ Execute(p, "key", [Stepped(p) EXCEPT !.keys = x])
          /\ UNCHANGED reported
      BY <1>7, <2>1 DEF FindOrCreate
    <2> QED BY <1>6, <2>2
  <1>8. ASSUME NEW p \in Projects, RefreshView(p) PROVE ExactInv'
    <2> DEFINE k == Current(p).what
               seen == [gens |-> IF Waits(p) THEN tx[p].snapshot ELSE SeenGens(p), late |-> Waits(p)]
               more == [m \in DOMAIN tx[p].views \cup {k} |-> IF m = k THEN seen ELSE tx[p].views[m]]
    <2>1. PICK x : x = more
      OBVIOUS
    <2>2. Execute(p, "refresh", [Stepped(p) EXCEPT !.views = x]) /\ UNCHANGED reported
      BY <1>8, <2>1 DEF RefreshView
    <2> QED BY <1>6, <2>2
  <1>9. ASSUME NEW p \in Projects, Commit(p) PROVE ExactInv'
    <2>1. PICK next : next = AfterCommit(p)
      OBVIOUS
    <2>2. Open(p) /\ Finished(p) /\ Enter(p, next) /\ UNCHANGED <<reported, count, job>>
      BY <1>9, <2>1 DEF Commit
    <2>3. CASE tx[p].aborted
      <3>1. UNCHANGED databaseVars
        BY <1>9, <2>3 DEF Commit
      <3> QED BY <2>2, <3>1, ExactWithoutStore
    <2>4. CASE ~tx[p].aborted
      <3>1. Store(p)
        BY <1>9, <2>4 DEF Commit
      <3> QED BY <2>2, <2>4, <3>1, ExactCommit
    <2> QED BY <2>3, <2>4
  <1>10. ASSUME NEW p \in Projects, Advance(p) PROVE ExactInv'
    BY <1>3, <1>4, <1>5, <1>7, <1>8, <1>9, <1>10, ExactLookup, ExactRecipe, ExactWorkbench DEF Advance
  <1> QED BY <1>1, <1>2, <1>3, <1>10 DEF Next, Terminated

(* Whatever deployments overlap, wait, are refused or fail, what is committed*)
(* for a version is its checkout as a whole: a recipe or a workbench that is *)
(* not there has an issue of its file, or its recipe type is of a project    *)
(* that has deployed since (add_recipes, add_recipe_workbenches, the purge). *)
THEOREM IngestedIsExactHolds == Spec => []IngestedIsExact
  <1>1. Init => ExactInv
    <2> SUFFICES ASSUME Init PROVE ExactInv
      OBVIOUS
    <2>1. \A v \in Versions : rows[v] = NoRows
      BY DEF Init
    <2>2. /\ Files[NoVersion].recipes = {} /\ Files[NoVersion].types = {} /\ DOMAIN Files[NoVersion].benches = {}
      BY IngestionAssumption
    <2>3. \A v \in Versions : OwnTypes(v) /\ RowsExact(v)
      BY <2>1, <2>2 DEF NoRows, OwnTypes, RowsExact, RecipesExact, BenchesExact
    <2>4. \A p \in Projects : tx[p].found = NoRow /\ tx[p].benches = {} /\ phase[p] = "idle"
      BY NewTxIn DEF Init
    <2>5. PlacedInv
      BY <2>3, <2>4, NoRowPlaced DEF PlacedInv, Init
    <2> QED BY <2>3, <2>4, <2>5 DEF ExactInv, Storing
  <1>2. Spec => []ExactInv
    BY <1>1, ExactStep, InductiveInvariant, PTL DEF Spec
  <1>3. ExactInv => IngestedIsExact
    <2> SUFFICES ASSUME ExactInv, NEW v \in Versions
                 PROVE  LET c == Files[rows[v].source]
                            told(file) == <<v[1], rows[v].gen, file>> \in reported IN
          /\ \A r \in c.recipes :
                \/ \E s \in rows[v].recipes : s.id = r.id /\ s.ingredients = Range(r.ingredients)
                \/ told(r.id) \/ Foreign(v, r.type)
          /\ \A r \in rows[v].recipes : \E s \in c.recipes : s.id = r.id /\ r.ingredients = Range(s.ingredients)
          /\ \A type \in DOMAIN c.benches :
                \/ \A l \in Range(c.benches[type]) : \E b \in benches :
                      b.type.loc = type /\ b.item.loc = l /\ b.item.version \in {Game, v}
                \/ told("workbenches") \/ Foreign(v, type)
      BY DEF IngestedIsExact
    <2>1. RowsExact(v)
      BY DEF ExactInv
    <2> QED BY <2>1 DEF RowsExact, RecipesExact, BenchesExact, Is, Bench, Told
  <1> QED BY <1>2, <1>3, PTL
=============================================================================
