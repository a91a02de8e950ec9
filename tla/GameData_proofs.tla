-------------------------- MODULE GameData_proofs ---------------------------
(* Theorems about Loader and GameData.                                       *)
(*                                                                           *)
(* The orders in loader.rs are strict orders, for versions of any length, so *)
(* that the choice of a release does not depend on the order of the metadata *)
(* and never fails where there is something to choose.  GameData keeps its   *)
(* promises for any sets of clients, imports, items, games and releases,     *)
(* with any number of faults, crashes and imports that overlap.              *)
EXTENDS GameData, FiniteSetTheorems, SequenceTheorems, WellFoundedInduction, TLAPS

Numbers == Seq(Nat)

(* A prefix, number by number.                                               *)
LEMMA PrefixByNumbers ==
  ASSUME NEW a \in Numbers, NEW b \in Numbers
  PROVE  IsStrictPrefix(a, b) <=> Len(a) < Len(b) /\ \A m \in 1 .. Len(a) : a[m] = b[m]
  <1> USE DEF Numbers
  <1>1. Len(a) \in Nat /\ Len(b) \in Nat
    OBVIOUS
  <1>2. SubSeq(a, 1, Len(a)) = a
    BY SubSeqFull
  <1>3. CASE Len(a) <= Len(b)
    <2> DEFINE c == SubSeq(b, 1, Len(a))
    <2>1. c \in Seq(Nat) /\ Len(c) = Len(a) /\ \A m \in 1 .. Len(a) : c[m] = b[m]
      <3>1. CASE Len(a) = 0
        BY <1>1, <3>1, SubSeqEmpty
      <3>2. CASE Len(a) # 0
        <4>1. 1 \in 1 .. Len(b) + 1 /\ Len(a) \in 0 .. Len(b)
          BY <1>1, <1>3, <3>2
        <4>2. /\ c \in Seq(Nat)
              /\ Len(c) = IF 1 <= Len(a) THEN Len(a) - 1 + 1 ELSE 0
              /\ \A i \in 1 .. Len(a) - 1 + 1 : c[i] = b[1 + i - 1]
          BY <1>1, <1>3, <3>2, <4>1, SubSeqProperties
        <4> QED BY <1>1, <3>2, <4>2
      <3> QED BY <3>1, <3>2
    <2>2. a = c <=> \A m \in 1 .. Len(a) : a[m] = b[m]
      BY <1>1, <2>1, SeqEqual
    <2>3. Len(a) = Len(b) /\ a = c => a = b
      BY <1>1, SubSeqFull
    <2> HIDE DEF c
    <2> QED
      BY <1>1, <1>2, <1>3, <2>1, <2>2, <2>3 DEF IsStrictPrefix, IsPrefix, c
  <1>4. CASE ~(Len(a) <= Len(b))
    BY <1>1, <1>4 DEF IsStrictPrefix, IsPrefix
  <1> QED BY <1>3, <1>4

(* Any set of numbers has a least one.                                       *)
LEMMA Least ==
  ASSUME NEW S \in SUBSET Nat, S # {}
  PROVE  \E n \in S : \A m \in S : n <= m
  <1> DEFINE R == {p \in Nat \X Nat : p[1] < p[2]}
  <1>1. IsWellFoundedOn(R, Nat)
    BY NatLessThanWellFounded DEF OpToRel
  <1> HIDE DEF R
  <1>2. PICK n \in S : \A m \in S : ~ (<<m, n>> \in R)
    BY <1>1, WFMin
  <1>3. \A m \in S : ~(m < n)
    BY <1>2 DEF R
  <1> QED BY <1>2, <1>3

(* The first place where two sequences differ.                               *)
DiffersFirst(a, b, n) ==
    n \in 1 .. Len(a) /\ n <= Len(b) /\ a[n] # b[n] /\ \A m \in 1 .. n - 1 : a[m] = b[m]

(* Two different sequences differ somewhere first, or one is a prefix.      *)
LEMMA FirstDifference ==
  ASSUME NEW a \in Numbers, NEW b \in Numbers, a # b
  PROVE  \/ \E n \in Nat : DiffersFirst(a, b, n)
         \/ IsStrictPrefix(a, b)
         \/ IsStrictPrefix(b, a)
  <1> USE DEF Numbers
  <1> DEFINE D == {n \in 1 .. Len(a) : n <= Len(b) /\ a[n] # b[n]}
  <1>0. Len(a) \in Nat /\ Len(b) \in Nat
    OBVIOUS
  <1>1. CASE D = {}
    <2>1. \A n \in 1 .. Len(a) : n <= Len(b) => a[n] = b[n]
      BY <1>1
    <2>2. Len(a) # Len(b)
      BY <1>0, <2>1, SeqEqual
    <2> QED BY <1>0, <2>1, <2>2, PrefixByNumbers
  <1>2. CASE D # {}
    <2>0. D \in SUBSET Nat
      BY <1>0
    <2>1. PICK n \in D : \A m \in D : n <= m
      BY <1>2, <2>0, Least
    <2>2. \A m \in 1 .. n - 1 : m \in 1 .. Len(a) /\ m <= Len(b) /\ ~(n <= m)
      BY <1>0, <2>1
    <2>3. DiffersFirst(a, b, n)
      BY <1>0, <2>1, <2>2 DEF DiffersFirst
    <2> QED BY <2>1, <2>3
  <1> QED BY <1>1, <1>2

(* The order of slices, said with the first difference.                      *)
LEMMA LessByFirst ==
  ASSUME NEW a \in Numbers, NEW b \in Numbers
  PROVE  Less(a, b) <=> \/ IsStrictPrefix(a, b)
                        \/ \E n \in Nat : DiffersFirst(a, b, n) /\ a[n] < b[n]
  <1> USE DEF Numbers
  <1> DEFINE D(n) == /\ n <= Len(b) /\ a[n] < b[n]
                     /\ \A m \in 1 .. n - 1 : a[m] = b[m]
  <1>0. Len(a) \in Nat /\ Len(b) \in Nat
    OBVIOUS
  <1>1. \A n \in 1 .. Len(a) : n <= Len(b) => a[n] \in Nat /\ b[n] \in Nat
    OBVIOUS
  <1>2. \A n \in 1 .. Len(a) : D(n) <=> DiffersFirst(a, b, n) /\ a[n] < b[n]
    BY <1>0, <1>1 DEF DiffersFirst
  <1>3. \A n \in Nat : DiffersFirst(a, b, n) => n \in 1 .. Len(a)
    BY DEF DiffersFirst
  <1>4. Less(a, b) <=> IsStrictPrefix(a, b) \/ \E n \in 1 .. Len(a) : D(n)
    BY DEF Less
  <1>5. \A n \in 1 .. Len(a) : n \in Nat
    BY <1>0
  <1> HIDE DEF D
  <1> QED BY <1>2, <1>3, <1>4, <1>5

(* The order of the numbers of a version (slices of u64, at_least and        *)
(* select_version) is total: of two different ones exactly one is less.      *)
THEOREM LessIsTotal ==
  ASSUME NEW a \in Numbers, NEW b \in Numbers
  PROVE  /\ ~(Less(a, b) /\ Less(b, a))
         /\ Less(a, b) \/ Less(b, a) \/ a = b
         /\ ~Less(a, a)
  <1> USE DEF Numbers
  <1>0. Len(a) \in Nat /\ Len(b) \in Nat
    OBVIOUS
  <1>1. \A n \in 1 .. Len(a) : n <= Len(b) => a[n] \in Nat /\ b[n] \in Nat
    OBVIOUS
  <1>2. ~Less(a, a)
    BY <1>0, PrefixByNumbers, LessByFirst DEF DiffersFirst
  <1>3. \A m, n : DiffersFirst(a, b, m) /\ DiffersFirst(b, a, n) => m = n
    <2> SUFFICES ASSUME NEW m, NEW n, DiffersFirst(a, b, m), DiffersFirst(b, a, n) PROVE m = n
      OBVIOUS
    <2>1. m \in Nat /\ n \in Nat /\ m \in 1 .. Len(a) /\ n \in 1 .. Len(b)
      BY <1>0 DEF DiffersFirst
    <2>2. ~(m < n)
      BY <2>1 DEF DiffersFirst
    <2>3. ~(n < m)
      BY <2>1 DEF DiffersFirst
    <2> QED BY <2>1, <2>2, <2>3
  <1>4. ~(Less(a, b) /\ Less(b, a))
    <2>1. ~(IsStrictPrefix(a, b) /\ IsStrictPrefix(b, a))
      BY <1>0, PrefixByNumbers
    <2>2. \A n : ~(IsStrictPrefix(a, b) /\ DiffersFirst(b, a, n))
      BY <1>0, PrefixByNumbers DEF DiffersFirst
    <2>3. \A n : ~(IsStrictPrefix(b, a) /\ DiffersFirst(a, b, n))
      BY <1>0, PrefixByNumbers DEF DiffersFirst
    <2>4. \A m, n \in Nat : ~(DiffersFirst(a, b, m) /\ a[m] < b[m] /\ DiffersFirst(b, a, n) /\ b[n] < a[n])
      BY <1>0, <1>1, <1>3 DEF DiffersFirst
    <2> QED BY <2>1, <2>2, <2>3, <2>4, LessByFirst
  <1>5. ASSUME a # b PROVE Less(a, b) \/ Less(b, a)
    <2>1. ASSUME NEW n \in Nat, DiffersFirst(a, b, n) PROVE Less(a, b) \/ Less(b, a)
      <3>1. DiffersFirst(b, a, n)
        BY <1>0, <2>1 DEF DiffersFirst
      <3>2. a[n] < b[n] \/ b[n] < a[n]
        BY <1>0, <1>1, <2>1 DEF DiffersFirst
      <3> QED BY <2>1, <3>1, <3>2, LessByFirst
    <2> QED BY <1>5, <2>1, FirstDifference, LessByFirst
  <1> QED BY <1>2, <1>4, <1>5

LEMMA LessThanNext == \A x, y, z \in Nat : x < y /\ y < z => x < z
  OBVIOUS

(* ... and transitive.                                                       *)
THEOREM LessIsTransitive ==
  ASSUME NEW a \in Numbers, NEW b \in Numbers, NEW c \in Numbers, Less(a, b), Less(b, c)
  PROVE  Less(a, c)
  <1> USE DEF Numbers
  <1>0. /\ Len(a) \in Nat /\ Len(b) \in Nat /\ Len(c) \in Nat
        /\ \A n \in 1 .. Len(a) : a[n] \in Nat
        /\ \A n \in 1 .. Len(b) : b[n] \in Nat
        /\ \A n \in 1 .. Len(c) : c[n] \in Nat
    OBVIOUS
  <1>1. CASE IsStrictPrefix(a, b) /\ IsStrictPrefix(b, c)
    <2>1. Len(a) < Len(b) /\ \A m \in 1 .. Len(a) : a[m] = b[m]
      BY <1>1, PrefixByNumbers
    <2>2. Len(b) < Len(c) /\ \A m \in 1 .. Len(b) : b[m] = c[m]
      BY <1>1, PrefixByNumbers
    <2>3. \A m \in 1 .. Len(a) : m \in 1 .. Len(b)
      BY <1>0, <2>1
    <2>4. Len(a) < Len(c) /\ \A m \in 1 .. Len(a) : a[m] = c[m]
      BY <1>0, <2>1, <2>2, <2>3
    <2> QED BY <2>4, PrefixByNumbers DEF Less
  <1>2. ASSUME NEW n \in Nat, DiffersFirst(b, c, n), b[n] < c[n], IsStrictPrefix(a, b)
        PROVE  Less(a, c)
    <2>1. CASE n <= Len(a)
      <3>1. DiffersFirst(a, c, n) /\ a[n] < c[n]
        BY <1>0, <1>2, <2>1, PrefixByNumbers DEF DiffersFirst
      <3> QED BY <1>2, <3>1, LessByFirst
    <2>2. CASE ~(n <= Len(a))
      <3>1. IsStrictPrefix(a, c)
        BY <1>0, <1>2, <2>2, PrefixByNumbers DEF DiffersFirst
      <3> QED BY <3>1, LessByFirst
    <2> QED BY <2>1, <2>2
  <1>3. ASSUME NEW n \in Nat, DiffersFirst(a, b, n), a[n] < b[n], IsStrictPrefix(b, c)
        PROVE  Less(a, c)
    <2>1. DiffersFirst(a, c, n) /\ a[n] < c[n]
      BY <1>0, <1>3, PrefixByNumbers DEF DiffersFirst
    <2> QED BY <1>3, <2>1, LessByFirst
  <1>4. ASSUME NEW m \in Nat, NEW n \in Nat, DiffersFirst(a, b, m), a[m] < b[m],
               DiffersFirst(b, c, n), b[n] < c[n]
        PROVE  Less(a, c)
    <2>1. CASE m <= n
      <3>1. /\ m \in 1 .. Len(a) /\ m <= Len(b) /\ a[m] < b[m] /\ \A k \in 1 .. m - 1 : a[k] = b[k]
            /\ n \in 1 .. Len(b) /\ n <= Len(c) /\ b[n] < c[n] /\ \A k \in 1 .. n - 1 : b[k] = c[k]
        BY <1>4 DEF DiffersFirst
      <3>2. a[m] \in Nat /\ b[m] \in Nat /\ m <= Len(c) /\ c[m] \in Nat
        <4>1. m <= Len(c) /\ m \in 1 .. Len(c) /\ m \in 1 .. Len(b)
          BY <1>0, <2>1, <3>1
        <4> QED BY <1>0, <3>1, <4>1
      <3>3. a[m] < c[m]
        <4>1. CASE m = n
          <5>1. a[m] < b[m] /\ b[m] < c[m]
            BY <3>1, <4>1
          <5> QED BY <3>2, <5>1, LessThanNext
        <4>2. CASE m < n
          <5>1. a[m] < b[m] /\ b[m] = c[m]
            BY <3>1, <4>2
          <5> QED BY <5>1
        <4> QED BY <2>1, <4>1, <4>2
      <3>4. \A k \in 1 .. m - 1 : a[k] = c[k]
        BY <2>1, <3>1
      <3>5. DiffersFirst(a, c, m)
        <4>1. a[m] # c[m]
          BY <3>2, <3>3
        <4> QED BY <3>1, <3>2, <3>4, <4>1 DEF DiffersFirst
      <3> QED BY <3>3, <3>5, LessByFirst
    <2>2. CASE n < m
      <3>1. /\ m \in 1 .. Len(a) /\ m <= Len(b) /\ \A k \in 1 .. m - 1 : a[k] = b[k]
            /\ n \in 1 .. Len(b) /\ n <= Len(c) /\ b[n] < c[n] /\ \A k \in 1 .. n - 1 : b[k] = c[k]
        BY <1>4 DEF DiffersFirst
      <3>2. n \in 1 .. Len(a) /\ a[n] = b[n] /\ b[n] \in Nat /\ c[n] \in Nat
        BY <1>0, <2>2, <3>1
      <3>3. \A k \in 1 .. n - 1 : a[k] = c[k]
        BY <2>2, <3>1
      <3>4. DiffersFirst(a, c, n) /\ a[n] < c[n]
        <4>1. a[n] # c[n] /\ a[n] < c[n]
          BY <3>1, <3>2
        <4> QED BY <3>1, <3>2, <3>3, <4>1 DEF DiffersFirst
      <3> QED BY <3>4, LessByFirst
    <2> QED BY <1>4, <2>1, <2>2
  <1> QED BY <1>1, <1>2, <1>3, <1>4, LessByFirst

(* Releases as loader.rs parses them: with a number and maybe a suffix.      *)
IsRelease(r) == r.loader \in {"forge", "neoforge"} /\ r.number \in Numbers \ {<<>>} /\ r.plain \in BOOLEAN

(* The orders of the two loaders are strict, and what they cannot tell apart *)
(* has the same number on its branch and the same suffix or none.            *)
LEMMA BetterIsOrder ==
  ASSUME NEW q, NEW r, NEW s, IsRelease(q), IsRelease(r), IsRelease(s),
         q.loader = r.loader, r.loader = s.loader
  PROVE  /\ ~Better(q, q)
         /\ Better(q, r) /\ Better(r, s) => Better(q, s)
         /\ ~Better(q, r) /\ ~Better(r, q) =>
               /\ q.plain = r.plain
               /\ q.loader = "forge" => q.number = r.number
               /\ q.loader = "neoforge" => Last(q.number) = Last(r.number)
  <1>1. CASE q.loader = "forge"
    <2>1. ~Less(q.number, q.number)
      BY LessIsTotal DEF IsRelease
    <2>2. Less(s.number, r.number) /\ Less(r.number, q.number) => Less(s.number, q.number)
      BY LessIsTransitive DEF IsRelease
    <2>3. Less(q.number, r.number) \/ Less(r.number, q.number) \/ q.number = r.number
      BY LessIsTotal DEF IsRelease
    <2> QED BY <1>1, <2>1, <2>2, <2>3 DEF Better, IsRelease
  <1>2. CASE q.loader = "neoforge"
    <2>1. Last(q.number) \in Nat /\ Last(r.number) \in Nat /\ Last(s.number) \in Nat
      <3>1. \A a \in Numbers \ {<<>>} : Last(a) \in Nat
        BY DEF Numbers, Last
      <3> QED BY <3>1 DEF IsRelease
    <2> QED BY <1>2, <2>1 DEF Better, IsRelease
  <1> QED BY <1>1, <1>2 DEF IsRelease

Candidates(releases, game) == {r \in releases : Matches(r, game)}

(* Only releases of one loader match a version of the game.                  *)
LEMMA CandidatesOfOneLoader ==
  ASSUME NEW R, NEW game, NEW q \in Candidates(R, game), NEW r \in Candidates(R, game)
  PROVE  q.loader = r.loader
  BY DEF Candidates, Matches

(* Whichever order maven-metadata.xml has, the choice is the same, up to     *)
(* releases that compare equal (select_version, select_neoforge_version).    *)
THEOREM SelectionIsUnique ==
  ASSUME NEW R, \A r \in R : IsRelease(r), NEW game,
         NEW q \in Selected(R, game), NEW r \in Selected(R, game)
  PROVE  /\ q.loader = r.loader /\ q.plain = r.plain
         /\ q.loader = "forge" => q.number = r.number
         /\ q.loader = "neoforge" => Last(q.number) = Last(r.number)
  <1>1. /\ q \in Candidates(R, game) /\ r \in Candidates(R, game)
        /\ q \in R /\ r \in R /\ ~Better(q, r) /\ ~Better(r, q)
    BY DEF Selected, Candidates
  <1>2. q.loader = r.loader
    BY <1>1, CandidatesOfOneLoader
  <1> QED BY <1>1, <1>2, BetterIsOrder

(* Where some release matches the version of the game, one is selected.      *)
THEOREM SelectionExists ==
  ASSUME NEW R, IsFiniteSet(R), \A r \in R : IsRelease(r), NEW game, Candidates(R, game) # {}
  PROVE  Selected(R, game) # {}
  <1> DEFINE C == Candidates(R, game)
             better(r) == {q \in C : Better(q, r)}
             numbers == {Cardinality(better(r)) : r \in C}
  <1>1. IsFiniteSet(C)
    BY FS_Subset DEF Candidates
  <1>2. \A r \in C : IsFiniteSet(better(r)) /\ Cardinality(better(r)) \in Nat
    BY <1>1, FS_Subset, FS_CardinalityType
  <1>3. PICK n \in numbers : \A m \in numbers : n <= m
    <2>1. numbers \in SUBSET Nat /\ numbers # {}
      BY <1>2
    <2> HIDE DEF numbers
    <2> QED BY <2>1, Least
  <1>4. PICK r \in C : n = Cardinality(better(r))
    OBVIOUS
  <1>5. ASSUME NEW q \in C, Better(q, r) PROVE FALSE
    <2>1. \A x \in C : IsRelease(x) /\ x.loader = q.loader
      BY CandidatesOfOneLoader DEF Candidates
    <2>2. \A x \in better(q) : x \in better(r)
      BY <1>5, <2>1, BetterIsOrder
    <2>3. q \in better(r) /\ q \notin better(q)
      BY <1>5, <2>1, BetterIsOrder
    <2>4. Cardinality(better(q)) < Cardinality(better(r))
      <3>1. better(q) \subseteq better(r) /\ better(q) # better(r)
        BY <2>2, <2>3
      <3> HIDE DEF better
      <3> QED BY <1>2, <3>1, FS_Subset, FS_CardinalityType
    <2>5. Cardinality(better(r)) <= Cardinality(better(q))
      BY <1>3, <1>4
    <2> HIDE DEF better
    <2> QED BY <1>2, <2>4, <2>5
  <1>6. r \in Selected(R, game)
    BY <1>5 DEF Selected, Candidates
  <1> QED BY <1>6
-----------------------------------------------------------------------------
(* An import holds what it has resolved, and looks up a file of its listing. *)
Resolved == \A i \in Running : job[i].game \in Games /\ job[i].release \in Releases
LooksForItem ==
    \A i \in Imports : look[i] # "none" => at[i] = "item" /\ job[i].item \in job[i].listed

(* Imports that overlap know it.                                             *)
OverlapIsSeen == \A i, j \in Running : i # j => i \in disturbed

(* Redis against the file.                                                   *)
CacheInv ==
    /\ langFile \subseteq Named /\ \A i \in Imports : job[i].merged \subseteq Named
    /\ load # "write" => unwritten = {}
    /\ ~behind => /\ names \subseteq langFile
                  /\ sentinel => names = langFile
                  /\ load = "write" => names \cup unwritten = langFile
    /\ \A i \in Imports : at[i] \in {"client", "scan", "erase"} => behind
    /\ \A i \in Imports : at[i] = "erase" /\ i \notin disturbed =>
           load = "none" /\ names \subseteq job[i].found /\ (sentinel => None \in job[i].found)

Extracted == {"scan", "erase", "ingest", "item", "record"}
Registering == {"ingest", "item", "record"}

(* An import that nobody disturbs.                                           *)
ImportInv(i) ==
    LET own == ItemsOf[job[i].game] IN
    /\ at[i] \in {"lang", "client"} => tree = {}
    /\ at[i] = "client" => own \cap Named \subseteq job[i].merged
    /\ at[i] \in Extracted => tree = own /\ own \cap Named \subseteq langFile
    /\ at[i] \in Registering => /\ ~behind /\ load # "failed" /\ look[i] # "failed"
                                /\ load = "loaded" \/ look[i] \in {"loaded", "get"} => sentinel
    /\ at[i] = "item" =>
          /\ job[i].listed \subseteq own
          /\ look[i] = "known" => job[i].item \in Named
          /\ look[i] = "unknown" => job[i].item \notin Named
          /\ job[i].registered = own \cap (Tagged \cup (Named \ job[i].listed))
    /\ at[i] = "record" => job[i].registered = own \cap (Tagged \cup Named)
Undisturbed == \A i \in Imports \ disturbed : ImportInv(i)

(* The names of what is registered.                                          *)
Survive ==
    disturbed = {} =>
        /\ (\A i \in Imports : at[i] # "client") => items \cap Named \subseteq langFile
        /\ \A i \in Imports : at[i] = "client" => items \cap Named \subseteq job[i].merged

(* The releases.                                                             *)
LoaderInv ==
    /\ \A g \in Games, r \in Releases : <<g, r>> \in imported => r \in released /\ Matches(r, g)
    /\ \A i \in Running \ disturbed : at[i] # "tidy" =>
           \A r \in Releases : <<job[i].game, r>> \in imported => ~Better(r, job[i].release)
    /\ \A i \in Running : job[i].release \in released /\ Matches(job[i].release, job[i].game)

IInv == /\ TypeOK
        /\ Resolved
        /\ LooksForItem
        /\ OverlapIsSeen
        /\ CacheInv
        /\ Undisturbed
        /\ Survive
        /\ LoaderInv

-----------------------------------------------------------------------------
(* Whatever looks names up leaves the world of the imports alone.            *)
LEMMA LookupFrame ==
  ASSUME IInv, UNCHANGED restOfLookup, disturbed \subseteq disturbed'
  PROVE  Resolved' /\ OverlapIsSeen' /\ Survive' /\ LoaderInv'
  <1> USE DEF IInv, restOfLookup, worldVars, Running
  <1>1. Resolved'
    BY DEF Resolved
  <1>2. OverlapIsSeen'
    BY DEF OverlapIsSeen
  <1>3. Survive'
    BY DEF Survive
  <1>4. LoaderInv'
    BY DEF LoaderInv
  <1> QED BY <1>1, <1>2, <1>3, <1>4

LEMMA AskStep == ASSUME IInv, NEW h \in Readers, Ask(h) PROVE IInv'
  <1> USE GameDataAssumption DEF IInv, Ask, NoFault, Lookup, worldVars, cacheVars, loadVars, restOfLookup
  <1>1. TypeOK'
    BY DEF TypeOK
  <1>2. LooksForItem'
    BY DEF LooksForItem, TypeOK
  <1>3. CacheInv'
    BY DEF CacheInv, TypeOK
  <1>4. Undisturbed'
    BY DEF Undisturbed, TypeOK, ImportInv
  <1>5. Resolved' /\ OverlapIsSeen' /\ Survive' /\ LoaderInv'
    BY LookupFrame
  <1> QED BY <1>1, <1>2, <1>3, <1>4, <1>5

LEMMA CheckSentinelStep == ASSUME IInv, NEW c \in Clients, CheckSentinel(c) PROVE IInv'
  <1> USE GameDataAssumption DEF IInv, CheckSentinel, Clients, Fault, NoFault, Lookup, worldVars,
             cacheVars, loadVars, restOfLookup
  <1>1. TypeOK'
    BY DEF TypeOK
  <1>2. LooksForItem'
    BY DEF LooksForItem, TypeOK
  <1>3. CacheInv'
    BY DEF CacheInv, TypeOK
  <1>4. Undisturbed'
    BY DEF Undisturbed, TypeOK, ImportInv
  <1>5. Resolved' /\ OverlapIsSeen' /\ Survive' /\ LoaderInv'
    BY LookupFrame
  <1> QED BY <1>1, <1>2, <1>3, <1>4, <1>5

LEMMA RunOrJoinStep == ASSUME IInv, NEW c \in Clients, RunOrJoin(c) PROVE IInv'
  <1> USE GameDataAssumption DEF IInv, RunOrJoin, Clients, NoFault, Lookup, worldVars, cacheVars, restOfLookup
  <1>1. TypeOK'
    BY DEF TypeOK
  <1>2. LooksForItem'
    BY DEF LooksForItem, TypeOK
  <1>3. CacheInv'
    BY DEF CacheInv, TypeOK
  <1>4. Undisturbed'
    BY DEF Undisturbed, TypeOK, ImportInv
  <1>5. Resolved' /\ OverlapIsSeen' /\ Survive' /\ LoaderInv'
    BY LookupFrame
  <1> QED BY <1>1, <1>2, <1>3, <1>4, <1>5

LEMMA ReadLangStep == ASSUME IInv, ReadLang PROVE IInv'
  <1> USE GameDataAssumption DEF IInv, ReadLang, Finish, Clients, NoFault, worldVars, cacheVars, restOfLookup
  <1>1. TypeOK'
    BY DEF TypeOK
  <1>2. LooksForItem'
    BY DEF LooksForItem, TypeOK
  <1>3. CacheInv'
    BY DEF CacheInv, TypeOK
  <1>4. Undisturbed'
    BY DEF Undisturbed, TypeOK, ImportInv, Extracted, Registering, Running, Resolved
  <1>5. Resolved' /\ OverlapIsSeen' /\ Survive' /\ LoaderInv'
    BY LookupFrame
  <1> QED BY <1>1, <1>2, <1>3, <1>4, <1>5

LEMMA WriteNameStep == ASSUME IInv, WriteName PROVE IInv'
  <1> USE GameDataAssumption DEF IInv, WriteName, NoFault, worldVars, restOfLookup
  <1>1. TypeOK'
    BY DEF TypeOK
  <1>2. LooksForItem'
    BY DEF LooksForItem, TypeOK
  <1>3. CacheInv'
    BY DEF CacheInv, TypeOK
  <1>4. Undisturbed'
    BY DEF Undisturbed, TypeOK, ImportInv
  <1>5. Resolved' /\ OverlapIsSeen' /\ Survive' /\ LoaderInv'
    BY LookupFrame
  <1> QED BY <1>1, <1>2, <1>3, <1>4, <1>5

LEMMA MarkLoadedStep == ASSUME IInv, MarkLoaded PROVE IInv'
  <1> USE GameDataAssumption DEF IInv, MarkLoaded, Finish, Clients, NoFault, worldVars, restOfLookup
  <1>1. TypeOK'
    BY DEF TypeOK
  <1>2. LooksForItem'
    BY DEF LooksForItem, TypeOK
  <1>3. CacheInv'
    BY DEF CacheInv, TypeOK
  <1>4. Undisturbed'
    BY DEF Undisturbed, TypeOK, ImportInv
  <1>5. Resolved' /\ OverlapIsSeen' /\ Survive' /\ LoaderInv'
    BY LookupFrame
  <1> QED BY <1>1, <1>2, <1>3, <1>4, <1>5

LEMMA FailLoadStep == ASSUME IInv, FailLoad PROVE IInv'
  <1> USE GameDataAssumption DEF IInv, FailLoad, Finish, Clients, Fault, worldVars, cacheVars, restOfLookup
  <1>1. TypeOK'
    BY DEF TypeOK, Running
  <1>2. LooksForItem'
    BY DEF LooksForItem, TypeOK
  <1>3. CacheInv'
    BY DEF CacheInv, TypeOK
  <1>4. Undisturbed'
    BY DEF Undisturbed, TypeOK, ImportInv, Registering, Running
  <1>5. Resolved' /\ OverlapIsSeen' /\ Survive' /\ LoaderInv'
    BY LookupFrame
  <1> QED BY <1>1, <1>2, <1>3, <1>4, <1>5

LEMMA ReturnStep == ASSUME IInv, NEW c \in Clients, Return(c) PROVE IInv'
  <1> USE GameDataAssumption DEF IInv, Return, Clients, Result, NoFault, Lookup, worldVars, cacheVars,
             restOfLookup
  <1>1. TypeOK'
    BY DEF TypeOK
  <1>2. LooksForItem'
    BY DEF LooksForItem, TypeOK
  <1>3. CacheInv'
    BY DEF CacheInv, TypeOK
  <1>4. Undisturbed'
    BY DEF Undisturbed, TypeOK, ImportInv, Registering
  <1>5. Resolved' /\ OverlapIsSeen' /\ Survive' /\ LoaderInv'
    BY LookupFrame
  <1> QED BY <1>1, <1>2, <1>3, <1>4, <1>5

LEMMA GetStep == ASSUME IInv, NEW c \in Clients, Get(c) PROVE IInv'
  <1> USE GameDataAssumption DEF IInv, Get, Result, NoFault, Lookup, worldVars, cacheVars, loadVars,
             restOfLookup
  <1>1. TypeOK'
    BY DEF TypeOK
  <1>2. LooksForItem'
    BY DEF LooksForItem, TypeOK
  <1>3. CacheInv'
    BY DEF CacheInv, TypeOK
  <1>4. Undisturbed'
    BY DEF Undisturbed, TypeOK, ImportInv, Extracted, Registering, CacheInv, LooksForItem
  <1>5. Resolved' /\ OverlapIsSeen' /\ Survive' /\ LoaderInv'
    BY LookupFrame
  <1> QED BY <1>1, <1>2, <1>3, <1>4, <1>5

LEMMA LeaveStep == ASSUME IInv, NEW h \in Readers, Leave(h) PROVE IInv'
  <1> USE GameDataAssumption DEF IInv, Leave, Clients, Fault, worldVars, cacheVars, loadVars, restOfLookup
  <1>1. TypeOK'
    BY DEF TypeOK
  <1>2. LooksForItem'
    BY DEF LooksForItem, TypeOK
  <1>3. CacheInv'
    BY DEF CacheInv, TypeOK
  <1>4. Undisturbed'
    BY DEF Undisturbed, TypeOK, ImportInv
  <1>5. Resolved' /\ OverlapIsSeen' /\ Survive' /\ LoaderInv'
    BY LookupFrame
  <1> QED BY <1>1, <1>2, <1>3, <1>4, <1>5

(* The releases that others publish.                                         *)
LEMMA PublishStep == ASSUME IInv, Publish PROVE IInv'
  <1> USE GameDataAssumption DEF IInv, Publish, NoFault, cacheVars, loadVars, lookVars
  <1>1. TypeOK'
    BY DEF TypeOK
  <1>2. Resolved'
    BY DEF Resolved, TypeOK, Running
  <1>3. LooksForItem'
    BY DEF LooksForItem, TypeOK
  <1>4. OverlapIsSeen'
    BY DEF OverlapIsSeen, TypeOK, Running
  <1>5. CacheInv'
    BY DEF CacheInv, TypeOK
  <1>6. Undisturbed'
    BY DEF Undisturbed, TypeOK, ImportInv
  <1>7. Survive'
    BY DEF Survive, TypeOK
  <1>8. LoaderInv'
    BY DEF LoaderInv, TypeOK, Running
  <1> QED BY <1>1, <1>2, <1>3, <1>4, <1>5, <1>6, <1>7, <1>8

(* The steps of an import.                                                   *)
LEMMA ResolveStep == ASSUME IInv, NEW i \in Imports, NEW g \in Games, Resolve(i, g) PROVE IInv'
  <1> USE GameDataAssumption DEF IInv, Resolve, Selected, NoFault, Step, worldVars, cacheVars, loadVars,
             lookVars
  <1>1. TypeOK'
    <2>0. \A r \in Selected(released, g) : r \in Releases
      BY DEF TypeOK, Selected
    <2>1. job'[i] \in Jobs
      <3>1. job[i] \in Jobs
        BY DEF TypeOK
      <3>2. PICK r \in Releases : job' = [job EXCEPT ![i].game = g, ![i].release = r]
        BY <2>0
      <3>3. job'[i] = [[job[i] EXCEPT !.game = g] EXCEPT !.release = r]
        BY <3>2 DEF TypeOK
      <3> QED BY <3>1, <3>3 DEF Jobs
    <2>2. job' \in [Imports -> Jobs]
      BY <2>1 DEF TypeOK
    <2>3. disturbed' \subseteq Imports
      BY DEF TypeOK, Running
    <2>4. at' \in [Imports -> ImportSteps]
      BY DEF TypeOK, ImportSteps
    <2> QED BY <2>2, <2>3, <2>4 DEF TypeOK
  <1>2. Resolved'
    BY DEF Resolved, TypeOK, Running
  <1>3. LooksForItem'
    BY DEF LooksForItem, TypeOK
  <1>4. OverlapIsSeen'
    BY DEF OverlapIsSeen, TypeOK, Running
  <1>5. CacheInv'
    BY DEF CacheInv, TypeOK
  <1>6. Undisturbed'
    BY DEF Undisturbed, TypeOK, ImportInv, Extracted, Registering
  <1>7. Survive'
    BY DEF Survive, TypeOK
  <1>8. LoaderInv'
    BY DEF LoaderInv, TypeOK, Running
  <1> QED BY <1>1, <1>2, <1>3, <1>4, <1>5, <1>6, <1>7, <1>8

LEMMA ResolveNothingStep == ASSUME IInv, NEW i \in Imports, NEW g \in Games, ResolveNothing(i, g) PROVE IInv'
  <1> USE GameDataAssumption DEF IInv, ResolveNothing, NoFault, Step, worldVars, cacheVars, loadVars, lookVars
  <1>1. TypeOK'
    BY DEF TypeOK, ImportSteps
  <1>2. Resolved'
    BY DEF Resolved, TypeOK, Running
  <1>3. LooksForItem'
    BY DEF LooksForItem, TypeOK
  <1>4. OverlapIsSeen'
    BY DEF OverlapIsSeen, TypeOK, Running
  <1>5. CacheInv'
    BY DEF CacheInv, TypeOK
  <1>6. Undisturbed'
    BY DEF Undisturbed, TypeOK, ImportInv, Extracted, Registering
  <1>7. Survive'
    BY DEF Survive, TypeOK
  <1>8. LoaderInv'
    BY DEF LoaderInv, TypeOK, Running
  <1> QED BY <1>1, <1>2, <1>3, <1>4, <1>5, <1>6, <1>7, <1>8

LEMMA CheckExistingStep == ASSUME IInv, NEW i \in Imports, CheckExisting(i) PROVE IInv'
  <1> USE GameDataAssumption DEF IInv, CheckExisting, End, NoFault, Step, worldVars, cacheVars,
             loadVars, lookVars
  <1>1. TypeOK'
    <2>1. job'[i] \in Jobs
      BY DEF TypeOK, Jobs, NoJob
    <2>2. job' \in [Imports -> Jobs]
      BY <2>1 DEF TypeOK
    <2> QED BY <2>2 DEF TypeOK, ImportSteps
  <1>2. Resolved'
    BY DEF Resolved, TypeOK, Running
  <1>3. LooksForItem'
    BY DEF LooksForItem, TypeOK
  <1>4. OverlapIsSeen'
    BY DEF OverlapIsSeen, TypeOK, Running
  <1>5. CacheInv'
    BY DEF CacheInv, TypeOK, NoJob
  <1>6. Undisturbed'
    BY DEF Undisturbed, TypeOK, ImportInv, Extracted, Registering
  <1>7. Survive'
    BY DEF Survive, TypeOK
  <1>8. LoaderInv'
    BY DEF LoaderInv, TypeOK, Running
  <1> QED BY <1>1, <1>2, <1>3, <1>4, <1>5, <1>6, <1>7, <1>8

LEMMA CleanStep == ASSUME IInv, NEW i \in Imports, Clean(i) PROVE IInv'
  <1> USE GameDataAssumption DEF IInv, Clean, CleanGameDir, Fault, NoFault, Step, worldVars, cacheVars,
             loadVars, lookVars
  <1>1. TypeOK'
    BY DEF TypeOK, ImportSteps
  <1>2. Resolved'
    BY DEF Resolved, TypeOK, Running
  <1>3. LooksForItem'
    BY DEF LooksForItem, TypeOK
  <1>4. OverlapIsSeen'
    BY DEF OverlapIsSeen, TypeOK, Running
  <1>5. CacheInv'
    BY DEF CacheInv, TypeOK
  <1>6. Undisturbed'
    BY DEF Undisturbed, TypeOK, ImportInv, Extracted, Registering, OverlapIsSeen, Running
  <1>7. Survive'
    BY DEF Survive, TypeOK
  <1>8. LoaderInv'
    BY DEF LoaderInv, TypeOK, Running
  <1> QED BY <1>1, <1>2, <1>3, <1>4, <1>5, <1>6, <1>7, <1>8

LEMMA MergeLangStep == ASSUME IInv, NEW i \in Imports, MergeLang(i) PROVE IInv'
  <1> USE GameDataAssumption DEF IInv, MergeLang, NoFault, Step, worldVars, cacheVars, loadVars, lookVars
  <1>1. TypeOK'
    <2>0. ItemsOf[job[i].game] \subseteq Items
      BY DEF Resolved, Running
    <2>1. job'[i] \in Jobs
      BY <2>0 DEF TypeOK, Jobs, NoJob
    <2>2. job' \in [Imports -> Jobs]
      BY <2>1 DEF TypeOK
    <2> QED BY <2>2 DEF TypeOK, ImportSteps
  <1>2. Resolved'
    BY DEF Resolved, TypeOK, Running
  <1>3. LooksForItem'
    BY DEF LooksForItem, TypeOK
  <1>4. OverlapIsSeen'
    BY DEF OverlapIsSeen, TypeOK, Running
  <1>5. CacheInv'
    BY DEF CacheInv, TypeOK
  <1>6. Undisturbed'
    BY DEF Undisturbed, TypeOK, ImportInv, Extracted, Registering, OverlapIsSeen, Running
  <1>7. Survive'
    BY DEF Survive, TypeOK, OverlapIsSeen, Running
  <1>8. LoaderInv'
    BY DEF LoaderInv, TypeOK, Running
  <1> QED BY <1>1, <1>2, <1>3, <1>4, <1>5, <1>6, <1>7, <1>8

LEMMA WriteClientStep == ASSUME IInv, NEW i \in Imports, WriteClient(i) PROVE IInv'
  <1> USE GameDataAssumption DEF IInv, WriteClient, NoFault, Step, worldVars, cacheVars, loadVars, lookVars
  <1>1. TypeOK'
    BY DEF TypeOK, Jobs, Resolved, Running, ImportSteps
  <1>2. Resolved'
    BY DEF Resolved, TypeOK, Running
  <1>3. LooksForItem'
    BY DEF LooksForItem, TypeOK
  <1>4. OverlapIsSeen'
    BY DEF OverlapIsSeen, TypeOK, Running
  <1>5. CacheInv'
    BY DEF CacheInv, TypeOK
  <1>6. Undisturbed'
    BY DEF Undisturbed, TypeOK, ImportInv, Extracted, Registering, OverlapIsSeen, Running
  <1>7. Survive'
    BY DEF Survive, TypeOK
  <1>8. LoaderInv'
    BY DEF LoaderInv, TypeOK, Running
  <1> QED BY <1>1, <1>2, <1>3, <1>4, <1>5, <1>6, <1>7, <1>8

LEMMA ScanNamesStep == ASSUME IInv, NEW i \in Imports, ScanNames(i) PROVE IInv'
  <1> USE GameDataAssumption DEF IInv, ScanNames, NoFault, Step, worldVars, cacheVars, loadVars, lookVars
  <1>1. TypeOK'
    BY DEF TypeOK, Jobs, Running, ImportSteps
  <1>2. Resolved'
    BY DEF Resolved, TypeOK, Running
  <1>3. LooksForItem'
    BY DEF LooksForItem, TypeOK
  <1>4. OverlapIsSeen'
    BY DEF OverlapIsSeen, TypeOK, Running
  <1>5. CacheInv'
    BY DEF CacheInv, TypeOK
  <1>6. Undisturbed'
    BY DEF Undisturbed, TypeOK, ImportInv, Extracted, Registering
  <1>7. Survive'
    BY DEF Survive, TypeOK
  <1>8. LoaderInv'
    BY DEF LoaderInv, TypeOK, Running
  <1> QED BY <1>1, <1>2, <1>3, <1>4, <1>5, <1>6, <1>7, <1>8

LEMMA EraseNamesStep == ASSUME IInv, NEW i \in Imports, EraseNames(i) PROVE IInv'
  <1> USE GameDataAssumption DEF IInv, EraseNames, Clients, NoFault, Step, worldVars, loadVars
  <1>1. TypeOK'
    <2>1. job'[i] \in Jobs
      BY DEF TypeOK, Jobs, NoJob
    <2>2. job' \in [Imports -> Jobs]
      BY <2>1 DEF TypeOK
    <2> QED BY <2>2 DEF TypeOK, ImportSteps
  <1>2. Resolved'
    BY DEF Resolved, TypeOK, Running
  <1>3. LooksForItem'
    BY DEF LooksForItem, TypeOK
  <1>4. OverlapIsSeen'
    BY DEF OverlapIsSeen, TypeOK, Running
  <1>5. CacheInv'
    BY DEF CacheInv, TypeOK, OverlapIsSeen, Running
  <1>6. Undisturbed'
    <2> SUFFICES ASSUME NEW j \in Imports, j \notin disturbed PROVE ImportInv(j)'
      BY DEF Undisturbed
    <2> USE DEF ImportInv, Extracted, Registering, TypeOK
    <2>1. CASE j = i
      <3>1. load = "none" /\ look[i] = "none" /\ sentinel' = FALSE
        BY <2>1 DEF CacheInv, LooksForItem
      <3>2. tree = ItemsOf[job[i].game] /\ ItemsOf[job[i].game] \cap Named \subseteq langFile
        BY <2>1 DEF Undisturbed
      <3> QED BY <2>1, <3>1, <3>2
    <2>2. CASE j # i
      <3>1. at[j] \in {"new", "ended"}
        BY <2>2 DEF OverlapIsSeen, Running, ImportSteps
      <3> QED BY <2>2, <3>1
    <2> QED BY <2>1, <2>2
  <1>7. Survive'
    BY DEF Survive, TypeOK
  <1>8. LoaderInv'
    BY DEF LoaderInv, TypeOK, Running
  <1> QED BY <1>1, <1>2, <1>3, <1>4, <1>5, <1>6, <1>7, <1>8

LEMMA IngestStep == ASSUME IInv, NEW i \in Imports, Ingest(i) PROVE IInv'
  <1> USE GameDataAssumption DEF IInv, Ingest, NoFault, Step, worldVars, cacheVars, loadVars, lookVars
  <1>1. TypeOK'
    <2>1. job'[i] \in Jobs
      <3>1. job[i] \in Jobs
        BY DEF TypeOK
      <3> DEFINE m == [job[i] EXCEPT !.registered = tree \cap Tagged, !.listed = tree]
      <3>2. job'[i] = m
        BY DEF TypeOK
      <3>3. tree \in SUBSET Items /\ tree \cap Tagged \in SUBSET Items
        BY DEF TypeOK
      <3>4. m \in Jobs
        BY <3>1, <3>3 DEF Jobs
      <3> HIDE DEF m
      <3> QED BY <3>2, <3>4
    <2>2. job' \in [Imports -> Jobs]
      BY <2>1 DEF TypeOK
    <2> QED BY <2>2 DEF TypeOK, ImportSteps
  <1>2. Resolved'
    BY DEF Resolved, TypeOK, Running
  <1>3. LooksForItem'
    BY DEF LooksForItem, TypeOK
  <1>4. OverlapIsSeen'
    BY DEF OverlapIsSeen, TypeOK, Running
  <1>5. CacheInv'
    BY DEF CacheInv, TypeOK
  <1>6. Undisturbed'
    BY DEF Undisturbed, TypeOK, ImportInv, Extracted, Registering, LooksForItem
  <1>7. Survive'
    BY DEF Survive, TypeOK
  <1>8. LoaderInv'
    BY DEF LoaderInv, TypeOK, Running
  <1> QED BY <1>1, <1>2, <1>3, <1>4, <1>5, <1>6, <1>7, <1>8

LEMMA NextItemStep == ASSUME IInv, NEW i \in Imports, NextItem(i) PROVE IInv'
  <1> USE GameDataAssumption DEF IInv, NextItem, NoFault, Lookup, worldVars, cacheVars, loadVars
  <1>1. TypeOK'
    <2>1. job'[i] \in Jobs
      <3>1. job[i] \in Jobs
        BY DEF TypeOK
      <3>2. PICK x \in job[i].listed : job' = [job EXCEPT ![i].item = x]
        BY DEF NextItem
      <3>3. job'[i] = [job[i] EXCEPT !.item = x] /\ x \in Items
        BY <3>1, <3>2 DEF TypeOK, Jobs
      <3> QED BY <3>1, <3>3 DEF Jobs
    <2>2. job' \in [Imports -> Jobs]
      BY <2>1 DEF TypeOK
    <2> QED BY <2>2 DEF TypeOK, ImportSteps
  <1>2. Resolved'
    BY DEF Resolved, TypeOK, Running
  <1>3. LooksForItem'
    BY DEF LooksForItem, TypeOK
  <1>4. OverlapIsSeen'
    BY DEF OverlapIsSeen, TypeOK, Running
  <1>5. CacheInv'
    BY DEF CacheInv, TypeOK
  <1>6. Undisturbed'
    BY DEF Undisturbed, TypeOK, ImportInv
  <1>7. Survive'
    BY DEF Survive, TypeOK
  <1>8. LoaderInv'
    BY DEF LoaderInv, TypeOK, Running
  <1> QED BY <1>1, <1>2, <1>3, <1>4, <1>5, <1>6, <1>7, <1>8

LEMMA TakeItemStep == ASSUME IInv, NEW i \in Imports, TakeItem(i) PROVE IInv'
  <1> USE GameDataAssumption DEF IInv, TakeItem, Clients, NoFault, worldVars, cacheVars, loadVars
  <1>1. TypeOK'
    <2>1. job'[i] \in Jobs
      <3>1. job[i] \in Jobs
        BY DEF TypeOK
      <3>2. job[i].item \in job[i].listed
        BY DEF LooksForItem
      <3>3. job[i].item \in Items /\ None \in Items \cup {None}
        BY <3>1, <3>2 DEF Jobs
      <3> DEFINE l == job[i].listed \ {job[i].item}
                 s == job[i].registered \cup IF look[i] = "known" THEN {job[i].item} ELSE {}
      <3>4. l \in SUBSET Items /\ s \in SUBSET Items
        BY <3>1, <3>3 DEF Jobs
      <3> HIDE DEF l, s
      <3> DEFINE m == [job[i] EXCEPT !.item = None, !.listed = l, !.registered = s]
      <3>5. job'[i] = m
        BY <3>1 DEF TypeOK, Jobs, l, s
      <3>6. m \in Jobs
        BY <3>1, <3>3, <3>4 DEF Jobs
      <3> HIDE DEF m
      <3> QED BY <3>5, <3>6
    <2>2. job' \in [Imports -> Jobs]
      BY <2>1 DEF TypeOK
    <2> QED BY <2>2 DEF TypeOK, ImportSteps
  <1>2. Resolved'
    BY DEF Resolved, TypeOK, Running
  <1>3. LooksForItem'
    BY DEF LooksForItem, TypeOK
  <1>4. OverlapIsSeen'
    BY DEF OverlapIsSeen, TypeOK, Running
  <1>5. CacheInv'
    BY DEF CacheInv, TypeOK
  <1>6. Undisturbed'
    BY DEF Undisturbed, TypeOK, ImportInv, LooksForItem
  <1>7. Survive'
    BY DEF Survive, TypeOK
  <1>8. LoaderInv'
    BY DEF LoaderInv, TypeOK, Running
  <1> QED BY <1>1, <1>2, <1>3, <1>4, <1>5, <1>6, <1>7, <1>8

LEMMA EndItemsStep == ASSUME IInv, NEW i \in Imports, EndItems(i) PROVE IInv'
  <1> USE GameDataAssumption DEF IInv, EndItems, NoFault, Step, worldVars, cacheVars, loadVars, lookVars
  <1>1. TypeOK'
    BY DEF TypeOK, ImportSteps
  <1>2. Resolved'
    BY DEF Resolved, TypeOK, Running
  <1>3. LooksForItem'
    BY DEF LooksForItem, TypeOK
  <1>4. OverlapIsSeen'
    BY DEF OverlapIsSeen, TypeOK, Running
  <1>5. CacheInv'
    BY DEF CacheInv, TypeOK
  <1>6. Undisturbed'
    BY DEF Undisturbed, TypeOK, ImportInv, Extracted, Registering
  <1>7. Survive'
    BY DEF Survive, TypeOK
  <1>8. LoaderInv'
    BY DEF LoaderInv, TypeOK, Running
  <1> QED BY <1>1, <1>2, <1>3, <1>4, <1>5, <1>6, <1>7, <1>8

LEMMA CommitStep == ASSUME IInv, NEW i \in Imports, Commit(i) PROVE IInv'
  <1> USE GameDataAssumption DEF IInv, Commit, NoFault, Step, cacheVars, loadVars, lookVars
  <1>1. TypeOK'
    BY DEF TypeOK, Jobs, Resolved, Running, ImportSteps
  <1>2. Resolved'
    BY DEF Resolved, TypeOK, Running
  <1>3. LooksForItem'
    BY DEF LooksForItem, TypeOK
  <1>4. OverlapIsSeen'
    BY DEF OverlapIsSeen, TypeOK, Running
  <1>5. CacheInv'
    BY DEF CacheInv, TypeOK
  <1>6. Undisturbed'
    BY DEF Undisturbed, TypeOK, ImportInv, Extracted, Registering
  <1>7. Survive'
    BY DEF Survive, TypeOK, Undisturbed, ImportInv, Extracted
  <1>8. LoaderInv'
    BY DEF LoaderInv, TypeOK, OverlapIsSeen, Running
  <1> QED BY <1>1, <1>2, <1>3, <1>4, <1>5, <1>6, <1>7, <1>8

LEMMA TidyStep == ASSUME IInv, NEW i \in Imports, Tidy(i) PROVE IInv'
  <1> USE GameDataAssumption DEF IInv, Tidy, CleanGameDir, End, Fault, NoFault, worldVars, cacheVars,
             loadVars, lookVars
  <1>1. TypeOK'
    BY DEF TypeOK, Jobs, NoJob, ImportSteps
  <1>2. Resolved'
    BY DEF Resolved, TypeOK, Running
  <1>3. LooksForItem'
    BY DEF LooksForItem, TypeOK
  <1>4. OverlapIsSeen'
    BY DEF OverlapIsSeen, TypeOK, Running
  <1>5. CacheInv'
    BY DEF CacheInv, TypeOK, NoJob
  <1>6. Undisturbed'
    BY DEF Undisturbed, TypeOK, ImportInv, Extracted, Registering, OverlapIsSeen, Running
  <1>7. Survive'
    BY DEF Survive, TypeOK
  <1>8. LoaderInv'
    BY DEF LoaderInv, TypeOK, Running
  <1> QED BY <1>1, <1>2, <1>3, <1>4, <1>5, <1>6, <1>7, <1>8

LEMMA FailImportStep == ASSUME IInv, NEW i \in Imports, FailImport(i) PROVE IInv'
  <1> USE GameDataAssumption DEF IInv, FailImport, Clients, End, Fault, worldVars, cacheVars, loadVars
  <1>1. TypeOK'
    BY DEF TypeOK, Jobs, NoJob, ImportSteps
  <1>2. Resolved'
    BY DEF Resolved, TypeOK, Running
  <1>3. LooksForItem'
    BY DEF LooksForItem, TypeOK
  <1>4. OverlapIsSeen'
    BY DEF OverlapIsSeen, TypeOK, Running
  <1>5. CacheInv'
    BY DEF CacheInv, TypeOK, NoJob
  <1>6. Undisturbed'
    BY DEF Undisturbed, TypeOK, ImportInv, Extracted, Registering
  <1>7. Survive'
    BY DEF Survive, TypeOK
  <1>8. LoaderInv'
    BY DEF LoaderInv, TypeOK, Running
  <1> QED BY <1>1, <1>2, <1>3, <1>4, <1>5, <1>6, <1>7, <1>8

(* The process stops: what is in memory is gone, Redis and the files are not.*)
LEMMA CrashStep == ASSUME IInv, Crash PROVE IInv'
  <1> USE GameDataAssumption DEF IInv, Crash, Clients, Fault, worldVars, cacheVars
  <1>1. TypeOK'
    BY DEF TypeOK, Jobs, NoJob, ImportSteps
  <1>2. Resolved'
    BY DEF Resolved, TypeOK, Running
  <1>3. LooksForItem'
    BY DEF LooksForItem, TypeOK
  <1>4. OverlapIsSeen'
    BY DEF OverlapIsSeen, TypeOK, Running
  <1>5. CacheInv'
    BY DEF CacheInv, TypeOK, Running, NoJob
  <1>6. Undisturbed'
    BY DEF Undisturbed, TypeOK, ImportInv, Extracted, Registering, Running
  <1>7. Survive'
    BY DEF Survive, TypeOK
  <1>8. LoaderInv'
    BY DEF LoaderInv, TypeOK, Running
  <1> QED BY <1>1, <1>2, <1>3, <1>4, <1>5, <1>6, <1>7, <1>8

LEMMA StutterStep == ASSUME IInv, UNCHANGED vars PROVE IInv'
  <1> USE DEF IInv, vars, worldVars, lookVars, loadVars, cacheVars, Running
  <1>1. TypeOK' /\ Resolved' /\ LooksForItem' /\ OverlapIsSeen'
    BY DEF TypeOK, Resolved, LooksForItem, OverlapIsSeen
  <1>2. CacheInv' /\ Survive' /\ LoaderInv'
    BY DEF CacheInv, Survive, LoaderInv
  <1>3. Undisturbed'
    BY DEF Undisturbed, ImportInv, Extracted, Registering
  <1> QED BY <1>1, <1>2, <1>3

LEMMA InvInit == Init => IInv
  <1> SUFFICES ASSUME Init PROVE IInv
    OBVIOUS
  <1> USE GameDataAssumption DEF Init, Running
  <1>1. TypeOK
    <2>1. NoJob \in Jobs
      BY DEF Jobs, NoJob
    <2>2. job \in [Imports -> Jobs] /\ at \in [Imports -> ImportSteps]
      BY <2>1 DEF ImportSteps
    <2>3. look \in [Clients -> {"none", "ask", "join", "wait", "loaded", "failed", "get", "known", "unknown"}]
      OBVIOUS
    <2>4. released \subseteq Releases /\ faults \in 0 .. MaxFaults
      OBVIOUS
    <2> QED BY <2>2, <2>3, <2>4 DEF TypeOK
  <1>2. Resolved /\ LooksForItem /\ OverlapIsSeen
    BY DEF Resolved, LooksForItem, OverlapIsSeen, Clients
  <1>3. CacheInv /\ Survive /\ LoaderInv
    BY DEF CacheInv, Survive, LoaderInv, NoJob
  <1>4. Undisturbed
    BY DEF Undisturbed, ImportInv, Extracted, Registering
  <1> QED BY <1>1, <1>2, <1>3, <1>4 DEF IInv

LEMMA InvStep == IInv /\ [Next]_vars => IInv'
  <1> SUFFICES ASSUME IInv, [Next]_vars PROVE IInv'
    OBVIOUS
  <1>1. ASSUME NEW h \in Readers, Ask(h) \/ Leave(h) PROVE IInv'
    BY <1>1, AskStep, LeaveStep
  <1>2. ASSUME NEW c \in Clients, LookUp(c) PROVE IInv'
    BY <1>2, CheckSentinelStep, RunOrJoinStep, ReturnStep, GetStep DEF LookUp
  <1>3. ASSUME LoadNames \/ FailLoad \/ Publish \/ Crash PROVE IInv'
    BY <1>3, ReadLangStep, WriteNameStep, MarkLoadedStep, FailLoadStep, PublishStep, CrashStep
       DEF LoadNames
  <1>4. ASSUME NEW i \in Imports, NEW g \in Games, Resolve(i, g) \/ ResolveNothing(i, g) PROVE IInv'
    BY <1>4, ResolveStep, ResolveNothingStep
  <1>5. ASSUME NEW i \in Imports, Import(i) PROVE IInv'
    BY <1>5, CheckExistingStep, CleanStep, MergeLangStep, WriteClientStep, ScanNamesStep,
       EraseNamesStep, IngestStep, NextItemStep, TakeItemStep, EndItemsStep, CommitStep, TidyStep
       DEF Import
  <1>6. ASSUME NEW i \in Imports, FailImport(i) PROVE IInv'
    BY <1>6, FailImportStep
  <1>7. ASSUME UNCHANGED vars PROVE IInv'
    BY <1>7, StutterStep
  <1> QED BY <1>1, <1>2, <1>3, <1>4, <1>5, <1>6, <1>7 DEF Next

(* The invariant holds in every state, for any set of requests, items,       *)
(* versions and releases, with any number of faults and imports that overlap.*)
THEOREM InductiveInvariant == Spec => []IInv
  BY InvInit, InvStep, PTL DEF Spec

(* The types, with a job of a known game and release for each import.        *)
THEOREM TypeCorrect == Spec => []TypeOK
  <1>1. IInv => TypeOK
    BY DEF IInv
  <1> QED BY <1>1, InductiveInvariant, PTL

(* The sentinel is in Redis only while every name of the language file is,   *)
(* unless an import has written a newer file and not erased it yet           *)
(* (ensure_loaded_to_cache of lang.rs against import_lang).                  *)
THEOREM SentinelIsTrueHolds == Spec => []SentinelIsTrue
  <1>1. IInv => SentinelIsTrue
    BY DEF IInv, CacheInv, SentinelIsTrue
  <1> QED BY <1>1, InductiveInvariant, PTL

(* An import on its own loses no name of an item that is registered: the file*)
(* it writes is that of its predecessors merged with its own (merge_lang).   *)
THEOREM NamesSurviveHolds == Spec => []NamesSurvive
  <1>1. IInv => NamesSurvive
    BY DEF IInv, Survive, NamesSurvive
  <1> QED BY <1>1, InductiveInvariant, PTL

(* What an import commits on its own are the items of its own release that   *)
(* have a name or a tag, whatever look-ups have cached meanwhile.            *)
THEOREM CommitsItsItemsHolds == Spec => CommitsItsItems
  <1> DEFINE A == \A i \in Imports : Commit(i) /\ i \notin disturbed =>
                    job[i].registered = ItemsOf[job[i].game] \cap (Named \cup Tagged)
  <1>1. IInv /\ [Next]_vars => [A]_vars
    <2> SUFFICES ASSUME IInv, NEW i \in Imports, Commit(i), i \notin disturbed
                 PROVE  job[i].registered = ItemsOf[job[i].game] \cap (Named \cup Tagged)
      OBVIOUS
    <2>1. at[i] = "record"
      BY DEF Commit, Step
    <2> QED BY <2>1 DEF IInv, Undisturbed, ImportInv
  <1> QED BY <1>1, InductiveInvariant, PTL DEF Spec, CommitsItsItems

(* An import on its own never stores a loader version behind the one stored  *)
(* (resolve_loader), by the order of Loader; nor a beta where none was.      *)
THEOREM LoaderNeverGoesBackHolds == Spec => LoaderNeverGoesBack
  <1> DEFINE A == \A i \in Imports : Commit(i) /\ i \notin disturbed =>
                    \A r \in Releases : <<job[i].game, r>> \in imported =>
                       ~Better(r, job[i].release) /\ (Beta(job[i].release) => Beta(r))
  <1>1. IInv /\ [Next]_vars => [A]_vars
    <2> SUFFICES ASSUME IInv, NEW i \in Imports, Commit(i), i \notin disturbed,
                        NEW r \in Releases, <<job[i].game, r>> \in imported
                 PROVE  ~Better(r, job[i].release) /\ (Beta(job[i].release) => Beta(r))
      OBVIOUS
    <2>1. i \in Running /\ at[i] # "tidy"
      BY DEF Commit, Step, Running
    <2>2. job[i].game \in Games /\ job[i].release \in Releases
      BY <2>1 DEF IInv, Resolved
    <2>3. Matches(r, job[i].game) /\ Matches(job[i].release, job[i].game)
      BY <2>1, <2>2 DEF IInv, LoaderInv
    <2>4. ~Better(r, job[i].release)
      BY <2>1 DEF IInv, LoaderInv
    <2>5. Beta(job[i].release) => Beta(r)
      <3>1. r.loader = job[i].release.loader
        BY <2>3 DEF Matches
      <3> QED BY <2>4, <3>1 DEF Better, Beta
    <2> QED BY <2>4, <2>5
  <1> QED BY <1>1, InductiveInvariant, PTL DEF Spec, LoaderNeverGoesBack
=============================================================================
