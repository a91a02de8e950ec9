------------------------ MODULE ProjectCache_proofs ------------------------
(* Theorems about ProjectCache, for any sets of versions, questions and      *)
(* readers.                                                                  *)
EXTENDS ProjectCache, TLAPS

(* What is active has a directory.                                           *)
InPublication ==
    /\ active <= issued
    /\ active # 0 => active \in dirs
    /\ publishing # "idle" => issued \in dirs /\ previous < issued
    /\ publishing = "withdrawn" => active = 0
    /\ publishing = "published" => active \in {0, issued}

(* Nobody works with a deployment before it is active.                       *)
Known(d) == d <= issued /\ (publishing = "withdrawn" => d < issued)
WorkIsKnown ==
    /\ \A h \in Readers : Known(dep[h]) /\ (at[h] # "start" => dep[h] # 0)
    /\ \A o \in Options : Known(resolved[o])
    /\ \A s \in suppliers : Known(s[1])

(* A supplier of the active deployment finds its directory.                  *)
AnswersAreOwn == \A s \in suppliers : s[1] = active => s[4] \in {0, active}

Fresh(d) == d \in {0, active}

(* During an undisturbed revalidation what its scan has not found is fresh.  *)
UndisturbedIsFresh ==
    \A r \in Revalidations : undisturbed[r] =>
        /\ rv[r] \in {"scan", "delete", "invalidate"} /\ ~OldWork
        /\ rv[r] = "delete" => \A k \in Keys \ found[r] : Fresh(redis[k])
        /\ rv[r] = "invalidate" => \A k \in Keys : Fresh(redis[k])

(* After it, what the caches hold is fresh, and so is what readers and       *)
(* suppliers will put there.                                                 *)
CleanIsFresh == clean => ~OldWork /\ CachesAreFresh

IInv == /\ TypeOK
        /\ InPublication
        /\ WorkIsKnown
        /\ AnswersAreOwn
        /\ UndisturbedIsFresh
        /\ CleanIsFresh
-----------------------------------------------------------------------------
(* A new process has caches that are empty.                                  *)
LEMMA InitIInv == Init => IInv
  <1> SUFFICES ASSUME Init PROVE IInv
    OBVIOUS
  <1>1. Default \in Options
    BY CacheAssumption DEF Default
  <1>2. TypeOK
    BY <1>1, CacheAssumption DEF Init, TypeOK, Ids, Empty, Revalidations
  <1>3. InPublication /\ WorkIsKnown /\ AnswersAreOwn
    BY DEF Init, InPublication, WorkIsKnown, Known, AnswersAreOwn
  <1>4. UndisturbedIsFresh /\ CleanIsFresh
    BY DEF Init, UndisturbedIsFresh, CleanIsFresh, OldWork, CachesAreFresh
  <1> QED BY <1>2, <1>3, <1>4 DEF IInv

(* What the history variables say after a step of what was before it.        *)
LEMMA WatchType == Watch => undisturbed' \in [Revalidations -> BOOLEAN] /\ clean' \in BOOLEAN
  BY DEF Watch

LEMMA UndisturbedBefore ==
  ASSUME Watch, NEW r \in Revalidations, undisturbed'[r]
  PROVE  rv'[r] \notin {"idle", "skip"} /\ ~OldWork' /\ (rv[r] # "idle" => undisturbed[r] /\ active' = active)
  BY DEF Watch

LEMMA CleanBefore ==
  ASSUME Watch, clean'
  PROVE  /\ active' = active
         /\ clean \/ \E r \in Revalidations : rv[r] = "invalidate" /\ rv'[r] = "idle" /\ undisturbed[r]
  BY DEF Watch
-----------------------------------------------------------------------------
(* Every step keeps IInv: those of a publication and a deletion, ...         *)
LEMMA WithdrawIInv == ASSUME IInv, Withdraw, Watch PROVE IInv'
  <1> USE CacheAssumption DEF IInv, TypeOK, Ids, Empty, Withdraw, deployVars, rvVars, readerVars
  <1>1. TypeOK'
    <2>1. issued \in Nat /\ issued < MaxIds /\ issued' = issued + 1
      OBVIOUS
    <2>2. issued' \in 1 .. MaxIds
      BY <2>1
    <2>3. dirs' \subseteq 1 .. MaxIds
      BY <2>2
    <2> QED BY <2>2, <2>3, WatchType DEF Revalidations
  <1>2. InPublication' /\ WorkIsKnown' /\ AnswersAreOwn'
    BY DEF InPublication, WorkIsKnown, Known, AnswersAreOwn
  <1>3. UndisturbedIsFresh'
    BY UndisturbedBefore DEF UndisturbedIsFresh, Fresh, Revalidations
  <1>4. CleanIsFresh'
    BY CleanBefore DEF CleanIsFresh, CachesAreFresh, OldWork, InPublication
  <1> QED BY <1>1, <1>2, <1>3, <1>4

LEMMA ActivateIInv == ASSUME IInv, Activate, Watch PROVE IInv'
  <1> USE CacheAssumption DEF IInv, TypeOK, Ids, Empty, Activate, deployVars, rvVars, readerVars
  <1>1. TypeOK'
    BY WatchType DEF InPublication, Revalidations
  <1>2. InPublication' /\ WorkIsKnown' /\ AnswersAreOwn'
    BY DEF InPublication, WorkIsKnown, Known, AnswersAreOwn
  <1>3. UndisturbedIsFresh'
    BY UndisturbedBefore DEF UndisturbedIsFresh, Fresh, Revalidations
  <1>4. CleanIsFresh'
    BY CleanBefore DEF CleanIsFresh, CachesAreFresh, OldWork, InPublication
  <1> QED BY <1>1, <1>2, <1>3, <1>4

LEMMA FailActivateIInv == ASSUME IInv, FailActivate, Watch PROVE IInv'
  <1> USE CacheAssumption DEF IInv, TypeOK, Ids, Empty, FailActivate, deployVars, rvVars, readerVars
  <1>1. TypeOK'
    BY WatchType DEF InPublication, Revalidations
  <1>2. InPublication' /\ WorkIsKnown' /\ AnswersAreOwn'
    BY DEF InPublication, WorkIsKnown, Known, AnswersAreOwn
  <1>3. UndisturbedIsFresh'
    BY UndisturbedBefore DEF UndisturbedIsFresh, Fresh, Revalidations
  <1>4. CleanIsFresh'
    BY CleanBefore DEF CleanIsFresh, CachesAreFresh, OldWork, InPublication
  <1> QED BY <1>1, <1>2, <1>3, <1>4

LEMMA RemovePreviousIInv == ASSUME IInv, RemovePrevious, Watch PROVE IInv'
  <1> USE CacheAssumption DEF IInv, TypeOK, Ids, Empty, RemovePrevious, deployVars, rvVars, readerVars
  <1>1. TypeOK'
    BY WatchType DEF InPublication, Revalidations
  <1>2. InPublication' /\ WorkIsKnown' /\ AnswersAreOwn'
    BY DEF InPublication, WorkIsKnown, Known, AnswersAreOwn
  <1>3. UndisturbedIsFresh'
    BY UndisturbedBefore DEF UndisturbedIsFresh, Fresh, Revalidations
  <1>4. CleanIsFresh'
    BY CleanBefore DEF CleanIsFresh, CachesAreFresh, OldWork, InPublication
  <1> QED BY <1>1, <1>2, <1>3, <1>4

LEMMA DeleteActiveIInv == ASSUME IInv, DeleteActive, Watch PROVE IInv'
  <1> USE CacheAssumption DEF IInv, TypeOK, Ids, Empty, DeleteActive, deployVars, rvVars, readerVars
  <1>1. TypeOK'
    BY WatchType DEF InPublication, Revalidations
  <1>2. InPublication' /\ WorkIsKnown' /\ AnswersAreOwn'
    BY DEF InPublication, WorkIsKnown, Known, AnswersAreOwn
  <1>3. UndisturbedIsFresh'
    BY UndisturbedBefore DEF UndisturbedIsFresh, Fresh, Revalidations
  <1>4. CleanIsFresh'
    BY CleanBefore DEF CleanIsFresh, CachesAreFresh, OldWork, InPublication
  <1> QED BY <1>1, <1>2, <1>3, <1>4

(* ... those of revalidate_project, ...                                      *)
LEMMA ScanIInv == ASSUME IInv, NEW r \in Revalidations, Scan(r), Watch PROVE IInv'
  <1> USE CacheAssumption DEF IInv, TypeOK, Ids, Empty, Scan, deployVars, rvVars, readerVars
  <1>1. TypeOK'
    BY WatchType DEF InPublication, Revalidations
  <1>2. InPublication' /\ WorkIsKnown' /\ AnswersAreOwn'
    BY DEF InPublication, WorkIsKnown, Known, AnswersAreOwn
  <1>3. UndisturbedIsFresh'
    BY UndisturbedBefore DEF UndisturbedIsFresh, Fresh, Revalidations
  <1>4. CleanIsFresh'
    BY CleanBefore DEF CleanIsFresh, CachesAreFresh, OldWork, InPublication
  <1> QED BY <1>1, <1>2, <1>3, <1>4

LEMMA EraseIInv == ASSUME IInv, NEW r \in Revalidations, Erase(r), Watch PROVE IInv'
  <1> USE CacheAssumption DEF IInv, TypeOK, Ids, Empty, Erase, deployVars, rvVars, readerVars
  <1>1. TypeOK'
    BY WatchType DEF InPublication, Revalidations
  <1>2. InPublication' /\ WorkIsKnown' /\ AnswersAreOwn'
    BY DEF InPublication, WorkIsKnown, Known, AnswersAreOwn
  <1>3. UndisturbedIsFresh'
    BY UndisturbedBefore DEF UndisturbedIsFresh, Fresh, Revalidations
  <1>4. CleanIsFresh'
    BY CleanBefore DEF CleanIsFresh, CachesAreFresh, OldWork, InPublication
  <1> QED BY <1>1, <1>2, <1>3, <1>4

LEMMA InvalidateIInv == ASSUME IInv, NEW r \in Revalidations, Invalidate(r), Watch PROVE IInv'
  <1> USE CacheAssumption DEF IInv, TypeOK, Ids, Empty, Invalidate, deployVars, rvVars, readerVars
  <1>1. TypeOK'
    BY WatchType DEF InPublication, Revalidations
  <1>2. InPublication' /\ WorkIsKnown' /\ AnswersAreOwn'
    BY DEF InPublication, WorkIsKnown, Known, AnswersAreOwn
  <1>3. UndisturbedIsFresh'
    BY UndisturbedBefore DEF UndisturbedIsFresh, Fresh, Revalidations
  <1>4. CleanIsFresh'
    <2> SUFFICES ASSUME clean' PROVE (~OldWork /\ CachesAreFresh)'
      BY DEF CleanIsFresh
    <2>1. ~OldWork /\ \A k \in Keys : Fresh(redis[k])
      <3>1. CASE clean
        BY <3>1 DEF CleanIsFresh, CachesAreFresh, Fresh
      <3>2. CASE rv[r] = "invalidate" /\ undisturbed[r]
        BY <3>2 DEF UndisturbedIsFresh
      <3>3. clean \/ (rv[r] = "invalidate" /\ undisturbed[r])
        BY CleanBefore
      <3> QED BY <3>1, <3>2, <3>3
    <2> QED BY <2>1 DEF OldWork, CachesAreFresh, Fresh
  <1> QED BY <1>1, <1>2, <1>3, <1>4

(* ... and those of readers, suppliers and the caches themselves.            *)
LEMMA ResolveIInv == ASSUME IInv, NEW h \in Readers, Resolve(h), Watch PROVE IInv'
  <1> USE CacheAssumption DEF IInv, TypeOK, Ids, Empty, Resolve, deployVars, rvVars, readerVars
  <1>1. TypeOK'
    BY WatchType DEF InPublication, Revalidations
  <1>2. InPublication' /\ WorkIsKnown' /\ AnswersAreOwn'
    BY DEF InPublication, WorkIsKnown, Known, AnswersAreOwn
  <1>3. UndisturbedIsFresh'
    BY UndisturbedBefore DEF UndisturbedIsFresh, Fresh, Revalidations
  <1>4. CleanIsFresh'
    BY CleanBefore DEF CleanIsFresh, CachesAreFresh, OldWork, InPublication
  <1> QED BY <1>1, <1>2, <1>3, <1>4

LEMMA CheckoutExistsIInv == ASSUME IInv, NEW h \in Readers, CheckoutExists(h), Watch PROVE IInv'
  <1> USE CacheAssumption DEF IInv, TypeOK, Ids, Empty, CheckoutExists, deployVars, rvVars, readerVars, Leave, Default
  <1>1. TypeOK'
    BY WatchType DEF InPublication, Revalidations
  <1>2. InPublication' /\ WorkIsKnown' /\ AnswersAreOwn'
    BY DEF InPublication, WorkIsKnown, Known, AnswersAreOwn
  <1>3. UndisturbedIsFresh'
    BY UndisturbedBefore DEF UndisturbedIsFresh, Fresh, Revalidations
  <1>4. CleanIsFresh'
    BY CleanBefore DEF CleanIsFresh, CachesAreFresh, OldWork, InPublication
  <1> QED BY <1>1, <1>2, <1>3, <1>4

LEMMA InsertIInv == ASSUME IInv, NEW h \in Readers, Insert(h), Watch PROVE IInv'
  <1> USE CacheAssumption DEF IInv, TypeOK, Ids, Empty, Insert, deployVars, rvVars, readerVars
  <1>1. TypeOK'
    BY WatchType DEF InPublication, Revalidations
  <1>2. InPublication' /\ WorkIsKnown' /\ AnswersAreOwn'
    BY DEF InPublication, WorkIsKnown, Known, AnswersAreOwn
  <1>3. UndisturbedIsFresh'
    BY UndisturbedBefore DEF UndisturbedIsFresh, Fresh, Revalidations
  <1>4. CleanIsFresh'
    BY CleanBefore DEF CleanIsFresh, CachesAreFresh, OldWork, InPublication
  <1> QED BY <1>1, <1>2, <1>3, <1>4

LEMMA ReleaseIInv == ASSUME IInv, NEW h \in Readers, Release(h), Watch PROVE IInv'
  <1> USE CacheAssumption DEF IInv, TypeOK, Ids, Empty, Release, deployVars, rvVars, readerVars, Leave, Default
  <1>1. TypeOK'
    BY WatchType DEF InPublication, Revalidations
  <1>2. InPublication' /\ WorkIsKnown' /\ AnswersAreOwn'
    BY DEF InPublication, WorkIsKnown, Known, AnswersAreOwn
  <1>3. UndisturbedIsFresh'
    BY UndisturbedBefore DEF UndisturbedIsFresh, Fresh, Revalidations
  <1>4. CleanIsFresh'
    BY CleanBefore DEF CleanIsFresh, CachesAreFresh, OldWork, InPublication
  <1> QED BY <1>1, <1>2, <1>3, <1>4

LEMMA StartSupplierIInv ==
  ASSUME IInv, NEW h \in Readers, NEW k \in Keys, StartSupplier(h, k), Watch PROVE IInv'
  <1> USE CacheAssumption DEF IInv, TypeOK, Ids, Empty, StartSupplier, deployVars, rvVars, readerVars
  <1>1. TypeOK'
    <2>1. dep[h] \in 1 .. MaxIds
      BY DEF WorkIsKnown
    <2>2. <<dep[h], option[h], k, 0>> \in (1 .. MaxIds) \X Options \X Keys \X (0 .. MaxIds + 1)
      BY <2>1
    <2>3. suppliers' \subseteq (1 .. MaxIds) \X Options \X Keys \X (0 .. MaxIds + 1)
      BY <2>2
    <2> QED BY <2>3, WatchType DEF Revalidations
  <1>2. InPublication' /\ WorkIsKnown' /\ AnswersAreOwn'
    BY DEF InPublication, WorkIsKnown, Known, AnswersAreOwn
  <1>3. UndisturbedIsFresh'
    BY UndisturbedBefore DEF UndisturbedIsFresh, Fresh, Revalidations
  <1>4. CleanIsFresh'
    <2> SUFFICES ASSUME clean' PROVE (~OldWork /\ CachesAreFresh)'
      BY DEF CleanIsFresh
    <2>1. clean /\ active' = active
      BY CleanBefore
    <2>2. ~OldWork /\ CachesAreFresh
      BY <2>1 DEF CleanIsFresh
    <2>3. dep[h] = active
      BY <2>2 DEF OldWork, WorkIsKnown
    <2>4. ASSUME NEW s \in suppliers' PROVE s[1] = active
      BY <2>2, <2>3 DEF OldWork
    <2> QED BY <2>1, <2>2, <2>4 DEF OldWork, CachesAreFresh
  <1> QED BY <1>1, <1>2, <1>3, <1>4

LEMMA ComputeIInv == ASSUME IInv, NEW s \in suppliers, Compute(s), Watch PROVE IInv'
  <1> USE CacheAssumption DEF IInv, TypeOK, Ids, Empty, Compute, deployVars, rvVars, readerVars
  <1>1. TypeOK'
    BY WatchType DEF InPublication, Revalidations
  <1>2. InPublication' /\ WorkIsKnown' /\ AnswersAreOwn'
    BY DEF InPublication, WorkIsKnown, Known, AnswersAreOwn
  <1>3. UndisturbedIsFresh'
    BY UndisturbedBefore DEF UndisturbedIsFresh, Fresh, Revalidations
  <1>4. CleanIsFresh'
    BY CleanBefore DEF CleanIsFresh, CachesAreFresh, OldWork, InPublication
  <1> QED BY <1>1, <1>2, <1>3, <1>4

LEMMA StoreIInv == ASSUME IInv, NEW s \in suppliers, Store(s), Watch PROVE IInv'
  <1> USE CacheAssumption DEF IInv, TypeOK, Ids, Empty, Store, deployVars, rvVars, readerVars
  <1>1. TypeOK'
    BY WatchType DEF InPublication, Revalidations
  <1>2. InPublication' /\ WorkIsKnown' /\ AnswersAreOwn'
    BY DEF InPublication, WorkIsKnown, Known, AnswersAreOwn
  <1>3. UndisturbedIsFresh'
    <2> SUFFICES ASSUME NEW r \in Revalidations, undisturbed'[r]
                 PROVE  (/\ rv[r] \in {"scan", "delete", "invalidate"} /\ ~OldWork
                         /\ rv[r] = "delete" => \A k \in Keys \ found[r] : Fresh(redis[k])
                         /\ rv[r] = "invalidate" => \A k \in Keys : Fresh(redis[k]))'
      BY DEF UndisturbedIsFresh
    <2>1. ~OldWork' /\ rv'[r] \in {"scan", "delete", "invalidate"} /\ undisturbed[r]
      BY UndisturbedBefore
    <2>2. ~OldWork
      BY <2>1 DEF UndisturbedIsFresh
    <2>3. s[3] \in Keys /\ s[4] \in {0, active}
      BY <2>2 DEF OldWork, AnswersAreOwn
    <2> QED BY <2>1, <2>3 DEF UndisturbedIsFresh, Fresh
  <1>4. CleanIsFresh'
    <2> SUFFICES ASSUME clean' PROVE (~OldWork /\ CachesAreFresh)'
      BY DEF CleanIsFresh
    <2>1. clean /\ ~OldWork /\ CachesAreFresh
      BY CleanBefore DEF CleanIsFresh
    <2>2. s[3] \in Keys /\ s[4] \in {0, active}
      BY <2>1 DEF OldWork, AnswersAreOwn
    <2>3. active' = active /\ ~OldWork'
      BY <2>1 DEF OldWork
    <2>4. \A k \in Keys : redis'[k] \in {0, active}
      BY <2>1, <2>2 DEF CachesAreFresh
    <2>5. \A o \in Options : resolved'[o] \in {0, active}
      BY <2>1 DEF CachesAreFresh
    <2> QED BY <2>3, <2>4, <2>5 DEF CachesAreFresh
  <1> QED BY <1>1, <1>2, <1>3, <1>4

LEMMA ExpireIInv == ASSUME IInv, NEW k \in Keys, Expire(k), Watch PROVE IInv'
  <1> USE CacheAssumption DEF IInv, TypeOK, Ids, Empty, Expire, deployVars, rvVars, readerVars
  <1>1. TypeOK'
    BY WatchType DEF InPublication, Revalidations
  <1>2. InPublication' /\ WorkIsKnown' /\ AnswersAreOwn'
    BY DEF InPublication, WorkIsKnown, Known, AnswersAreOwn
  <1>3. UndisturbedIsFresh'
    BY UndisturbedBefore DEF UndisturbedIsFresh, Fresh, Revalidations
  <1>4. CleanIsFresh'
    BY CleanBefore DEF CleanIsFresh, CachesAreFresh, OldWork, InPublication
  <1> QED BY <1>1, <1>2, <1>3, <1>4

LEMMA EvictIInv == ASSUME IInv, NEW o \in Options, Evict(o), Watch PROVE IInv'
  <1> USE CacheAssumption DEF IInv, TypeOK, Ids, Empty, Evict, deployVars, rvVars, readerVars
  <1>1. TypeOK'
    BY WatchType DEF InPublication, Revalidations
  <1>2. InPublication' /\ WorkIsKnown' /\ AnswersAreOwn'
    BY DEF InPublication, WorkIsKnown, Known, AnswersAreOwn
  <1>3. UndisturbedIsFresh'
    BY UndisturbedBefore DEF UndisturbedIsFresh, Fresh, Revalidations
  <1>4. CleanIsFresh'
    BY CleanBefore DEF CleanIsFresh, CachesAreFresh, OldWork, InPublication
  <1> QED BY <1>1, <1>2, <1>3, <1>4
-----------------------------------------------------------------------------
LEMMA StutterIInv == IInv /\ UNCHANGED vars => IInv'
  BY DEF IInv, TypeOK, InPublication, WorkIsKnown, Known, AnswersAreOwn, UndisturbedIsFresh, Fresh, CleanIsFresh,
     CachesAreFresh, OldWork, vars, deployVars, rvVars, readerVars

LEMMA NextIInv == IInv /\ [Next]_vars => IInv'
  <1> SUFFICES ASSUME IInv, [Next]_vars PROVE IInv'
    OBVIOUS
  <1>1. CASE UNCHANGED vars
    BY <1>1, StutterIInv
  <1>2. ASSUME Step, Watch PROVE IInv'
    BY <1>2, WithdrawIInv, ActivateIInv, FailActivateIInv, RemovePreviousIInv, DeleteActiveIInv,
       ScanIInv, EraseIInv, InvalidateIInv, ResolveIInv, CheckoutExistsIInv, InsertIInv, ReleaseIInv,
       StartSupplierIInv, ComputeIInv, StoreIInv, ExpireIInv, EvictIInv DEF Step
  <1> QED BY <1>1, <1>2 DEF Next

(* The strengthening of TypeOK and CachesAreFresh is an invariant.           *)
THEOREM InductiveInvariant == Spec => []IInv
  BY InitIInv, NextIInv, PTL DEF Spec

(* The variables of ProjectCache always hold values of their types.          *)
THEOREM TypeCorrect == Spec => []TypeOK
  BY InductiveInvariant, PTL DEF IInv

(* An undisturbed revalidation leaves neither an instance nor an answer of   *)
(* an older deployment, until something is published or deleted.             *)
THEOREM CachesAreFreshHolds == Spec => []CachesAreFresh
  <1>1. IInv => CachesAreFresh
    BY DEF IInv, CleanIsFresh, CachesAreFresh
  <1> QED BY <1>1, InductiveInvariant, PTL
=============================================================================
