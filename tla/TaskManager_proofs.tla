------------------------- MODULE TaskManager_proofs -------------------------
(* Theorems about TaskManager, for every set of calls and ids.               *)
EXTENDS TaskManager, TLAPS

(* What ties the map to the calls: an entry of the map is a task that was    *)
(* spawned for that id, a spawned task belongs to a call that is under way   *)
(* and awaits it, and a result that was read is that of a finished task.     *)
EntryIsSpawned == \A k \in Keys : tasks[k] # None => key[tasks[k]] = k /\ run[tasks[k]] # "none"
SpawnerAwaits == \A c \in Callers : run[c] # "none" => pc[c] # "idle" /\ joined[c] = c
IdGiven == \A c \in Callers : pc[c] # "idle" => key[c] \in Keys
ReadIsFinished == \A c \in Callers : pc[c] \in {"resolved", "returned"} => run[joined[c]] \in Outcomes

IInv == /\ TypeOK
        /\ RunningIsPending
        /\ OwnIdAwaited
        /\ ReturnedIsForgotten
        /\ EntryIsSpawned
        /\ SpawnerAwaits
        /\ ReadIsFinished
        /\ IdGiven

-----------------------------------------------------------------------------
LEMMA InitIInv == Init => IInv
  BY CallersAssumption DEF Init, IInv, TypeOK, RunningIsPending, OwnIdAwaited,
     ReturnedIsForgotten, EntryIsSpawned, SpawnerAwaits, ReadIsFinished, IdGiven

LEMMA JoinIInv == ASSUME IInv, NEW c \in Callers, NEW k \in Keys, Join(c, k) PROVE IInv'
  <1> USE CallersAssumption DEF IInv, IdGiven, TypeOK, Join, Wait, HasPending, Outcomes
  <1>1. TypeOK' /\ IdGiven'
    OBVIOUS
  <1>2. OwnIdAwaited'
    BY DEF OwnIdAwaited, EntryIsSpawned, SpawnerAwaits
  <1>3. RunningIsPending' /\ EntryIsSpawned'
    BY DEF RunningIsPending, EntryIsSpawned, SpawnerAwaits
  <1>4. ReturnedIsForgotten' /\ SpawnerAwaits' /\ ReadIsFinished'
    BY DEF ReturnedIsForgotten, SpawnerAwaits, ReadIsFinished
  <1> QED BY <1>1, <1>2, <1>3, <1>4

LEMMA SpawnIInv == ASSUME IInv, NEW c \in Callers, NEW k \in Keys, Spawn(c, k) PROVE IInv'
  <1> USE CallersAssumption DEF IInv, IdGiven, TypeOK, Spawn, Wait, HasPending, Outcomes
  <1>1. TypeOK' /\ IdGiven'
    OBVIOUS
  <1>2. run[c] = "none"
    BY DEF SpawnerAwaits
  <1>3. RunningIsPending'
    BY <1>2 DEF RunningIsPending, EntryIsSpawned, SpawnerAwaits
  <1>4. OwnIdAwaited'
    BY <1>2 DEF OwnIdAwaited
  <1>5. ReturnedIsForgotten'
    BY <1>2 DEF ReturnedIsForgotten, OwnIdAwaited
  <1>6. EntryIsSpawned'
    BY <1>2 DEF EntryIsSpawned
  <1>7. SpawnerAwaits' /\ ReadIsFinished'
    BY <1>2 DEF SpawnerAwaits, ReadIsFinished
  <1> QED BY <1>1, <1>3, <1>4, <1>5, <1>6, <1>7

LEMMA FinishIInv == ASSUME IInv, NEW c \in Callers, Finish(c) PROVE IInv'
  <1> USE CallersAssumption DEF IInv, IdGiven, TypeOK, Finish, Outcomes
  <1> PICK o \in {"ok", "error"} : run' = [run EXCEPT ![c] = o]
    OBVIOUS
  <1>1. TypeOK' /\ IdGiven'
    OBVIOUS
  <1>2. RunningIsPending' /\ EntryIsSpawned' /\ ReturnedIsForgotten'
    BY DEF RunningIsPending, EntryIsSpawned, ReturnedIsForgotten
  <1>3. OwnIdAwaited' /\ SpawnerAwaits' /\ ReadIsFinished'
    BY DEF OwnIdAwaited, SpawnerAwaits, ReadIsFinished
  <1> QED BY <1>1, <1>2, <1>3

LEMMA ResolveIInv == ASSUME IInv, NEW c \in Callers, Resolve(c) PROVE IInv'
  <1> USE CallersAssumption DEF IInv, IdGiven, TypeOK, Resolve, Outcomes
  <1>1. TypeOK' /\ IdGiven' /\ RunningIsPending' /\ EntryIsSpawned'
    BY DEF RunningIsPending, EntryIsSpawned
  <1>2. OwnIdAwaited' /\ ReturnedIsForgotten' /\ SpawnerAwaits' /\ ReadIsFinished'
    BY DEF OwnIdAwaited, ReturnedIsForgotten, SpawnerAwaits, ReadIsFinished
  <1> QED BY <1>1, <1>2

(* The entry that Evict removes has been polled to completion, by whichever  *)
(* call, so it is not that of a running task; and if it stays although it is *)
(* the caller's own task, then the caller has not polled it, which it has.   *)
LEMMA EvictIInv == ASSUME IInv, NEW c \in Callers, Evict(c) PROVE IInv'
  <1> USE CallersAssumption DEF IInv, IdGiven, TypeOK, Evict, Remove, HasPending, Outcomes
  <1>1. key[c] \in Keys /\ joined[c] \in Callers
    BY DEF OwnIdAwaited
  <1>0. IdGiven'
    OBVIOUS
  <1>2. Polled(joined[c])
    BY DEF Polled
  <1>3. CASE tasks' = [tasks EXCEPT ![key[c]] = None] /\ Polled(tasks[key[c]])
    <2>1. run[tasks[key[c]]] \in Outcomes
      BY <1>3 DEF Polled, ReadIsFinished
    <2>2. RunningIsPending'
      BY <1>1, <1>3, <2>1 DEF RunningIsPending, OwnIdAwaited, SpawnerAwaits
    <2>3. EntryIsSpawned' /\ SpawnerAwaits' /\ ReadIsFinished' /\ OwnIdAwaited'
      BY <1>1, <1>3 DEF EntryIsSpawned, SpawnerAwaits, ReadIsFinished, OwnIdAwaited
    <2>4. ReturnedIsForgotten'
      BY <1>1, <1>3 DEF ReturnedIsForgotten, OwnIdAwaited
    <2> QED BY <1>0, <1>1, <1>3, <2>2, <2>3, <2>4
  <1>4. CASE UNCHANGED tasks /\ ~(tasks[key[c]] # None /\ Polled(tasks[key[c]]))
    <2>1. tasks[key[c]] # joined[c]
      BY <1>1, <1>2, <1>4
    <2>2. ReturnedIsForgotten'
      BY <1>1, <1>4, <2>1 DEF ReturnedIsForgotten
    <2>3. RunningIsPending' /\ EntryIsSpawned' /\ SpawnerAwaits' /\ ReadIsFinished' /\ OwnIdAwaited'
      BY <1>4 DEF RunningIsPending, EntryIsSpawned, SpawnerAwaits, ReadIsFinished, OwnIdAwaited
    <2> QED BY <1>0, <1>4, <2>2, <2>3
  <1> QED BY <1>3, <1>4

LEMMA DropIInv == ASSUME IInv, NEW c \in Callers, Drop(c) PROVE IInv'
  <1> USE CallersAssumption DEF IInv, IdGiven, TypeOK, Drop, Outcomes
  <1>1. TypeOK' /\ IdGiven' /\ RunningIsPending' /\ EntryIsSpawned'
    BY DEF RunningIsPending, EntryIsSpawned
  <1>2. OwnIdAwaited' /\ ReturnedIsForgotten' /\ SpawnerAwaits' /\ ReadIsFinished'
    BY DEF OwnIdAwaited, ReturnedIsForgotten, SpawnerAwaits, ReadIsFinished
  <1> QED BY <1>1, <1>2

LEMMA StutterIInv == IInv /\ UNCHANGED vars => IInv'
  BY DEF IInv, IdGiven, TypeOK, RunningIsPending, OwnIdAwaited, ReturnedIsForgotten,
     EntryIsSpawned, SpawnerAwaits, ReadIsFinished, IdGiven, vars

LEMMA NextIInv == IInv /\ [Next]_vars => IInv'
  <1> SUFFICES ASSUME IInv, [Next]_vars PROVE IInv'
    OBVIOUS
  <1>1. ASSUME NEW c \in Callers, Step(c) PROVE IInv'
    BY <1>1, JoinIInv, SpawnIInv, FinishIInv, ResolveIInv, EvictIInv, DropIInv DEF Step
  <1>2. CASE UNCHANGED vars
    BY <1>2, StutterIInv
  <1> QED BY <1>1, <1>2 DEF Next, Done

THEOREM InductiveInvariant == Spec => []IInv
  BY InitIInv, NextIInv, PTL DEF Spec

(* The variables of TaskManager always hold values of their types.           *)
THEOREM TypeCorrect == Spec => []TypeOK
  BY InductiveInvariant, PTL DEF IInv

(* No two tasks run at once under one id: both would be its entry.           *)
THEOREM SingleFlightHolds == Spec => []SingleFlight
  <1>1. IInv => SingleFlight
    BY DEF IInv, TypeOK, RunningIsPending, SingleFlight
  <1> QED BY <1>1, InductiveInvariant, PTL

(* has_pending is true as long as a task of that id runs.                    *)
THEOREM RunningIsPendingHolds == Spec => []RunningIsPending
  BY InductiveInvariant, PTL DEF IInv

(* A call awaits a task of its own id only.                                  *)
THEOREM OwnIdAwaitedHolds == Spec => []OwnIdAwaited
  BY InductiveInvariant, PTL DEF IInv

(* A result that one call has returned is never handed out again.            *)
THEOREM ReturnedIsForgottenHolds == Spec => []ReturnedIsForgotten
  BY InductiveInvariant, PTL DEF IInv

(* A finished task that is still in the map is shared by a call that has not *)
(* passed its eviction: the one that spawned it, at least.                   *)
THEOREM LeftoverHasOwnerHolds == Spec => []LeftoverHasOwner
  <1>1. ASSUME IInv, NEW k \in Keys, HasPending(k)
        PROVE \E c \in Callers : joined[c] = tasks[k] /\ pc[c] \in {"waiting", "resolved", "dropped"}
    <2> DEFINE t == tasks[k]
    <2>1. t \in Callers /\ key[t] = k /\ joined[t] = t /\ pc[t] # "idle"
      BY <1>1 DEF HasPending, IInv, TypeOK, EntryIsSpawned, SpawnerAwaits
    <2>2. pc[t] # "returned"
      BY <1>1, <2>1 DEF IInv, ReturnedIsForgotten
    <2> QED BY <1>1, <2>1, <2>2 DEF IInv, TypeOK
  <1>2. IInv => LeftoverHasOwner
    BY <1>1 DEF LeftoverHasOwner
  <1> QED BY <1>2, InductiveInvariant, PTL
-----------------------------------------------------------------------------
LEMMA InitRefines == Init => Runs!Init
  BY CallersAssumption DEF Init, Runs!Init, HasPending, Outcomes

LEMMA SpawnRefines ==
    ASSUME IInv, NEW c \in Callers, NEW k \in Keys, Spawn(c, k) PROVE Runs!Start(c, k)
  <1> USE CallersAssumption DEF IInv, TypeOK, Spawn, Wait, HasPending, Outcomes
  <1>1. run[c] = "none" /\ pc[c] = "idle"
    BY DEF SpawnerAwaits
  <1>2. \A j \in Keys : tasks[j] # c
    BY <1>1 DEF EntryIsSpawned
  <1>3. [j \in Keys |-> IF tasks'[j] # None /\ run'[tasks'[j]] = "running" THEN tasks'[j] ELSE None]
        = [[j \in Keys |-> IF tasks[j] # None /\ run[tasks[j]] = "running" THEN tasks[j] ELSE None]
             EXCEPT ![k] = c]
    BY <1>2
  <1>4. {d \in Callers : run'[d] \in Outcomes} = {d \in Callers : run[d] \in Outcomes}
    BY <1>1
  <1>5. [d \in Callers |-> IF pc'[d] = "returned" THEN joined'[d] ELSE None]
        = [d \in Callers |-> IF pc[d] = "returned" THEN joined[d] ELSE None]
    BY <1>1
  <1> QED BY <1>1, <1>2, <1>3, <1>4, <1>5 DEF Runs!Start

LEMMA FinishRefines ==
    ASSUME IInv, NEW c \in Callers, Finish(c), NEW k \in Keys, k = key[c] PROVE Runs!End(k)
  <1> USE CallersAssumption DEF IInv, TypeOK, Finish, HasPending, Outcomes
  <1> PICK o \in {"ok", "error"} : run' = [run EXCEPT ![c] = o]
    OBVIOUS
  <1>1. tasks[key[c]] = c /\ key[c] \in Keys
    BY DEF RunningIsPending, SpawnerAwaits, IdGiven
  <1>2. \A j \in Keys : tasks[j] = c => j = key[c]
    BY DEF EntryIsSpawned
  <1>3. [j \in Keys |-> IF tasks'[j] # None /\ run'[tasks'[j]] = "running" THEN tasks'[j] ELSE None]
        = [[j \in Keys |-> IF tasks[j] # None /\ run[tasks[j]] = "running" THEN tasks[j] ELSE None]
             EXCEPT ![key[c]] = None]
    BY <1>1, <1>2
  <1>4. {d \in Callers : run'[d] \in Outcomes} = {d \in Callers : run[d] \in Outcomes} \cup {c}
    OBVIOUS
  <1> QED BY <1>1, <1>3, <1>4 DEF Runs!End

LEMMA EvictRefines ==
    ASSUME IInv, NEW c \in Callers, Evict(c), NEW t \in Callers, t = joined[c] PROVE Runs!Answer(c, t)
  <1> USE CallersAssumption DEF IInv, TypeOK, Evict, Remove, HasPending, Outcomes
  <1>1. joined[c] \in {d \in Callers : run[d] \in Outcomes}
    BY DEF OwnIdAwaited, ReadIsFinished
  <1>2. key[c] \in Keys
    BY DEF IdGiven
  <1>3. [d \in Callers |-> IF pc'[d] = "returned" THEN joined'[d] ELSE None]
        = [[d \in Callers |-> IF pc[d] = "returned" THEN joined[d] ELSE None] EXCEPT ![c] = joined[c]]
    OBVIOUS
  <1>4. [j \in Keys |-> IF tasks'[j] # None /\ run'[tasks'[j]] = "running" THEN tasks'[j] ELSE None]
        = [j \in Keys |-> IF tasks[j] # None /\ run[tasks[j]] = "running" THEN tasks[j] ELSE None]
    <2>1. CASE tasks' = tasks
      BY <2>1
    <2>2. CASE tasks' = [tasks EXCEPT ![key[c]] = None] /\ Polled(tasks[key[c]])
      <3>1. run[tasks[key[c]]] \in Outcomes
        BY <2>2 DEF Polled, ReadIsFinished
      <3> QED BY <1>2, <2>2, <3>1
    <2> QED BY <2>1, <2>2
  <1> QED BY <1>1, <1>3, <1>4 DEF Runs!Answer

(* The steps that SharedRuns does not see: to wait, to read, to be dropped.  *)
LEMMA OthersRefine ==
    ASSUME IInv, NEW c \in Callers,
           Resolve(c) \/ Drop(c) \/ (\E k \in Keys : Join(c, k)) \/ UNCHANGED vars
    PROVE UNCHANGED Runs!vars
  <1> USE DEF IInv, TypeOK, HasPending, Runs!vars
  <1>1. CASE UNCHANGED vars
    BY <1>1 DEF vars
  <1>2. CASE Resolve(c) \/ Drop(c)
    BY <1>2 DEF Resolve, Drop
  <1>3. CASE \E k \in Keys : Join(c, k)
    BY <1>3 DEF Join, Wait
  <1> QED BY <1>1, <1>2, <1>3

LEMMA NextRefines == IInv /\ [Next]_vars => [Runs!Next]_(Runs!vars)
  <1> SUFFICES ASSUME IInv, [Next]_vars PROVE [Runs!Next]_(Runs!vars)
    OBVIOUS
  <1>1. CASE UNCHANGED vars
    BY <1>1 DEF vars, Runs!vars, HasPending
  <1>2. ASSUME NEW c \in Callers, Step(c) PROVE [Runs!Next]_(Runs!vars)
    <2>1. CASE \E k \in Keys : Spawn(c, k)
      BY <2>1, <1>2, SpawnRefines DEF Runs!Next
    <2>2. CASE Finish(c)
      <3>1. key[c] \in Keys
        BY <2>2 DEF Finish, IInv, IdGiven, SpawnerAwaits
      <3>2. PICK k \in Keys : k = key[c]
        BY <3>1
      <3>3. Runs!End(k)
        BY <2>2, <3>2, FinishRefines
      <3> QED BY <3>3 DEF Runs!Next
    <2>3. CASE Evict(c)
      <3>1. joined[c] \in Callers
        BY <2>3 DEF Evict, IInv, OwnIdAwaited, TypeOK
      <3>2. PICK t \in Callers : t = joined[c]
        BY <3>1
      <3>3. Runs!Answer(c, t)
        BY <2>3, <3>2, EvictRefines
      <3> QED BY <3>3 DEF Runs!Next
    <2>4. CASE Resolve(c) \/ Drop(c) \/ \E k \in Keys : Join(c, k)
      BY <2>4, <1>2, OthersRefine
    <2> QED BY <1>2, <2>1, <2>2, <2>3, <2>4 DEF Step
  <1> QED BY <1>1, <1>2 DEF Next, Done

(* The map of shared futures implements what its users rely on.              *)
THEOREM Implements == Spec => ImplementsSharedRuns
  BY InitRefines, NextRefines, InductiveInvariant, PTL DEF Spec, ImplementsSharedRuns, Runs!Spec
=============================================================================
