------------------------- MODULE Deployment_proofs -------------------------
(* Theorems about Deployment, for any finite set of requests, any versions,  *)
(* faults and crashes.                                                       *)
EXTENDS Deployment, FiniteSetTheorems, TLAPS

(* The invariant of the task manager, whose code the deployments share.      *)
TMP == INSTANCE TaskManager_proofs WITH Callers <- Requests, Keys <- {Project}, Droppable <- {}

(* A deployment is under way as long as its task runs.                       *)
JobIsRun == \A r \in Requests : Running(r) <=> run[r] = "running"

(* A request inserts at most one row.                                        *)
Inserted == {r \in Requests : run[r] # "none" /\ step[r] \notin {"prev", "insert"}}
RowsAreCounted == lastId <= Cardinality(Inserted)

(* The deployment under way has the newest row, and its predecessor an older *)
(* one; the version whose transaction comes next is a named one.             *)
Unnumbered == {"idle", "prev", "insert"}
DepIsNewest ==
    \A r \in Requests :
        /\ step[r] \in Unnumbered => dep[r] = 0
        /\ step[r] \notin Unnumbered => dep[r] = lastId /\ lastId # 0
        /\ prev[r] <= lastId
        /\ step[r] \notin Unnumbered => prev[r] < dep[r]
        /\ step[r] = "vcommit" => cur[r] \in Versions

(* One row at most is active; there are no rows to come.                     *)
RowsInOrder ==
    /\ \A d \in Ids : d > lastId => status[d] = "none"
    /\ \A d \in active : HasRow(d)
    /\ \A d, e \in active : d = e
    /\ ~registered => \A d \in Ids : status[d] = "none"

(* What is active before, between and after the two statements of            *)
(* set_active_deployment.                                                    *)
Activated == {"success", "prune", "cleanOk", "rmprev"}
ActiveByStep ==
    \A r \in Requests :
        /\ step[r] = "activate" => active = {}
        /\ step[r] \in Activated => active \subseteq {dep[r]}
        /\ step[r] \notin Activated => dep[r] \notin active

IInv == /\ TypeOK
        /\ TMP!IInv
        /\ JobIsRun
        /\ RowsAreCounted
        /\ DepIsNewest
        /\ RowsInOrder
        /\ ActiveByStep

(* A project that is removed and not registered again: what its removal has  *)
(* deleted stays so.                                                         *)
NotReborn == ~(MayRemove /\ MayRecreate)
RemovedForGood == (removing => ~registered) /\ (~MayRemove => registered)

(* From the copy of its default version to the end of its activation a       *)
(* deployment is complete, as long as it has a row.                          *)
Committed == {"platforms", "versions", "vcommit", "activate"}
Copied == {"commit", "success"} \cup Committed
CopiedIsServed == \A r \in Requests : step[r] \in Copied /\ HasRow(dep[r]) => Served(dep[r])

(* What is active is complete, but for what the recovery has failed, or may  *)
(* have cleared (before another crash, perhaps) and is about to fail.        *)
ActiveIsServed ==
    \A d \in active :
        status[d] # "error" /\ ~(~Up /\ status[d] \in Pending) => Served(d)

(* The recovery is over before a deployment starts.                          *)
RecoveryIsAlone == ~Up => \A r \in Requests : step[r] = "idle"

FilesInv == RemovedForGood /\ CopiedIsServed /\ ActiveIsServed /\ RecoveryIsAlone

(* Once its default version is committed the data are of this deployment.    *)
CommittedIsData ==
    /\ \A r \in Requests : HasModid /\ registered /\ step[r] \in Committed => data[Default] = dep[r]
    /\ data[Default] # 0 => Default \in vrows

DataInv == CommittedIsData /\ OneGeneration
-----------------------------------------------------------------------------
(* The assumptions of TaskManager hold of its instance.                      *)
LEMMA TmAssumptions == None \notin Requests /\ None \notin {Project} /\ {} \subseteq Requests
  BY ConstantsAssumption

LEMMA SameTypes == (TMP!IInv => TM!TypeOK) /\ (TMP!IInv' => TM!TypeOK')
  BY DEF TMP!IInv, TMP!TypeOK, TM!TypeOK, TMP!Outcomes, TM!Outcomes

LEMMA TmUnchanged == TMP!IInv /\ UNCHANGED tmVars => TMP!IInv'
  BY DEF tmVars, TMP!IInv, TMP!IdGiven, TMP!TypeOK, TMP!RunningIsPending, TMP!OwnIdAwaited,
     TMP!ReturnedIsForgotten, TMP!EntryIsSpawned, TMP!SpawnerAwaits, TMP!ReadIsFinished, TMP!Outcomes

LEMMA TmStep ==
  ASSUME TMP!IInv, NEW r \in Requests,
         TM!Join(r, Project) \/ TM!Spawn(r, Project) \/ TM!Finish(r) \/ TM!Resolve(r) \/ TM!Evict(r)
  PROVE  TMP!IInv'
  <1> USE ConstantsAssumption
  <1>1. CASE TM!Join(r, Project)
    <2>1. TMP!Join(r, Project)
      BY <1>1 DEF TM!Join, TMP!Join, TM!HasPending, TMP!HasPending, TM!Wait, TMP!Wait
    <2> QED BY <2>1, TMP!JoinIInv
  <1>2. CASE TM!Spawn(r, Project)
    <2>1. TMP!Spawn(r, Project)
      BY <1>2 DEF TM!Spawn, TMP!Spawn, TM!HasPending, TMP!HasPending, TM!Wait, TMP!Wait
    <2> QED BY <2>1, TMP!SpawnIInv
  <1>3. CASE TM!Finish(r)
    <2>1. TMP!Finish(r)
      BY <1>3 DEF TM!Finish, TMP!Finish, TM!Outcomes, TMP!Outcomes
    <2> QED BY <2>1, TMP!FinishIInv
  <1>4. CASE TM!Resolve(r)
    <2>1. TMP!Resolve(r)
      BY <1>4 DEF TM!Resolve, TMP!Resolve, TM!Outcomes, TMP!Outcomes
    <2> QED BY <2>1, TMP!ResolveIInv
  <1>5. CASE TM!Evict(r)
    <2>1. TMP!Evict(r)
      BY <1>5 DEF TM!Evict, TMP!Evict, TM!HasPending, TMP!HasPending, TM!Polled, TMP!Polled, TM!Remove, TMP!Remove
    <2> QED BY <2>1, TMP!EvictIInv
  <1> QED BY <1>1, <1>2, <1>3, <1>4, <1>5

(* Deployments are runs of one key, so they follow one another.              *)
LEMMA OneJob == IInv => OneAtATime
  <1> SUFFICES ASSUME IInv, NEW r \in Requests, NEW s \in Requests, Running(r), Running(s) PROVE r = s
    BY DEF OneAtATime
  <1>1. run[r] = "running" /\ run[s] = "running"
    BY DEF IInv, JobIsRun
  <1>2. tasks[key[r]] = r /\ tasks[key[s]] = s /\ key[r] \in {Project} /\ key[s] \in {Project}
    BY <1>1 DEF IInv, TMP!IInv, TMP!RunningIsPending, TMP!SpawnerAwaits, TMP!IdGiven
  <1> QED BY <1>2

LEMMA InsertedFinite == IsFiniteSet(Inserted) /\ Cardinality(Inserted) \in Nat
                        /\ Cardinality(Inserted) <= Cardinality(Requests) /\ Cardinality(Requests) \in Nat
  <1>1. Inserted \in SUBSET Requests
    BY DEF Inserted
  <1> QED BY <1>1, FS_Subset, FS_CardinalityType, ConstantsAssumption

LEMMA InsertedGrows ==
  ASSUME Inserted \subseteq Inserted', RowsAreCounted, lastId \in Nat, UNCHANGED lastId
  PROVE  RowsAreCounted'
  <1>1. Inserted' \in SUBSET Requests
    BY DEF Inserted
  <1>2. IsFiniteSet(Inserted') /\ Cardinality(Inserted') \in Nat
    BY <1>1, FS_Subset, FS_CardinalityType, ConstantsAssumption
  <1>3. Cardinality(Inserted) <= Cardinality(Inserted')
    BY <1>2, FS_Subset
  <1> QED BY <1>2, <1>3, InsertedFinite DEF RowsAreCounted

(* A step of a deployment that leaves alone what the invariant is about:     *)
(* numbers, the task, what is active, and whether there are rows.            *)
LEMMA QuietIInv ==
  ASSUME IInv, TypeOK', NEW r \in Requests, NEW s \in Steps,
         step[r] # "idle", step' = [step EXCEPT ![r] = s],
         UNCHANGED <<tmVars, dep, prev, lastId, active, registered>>,
         \A d \in Ids : status'[d] = "none" <=> status[d] = "none",
         step[r] \notin Unnumbered, s \notin Unnumbered, step[r] \in Activated <=> s \in Activated, s # "activate",
         \A q \in Requests : step'[q] = "vcommit" => cur'[q] \in Versions
  PROVE  IInv'
  <1>1. TMP!IInv' /\ JobIsRun'
    BY TmUnchanged DEF IInv, JobIsRun, Running, Unnumbered, TypeOK, tmVars
  <1>2. RowsAreCounted'
    <2>1. Inserted \subseteq Inserted'
      BY DEF Inserted, TypeOK, IInv, Unnumbered, tmVars
    <2> QED BY <2>1, InsertedGrows DEF IInv, TypeOK, Ids
  <1>3. DepIsNewest'
    BY DEF IInv, DepIsNewest, Unnumbered, TypeOK
  <1>4. RowsInOrder' 
    BY DEF IInv, RowsInOrder, HasRow, TypeOK
  <1>5. ActiveByStep'
    BY DEF IInv, ActiveByStep, Activated, TypeOK
  <1> QED BY <1>1, <1>2, <1>3, <1>4, <1>5 DEF IInv
-----------------------------------------------------------------------------
(* What the handlers do before and after a deployment leaves it alone.       *)
LEMMA HandlerIInv ==
  ASSUME IInv, TypeOK', UNCHANGED <<step, dep, prev, cur, run, lastId, registered>>, TMP!IInv',
         active' \subseteq active, \A d \in Ids : status'[d] = "none" \/ (status[d] # "none" /\ status'[d] # "none"),
         \A d \in active' : status'[d] # "none",
         \A r \in Requests : step[r] \in Activated => active' \subseteq {dep[r]}
  PROVE  IInv'
  <1>1. JobIsRun'
    BY DEF IInv, JobIsRun, Running
  <1>2. RowsAreCounted'
    <2>1. Inserted \subseteq Inserted'
      BY DEF Inserted
    <2> QED BY <2>1, InsertedGrows DEF IInv, TypeOK, Ids
  <1>3. DepIsNewest'
    BY DEF IInv, DepIsNewest
  <1>4. RowsInOrder' 
    BY DEF IInv, RowsInOrder, HasRow, TypeOK
  <1>5. ActiveByStep'
    BY DEF IInv, ActiveByStep
  <1> QED BY <1>1, <1>2, <1>3, <1>4, <1>5 DEF IInv

LEMMA AskIInv ==
  ASSUME IInv, NEW r \in Requests, EnqueueDeploy(r) \/ DeployProject(r) \/ CheckDeploying(r) PROVE IInv'
  <1> USE DEF IInv, EnqueueDeploy, DeployProject, CheckDeploying, tmVars, jobVars, serverVars, rowVars,
              contentVars, diskVars
  <1>1. TMP!IInv'
    BY TmUnchanged
  <1>2. TypeOK'
    BY <1>1, SameTypes DEF TypeOK
  <1> QED BY <1>1, <1>2, HandlerIInv DEF RowsInOrder, HasRow, ActiveByStep, TypeOK

LEMMA ReturnIInv ==
  ASSUME IInv, NEW r \in Requests, Return(r) PROVE IInv'
  <1> USE DEF IInv, Return, jobVars, handlerVars, serverVars, rowVars, contentVars, diskVars
  <1>1. TMP!IInv'
    BY TmStep
  <1>2. TypeOK'
    BY <1>1, SameTypes DEF TypeOK
  <1>3. UNCHANGED run
    BY DEF TM!Resolve, TM!Evict
  <1> QED BY <1>1, <1>2, <1>3, HandlerIInv DEF RowsInOrder, HasRow, ActiveByStep, TypeOK

LEMMA DeletionIInv ==
  ASSUME IInv, DeleteDeployment \/ RemoveProjectDir \/ (\E d \in Ids : LookupDeployment(d)) PROVE IInv'
  <1> USE DEF IInv, DeleteDeployment, RemoveProjectDir, LookupDeployment, tmVars, jobVars, serverVars, rowVars,
              contentVars, diskVars
  <1>1. TMP!IInv'
    BY TmUnchanged
  <1>2. TypeOK'
    <2>1. CASE DeleteDeployment
      BY <1>1, <2>1, SameTypes DEF TypeOK
    <2>2. CASE RemoveProjectDir
      BY <1>1, <2>2, SameTypes DEF TypeOK, NoFiles
    <2>3. CASE \E d \in Ids : LookupDeployment(d)
      BY <1>1, <2>3, SameTypes DEF TypeOK
    <2> QED BY <2>1, <2>2, <2>3
  <1> QED BY <1>1, <1>2, HandlerIInv DEF RowsInOrder, HasRow, ActiveByStep, TypeOK

(* The removal of the project takes its rows; its registration brings none.  *)
LEMMA RemoveProjectIInv == ASSUME IInv, RemoveProject PROVE IInv'
  <1> USE DEF IInv, RemoveProject, tmVars, jobVars, serverVars, diskVars
  <1>1. TMP!IInv'
    BY TmUnchanged
  <1>2. TypeOK'
    BY <1>1, SameTypes DEF TypeOK, NoData, AllVersions
  <1>3. JobIsRun' /\ DepIsNewest'
    BY DEF JobIsRun, Running, DepIsNewest
  <1>4. RowsAreCounted'
    <2>1. Inserted \subseteq Inserted'
      BY DEF Inserted
    <2> QED BY <2>1, InsertedGrows DEF TypeOK, Ids
  <1>5. RowsInOrder' /\ ActiveByStep'
    BY DEF RowsInOrder, HasRow, ActiveByStep
  <1> QED BY <1>1, <1>2, <1>3, <1>4, <1>5

LEMMA CreateProjectIInv == ASSUME IInv, CreateProject PROVE IInv'
  <1> USE DEF IInv, CreateProject, tmVars, jobVars, handlerVars, serverVars, rowVars, diskVars
  <1>1. TMP!IInv'
    BY TmUnchanged
  <1>2. TypeOK'
    BY <1>1, SameTypes DEF TypeOK
  <1>3. JobIsRun' /\ DepIsNewest'
    BY DEF JobIsRun, Running, DepIsNewest
  <1>4. RowsAreCounted'
    <2>1. Inserted \subseteq Inserted'
      BY DEF Inserted
    <2> QED BY <2>1, InsertedGrows DEF TypeOK, Ids
  <1>5. RowsInOrder' /\ ActiveByStep'
    BY DEF RowsInOrder, HasRow, ActiveByStep
  <1> QED BY <1>1, <1>2, <1>3, <1>4, <1>5

(* After a crash nothing is under way.                                       *)
LEMMA CrashIInv == ASSUME IInv, Crash PROVE IInv'
  <1> USE ConstantsAssumption DEF IInv, Crash, rowVars, contentVars, diskVars
  <1>1. TMP!IInv'
    BY DEF TMP!IInv, TMP!IdGiven, TMP!TypeOK, TMP!RunningIsPending, TMP!OwnIdAwaited,
           TMP!ReturnedIsForgotten, TMP!EntryIsSpawned, TMP!SpawnerAwaits, TMP!ReadIsFinished, TMP!Outcomes
  <1>2. TypeOK'
    <2>1. TM!TypeOK'
      BY <1>1, SameTypes
    <2>2. /\ asked' \in [Requests -> {"no", "queued", "checked", "refused", "sent"}]
          /\ step' \in [Requests -> Steps] /\ crashes' \in 0 .. MaxCrashes
      BY DEF TypeOK, Steps
    <2> QED BY <2>1, <2>2 DEF TypeOK, Ids
  <1>3. JobIsRun'
    BY DEF JobIsRun, Running, TMP!IInv, TMP!TypeOK
  <1>4. DepIsNewest'
    BY DEF DepIsNewest, Unnumbered, TypeOK, Ids
  <1>5. RowsAreCounted'
    <2>1. Inserted \subseteq Inserted'
      BY DEF Inserted, TMP!IInv, TMP!TypeOK, TMP!Outcomes
    <2> QED BY <2>1, InsertedGrows DEF TypeOK, Ids
  <1>6. RowsInOrder' /\ ActiveByStep'
    BY DEF RowsInOrder, HasRow, ActiveByStep, Activated, TypeOK, Ids
  <1> QED BY <1>1, <1>2, <1>3, <1>4, <1>5, <1>6

LEMMA RecoveryIInv == ASSUME IInv, Recovery PROVE IInv'
  <1> USE DEF IInv, Recovery, RecoverDirs, RecoverRows, tmVars, jobVars, handlerVars, rowVars, contentVars,
              diskVars, Unfinished, Pending
  <1>1. TMP!IInv'
    BY TmUnchanged
  <1>2. TypeOK'
    BY <1>1, SameTypes DEF TypeOK, NoFiles
  <1> QED BY <1>1, <1>2, HandlerIInv DEF RowsInOrder, HasRow, ActiveByStep, TypeOK
-----------------------------------------------------------------------------
(* The steps of a deployment.                                                *)

LEMMA ActiveIdType == IInv => ActiveId \in active \cup {0} /\ ActiveId \in Nat /\ ActiveId <= lastId
  <1> SUFFICES ASSUME IInv, active # {} PROVE ActiveId \in active /\ ActiveId \in Nat /\ ActiveId <= lastId
    BY DEF ActiveId, IInv, TypeOK, Ids
  <1>1. PICK d \in active : active = {d}
    BY DEF IInv, RowsInOrder
  <1>2. ActiveId = d
    BY <1>1 DEF ActiveId, Max, IInv, TypeOK, Ids
  <1> QED BY <1>1, <1>2 DEF IInv, RowsInOrder, HasRow, TypeOK, Ids

LEMMA RunOrJoinIInv == ASSUME IInv, NEW r \in Requests, RunOrJoin(r) PROVE IInv'
  <1> USE DEF IInv, RunOrJoin, serverVars, rowVars, contentVars, diskVars
  <1>1. TMP!IInv'
    BY TmStep
  <1>2. CASE TM!Join(r, Project) /\ UNCHANGED step
    <2>1. TypeOK'
      BY <1>1, <1>2, SameTypes DEF TypeOK
    <2> QED BY <1>1, <1>2, <2>1, HandlerIInv DEF TM!Join, RowsInOrder, HasRow, ActiveByStep, TypeOK
  <1>3. CASE TM!Spawn(r, Project) /\ step' = [step EXCEPT ![r] = "prev"]
    <2>1. TypeOK'
      BY <1>1, <1>3, SameTypes DEF TypeOK, Steps
    <2>2. run[r] = "none" /\ run' = [run EXCEPT ![r] = "running"]
      BY <1>3 DEF TM!Spawn, TMP!IInv, TMP!SpawnerAwaits
    <2>3. JobIsRun'
      BY <1>3, <2>2 DEF JobIsRun, Running, TMP!IInv, TMP!TypeOK, TypeOK
    <2>4. step[r] = "idle"
      BY <2>2 DEF JobIsRun, Running
    <2>5. RowsAreCounted'
      <3>1. Inserted \subseteq Inserted'
        BY <1>3, <2>2 DEF Inserted, TypeOK, TMP!IInv, TMP!TypeOK
      <3> QED BY <3>1, InsertedGrows DEF TypeOK, Ids
    <2>6. DepIsNewest'
      BY <1>3, <2>4 DEF DepIsNewest, Unnumbered, TypeOK
    <2>7. RowsInOrder' /\ ActiveByStep'
      BY <1>3, <2>4 DEF RowsInOrder, HasRow, ActiveByStep, Activated, TypeOK
    <2> QED BY <1>1, <2>1, <2>3, <2>5, <2>6, <2>7
  <1> QED BY <1>2, <1>3

LEMMA GetPreviousIInv == ASSUME IInv, NEW r \in Requests, GetPrevious(r) PROVE IInv'
  <1> USE DEF IInv, GetPrevious, At, Goto, tmVars, handlerVars, serverVars, rowVars, contentVars, diskVars
  <1>1. TMP!IInv'
    BY TmUnchanged
  <1>2. TypeOK'
    BY <1>1, SameTypes, ActiveIdType DEF TypeOK, Steps
  <1>3. JobIsRun'
    BY DEF JobIsRun, Running, TypeOK
  <1>4. RowsAreCounted'
    <2>1. Inserted \subseteq Inserted'
      BY DEF Inserted, TypeOK
    <2> QED BY <2>1, InsertedGrows DEF TypeOK, Ids
  <1>5. DepIsNewest'
    BY ActiveIdType DEF DepIsNewest, Unnumbered, TypeOK, Ids
  <1>6. RowsInOrder' /\ ActiveByStep'
    BY DEF RowsInOrder, HasRow, ActiveByStep, Activated, TypeOK
  <1> QED BY <1>1, <1>2, <1>3, <1>4, <1>5, <1>6

(* The end of a deployment, at which it has inserted a row if it ever does.  *)
LEMMA EndRunIInv ==
  ASSUME IInv, NEW r \in Requests, NEW o, EndRun(r, o), step[r] # "idle",
         UNCHANGED <<handlerVars, serverVars, rowVars, contentVars>>, TypeOK'
  PROVE  IInv'
  <1> USE DEF IInv, EndRun, handlerVars, serverVars, rowVars, contentVars
  <1>1. TMP!IInv'
    BY TmStep
  <1>2. PICK q \in {"ok", "error"} : run' = [run EXCEPT ![r] = q]
    BY DEF TM!Finish, TM!Outcomes
  <1>3. JobIsRun'
    BY <1>2 DEF JobIsRun, Running, TypeOK, TMP!IInv, TMP!TypeOK
  <1>4. RowsAreCounted'
    <2>1. Inserted \subseteq Inserted'
      BY <1>2 DEF Inserted, TypeOK, TMP!IInv, TMP!TypeOK
    <2> QED BY <2>1, InsertedGrows DEF TypeOK, Ids
  <1>5. DepIsNewest'
    BY DEF DepIsNewest, Unnumbered, TypeOK, Ids
  <1>6. RowsInOrder'
    BY DEF RowsInOrder, HasRow
  <1>7. ActiveByStep'
    BY DEF ActiveByStep, Activated, TypeOK, Ids
  <1> QED BY <1>1, <1>3, <1>4, <1>5, <1>6, <1>7

LEMMA EndRunType ==
  ASSUME IInv, NEW r \in Requests, NEW o, EndRun(r, o)
  PROVE  /\ TM!TypeOK' /\ step' \in [Requests -> Steps]
         /\ dep' \in [Requests -> Ids \cup {0}] /\ prev' \in [Requests -> Ids \cup {0}]
         /\ keep' \in [Requests -> SUBSET Versions] /\ todo' \in [Requests -> SUBSET Versions]
         /\ UNCHANGED cur
  BY TmStep, SameTypes DEF EndRun, IInv, TypeOK, Steps

LEMMA InsertRowIInv == ASSUME IInv, NEW r \in Requests, InsertRow(r) PROVE IInv'
  <1> USE DEF IInv, InsertRow, At
  <1>1. CASE EndRun(r, "error") /\ UNCHANGED <<lastId, status>>
    <2>1. TypeOK'
      BY <1>1, EndRunType DEF TypeOK, handlerVars, serverVars, contentVars, diskVars
    <2> QED BY <1>1, <2>1, EndRunIInv DEF rowVars
  <1>2. CASE registered /\ lastId' = lastId + 1 /\ Goto(r, "dirs")
    <2> USE DEF Goto, tmVars, handlerVars, serverVars, contentVars, diskVars
    <2>1. status' = [status EXCEPT ![lastId + 1] = "created"] /\ dep' = [dep EXCEPT ![r] = lastId + 1]
          /\ UNCHANGED <<prev, keep, todo, cur, active>>
      BY <1>2 DEF EndRun
    <2>2. TMP!IInv'
      BY <1>2, TmUnchanged
    <2>3. RowsAreCounted' /\ lastId + 1 <= Cardinality(Requests)
      <3>1. run[r] # "none" /\ r \notin Inserted
        BY DEF JobIsRun, Running, Inserted
      <3>2. Inserted' = Inserted \cup {r}
        BY <1>2, <3>1 DEF Inserted, TypeOK
      <3>3. Cardinality(Inserted') = Cardinality(Inserted) + 1
        BY <3>1, <3>2, InsertedFinite, FS_AddElement
      <3>4. Inserted' \in SUBSET Requests
        BY DEF Inserted
      <3>5. Cardinality(Inserted') <= Cardinality(Requests)
        BY <3>4, FS_Subset, ConstantsAssumption
      <3> QED BY <1>2, <3>3, <3>5, InsertedFinite DEF RowsAreCounted, TypeOK, Ids
    <2>4. lastId + 1 \in Ids
      BY <2>3, InsertedFinite DEF TypeOK, Ids
    <2>5. TypeOK'
      BY <1>2, <2>1, <2>2, <2>4, SameTypes DEF TypeOK, Steps
    <2>6. JobIsRun'
      BY <1>2 DEF JobIsRun, Running, TypeOK
    <2>7. \A q \in Requests : q # r => step[q] = "idle"
      BY OneJob DEF OneAtATime, Running
    <2>8. DepIsNewest'
      BY <1>2, <2>1, <2>4, <2>7 DEF DepIsNewest, Unnumbered, TypeOK, Ids
    <2>9. RowsInOrder'
      BY <1>2, <2>1, <2>4 DEF RowsInOrder, HasRow, TypeOK, Ids
    <2>10. ActiveByStep'
      BY <1>2, <2>1, <2>4 DEF ActiveByStep, Activated, RowsInOrder, HasRow, TypeOK, Ids
    <2> QED BY <2>2, <2>3, <2>5, <2>6, <2>8, <2>9, <2>10
  <1> QED BY <1>1, <1>2

(* Most steps leave alone what the invariant is about.                       *)
LEMMA NoRowYet == IInv => \A r \in Requests : dep[r] \in Ids <=> step[r] \notin Unnumbered
  BY DEF IInv, DepIsNewest, TypeOK, Ids

LEMMA KeepsRows ==
  ASSUME IInv, NEW r \in Requests, step[r] \notin Unnumbered, NEW s \in {"loading", "success", "error"},
         SetStatus(dep[r], s)
  PROVE  /\ status' \in [Ids -> {"none", "created", "loading", "success", "error"}]
         /\ \A d \in Ids : status'[d] = "none" <=> status[d] = "none"
  BY NoRowYet DEF SetStatus, HasRow, IInv, TypeOK

LEMMA FilesType ==
  ASSUME IInv, NEW d \in Ids, NEW v \in AllVersions, NEW x \in {"partial", "full"}
  PROVE  /\ CopyFiles(d, v, x) => dirs' \subseteq Ids /\ files' \in [Ids -> [AllVersions -> {"absent", "partial", "full"}]]
         /\ EmptyDir(d) => files' \in [Ids -> [AllVersions -> {"absent", "partial", "full"}]]
  <1>1. NoFiles \in [AllVersions -> {"absent", "partial", "full"}]
    BY DEF NoFiles
  <1>2. EmptyDir(d) => files' \in [Ids -> [AllVersions -> {"absent", "partial", "full"}]]
    BY <1>1 DEF EmptyDir, IInv, TypeOK
  <1>3. CopyFiles(d, v, x) => dirs' \subseteq Ids /\ files' \in [Ids -> [AllVersions -> {"absent", "partial", "full"}]]
    BY DEF CopyFiles, IInv, TypeOK
  <1> QED BY <1>2, <1>3

LEMMA MarkLoadingIInv == ASSUME IInv, NEW r \in Requests, MarkLoading(r) PROVE IInv'
  <1> USE DEF IInv, MarkLoading, At, Goto, Fail, tmVars, handlerVars, serverVars, rowVars, contentVars, diskVars
  <1>1. TMP!IInv'
    BY TmUnchanged
  <1>2. TypeOK'
    BY <1>1, SameTypes, NoRowYet, KeepsRows DEF TypeOK, Steps, Unnumbered
  <1> QED BY <1>2, QuietIInv, KeepsRows DEF TypeOK, Steps, Unnumbered, Activated, DepIsNewest

LEMMA CloneIInv == ASSUME IInv, NEW r \in Requests, Clone(r) PROVE IInv'
  <1> USE DEF IInv, Clone, At, Goto, Fail, tmVars, handlerVars, serverVars, rowVars, contentVars, diskVars
  <1>1. TMP!IInv'
    BY TmUnchanged
  <1>2. TypeOK'
    BY <1>1, SameTypes, NoRowYet DEF TypeOK, Steps, Unnumbered
  <1> QED BY <1>2, QuietIInv DEF TypeOK, Steps, Unnumbered, Activated, DepIsNewest

LEMMA SaveRevisionIInv == ASSUME IInv, NEW r \in Requests, SaveRevision(r) PROVE IInv'
  <1> USE DEF IInv, SaveRevision, At, Goto, Fail, tmVars, handlerVars, serverVars, rowVars, contentVars, diskVars
  <1>1. TMP!IInv'
    BY TmUnchanged
  <1>2. TypeOK'
    BY <1>1, SameTypes, NoRowYet DEF TypeOK, Steps, Unnumbered
  <1> QED BY <1>2, QuietIInv DEF TypeOK, Steps, Unnumbered, Activated, DepIsNewest

LEMMA CopyDefaultIInv == ASSUME IInv, NEW r \in Requests, CopyDefault(r) PROVE IInv'
  <1> USE DEF IInv, CopyDefault, At, Goto, Fail, tmVars, handlerVars, serverVars, rowVars, contentVars, diskVars
  <1>1. TMP!IInv'
    BY TmUnchanged
  <1>2. TypeOK'
    <2>1. dirs' \subseteq Ids /\ files' \in [Ids -> [AllVersions -> {"absent", "partial", "full"}]]
      BY NoRowYet, FilesType DEF TypeOK, Unnumbered, AllVersions
    <2> QED BY <1>1, <2>1, SameTypes DEF TypeOK, Steps
  <1> QED BY <1>2, QuietIInv DEF TypeOK, Steps, Unnumbered, Activated, DepIsNewest

LEMMA CommitDefaultIInv == ASSUME IInv, NEW r \in Requests, CommitDefault(r) PROVE IInv'
  <1> USE DEF IInv, CommitDefault, At, Goto, Fail, tmVars, handlerVars, serverVars, rowVars, contentVars, diskVars
  <1>1. TMP!IInv'
    BY TmUnchanged
  <1>2. TypeOK'
    <2>1. vrows' \subseteq AllVersions /\ data' \in [AllVersions -> Ids \cup {0}]
      BY NoRowYet DEF TypeOK, Unnumbered, AllVersions, NoData
    <2>2. keep' \in [Requests -> SUBSET Versions] /\ todo' \in [Requests -> SUBSET Versions]
      <3>1. CASE UNCHANGED <<keep, todo>>
        BY <3>1 DEF TypeOK
      <3>2. ASSUME NEW declared \in SUBSET Versions, NEW other \in SUBSET declared,
                   keep' = [keep EXCEPT ![r] = declared], todo' = [todo EXCEPT ![r] = other]
            PROVE  keep' \in [Requests -> SUBSET Versions] /\ todo' \in [Requests -> SUBSET Versions]
        BY <3>2 DEF TypeOK
      <3> QED BY <3>1, <3>2
    <2> QED BY <1>1, <2>1, <2>2, SameTypes DEF TypeOK, Steps
  <1> QED BY <1>2, QuietIInv DEF TypeOK, Steps, Unnumbered, Activated, DepIsNewest

LEMMA UpdatePlatformsIInv == ASSUME IInv, NEW r \in Requests, UpdatePlatforms(r) PROVE IInv'
  <1> USE DEF IInv, UpdatePlatforms, At, Goto, Fail, tmVars, handlerVars, serverVars, rowVars, contentVars, diskVars
  <1>1. TMP!IInv'
    BY TmUnchanged
  <1>2. TypeOK'
    BY <1>1, SameTypes, NoRowYet DEF TypeOK, Steps, Unnumbered
  <1> QED BY <1>2, QuietIInv DEF TypeOK, Steps, Unnumbered, Activated, DepIsNewest

LEMMA CopyVersionIInv == ASSUME IInv, NEW r \in Requests, CopyVersion(r) PROVE IInv'
  <1> USE DEF IInv, CopyVersion, At, Goto, tmVars, handlerVars, serverVars, rowVars, contentVars, diskVars
  <1>1. UNCHANGED tmVars /\ TMP!IInv'
    BY TmUnchanged
  <1> PICK v \in todo[r] :
        /\ todo' = [todo EXCEPT ![r] = @ \ {v}]
        /\ \/ CopyFiles(dep[r], v, "full") /\ cur' = [cur EXCEPT ![r] = v] /\ step' = [step EXCEPT ![r] = "vcommit"]
           \/ (CopyFiles(dep[r], v, "partial") \/ UNCHANGED <<dirs, files>>) /\ UNCHANGED <<cur, step>>
    OBVIOUS
  <1>2. v \in Versions /\ v \in AllVersions
    BY DEF TypeOK, AllVersions
  <1>3. dirs' \subseteq Ids /\ files' \in [Ids -> [AllVersions -> {"absent", "partial", "full"}]]
    BY <1>2, NoRowYet, FilesType DEF TypeOK, Unnumbered
  <1>4. TypeOK'
    BY <1>1, <1>2, <1>3, SameTypes DEF TypeOK, Steps
  <1>5. step' = [step EXCEPT ![r] = "vcommit"] \/ step' = [step EXCEPT ![r] = step[r]]
    BY DEF TypeOK
  <1>6. \A q \in Requests : step'[q] = "vcommit" => cur'[q] \in Versions
    BY <1>2 DEF TypeOK, DepIsNewest
  <1> QED BY <1>1, <1>4, <1>5, <1>6, QuietIInv DEF TypeOK, Steps, Unnumbered, Activated

LEMMA CommitVersionIInv == ASSUME IInv, NEW r \in Requests, CommitVersion(r) PROVE IInv'
  <1> USE DEF IInv, CommitVersion, At, Goto, Fail, tmVars, handlerVars, serverVars, rowVars, contentVars, diskVars
  <1>1. TMP!IInv'
    BY TmUnchanged
  <1>2. TypeOK'
    BY <1>1, SameTypes, NoRowYet DEF TypeOK, Steps, Unnumbered, AllVersions, DepIsNewest
  <1> QED BY <1>2, QuietIInv DEF TypeOK, Steps, Unnumbered, Activated, DepIsNewest

LEMMA MarkSuccessIInv == ASSUME IInv, NEW r \in Requests, MarkSuccess(r) PROVE IInv'
  <1> USE DEF IInv, MarkSuccess, At, Goto, Fail, tmVars, handlerVars, serverVars, rowVars, contentVars, diskVars
  <1>1. TMP!IInv'
    BY TmUnchanged
  <1>2. TypeOK'
    BY <1>1, SameTypes, NoRowYet, KeepsRows DEF TypeOK, Steps, Unnumbered
  <1> QED BY <1>2, QuietIInv, KeepsRows DEF TypeOK, Steps, Unnumbered, Activated, DepIsNewest

LEMMA PruneIInv == ASSUME IInv, NEW r \in Requests, Prune(r) PROVE IInv'
  <1> USE DEF IInv, Prune, At, Goto, Fail, tmVars, handlerVars, serverVars, rowVars, contentVars, diskVars
  <1>1. TMP!IInv'
    BY TmUnchanged
  <1>2. TypeOK'
    BY <1>1, SameTypes, NoRowYet DEF TypeOK, Steps, Unnumbered, AllVersions
  <1> QED BY <1>2, QuietIInv DEF TypeOK, Steps, Unnumbered, Activated, DepIsNewest

LEMMA RemoveCloneIInv == ASSUME IInv, NEW r \in Requests, RemoveClone(r) PROVE IInv'
  <1> USE DEF IInv, RemoveClone, At, Goto, Fail, tmVars, handlerVars, serverVars, rowVars, contentVars, diskVars
  <1>1. TMP!IInv'
    BY TmUnchanged
  <1>2. TypeOK'
    BY <1>1, SameTypes, NoRowYet DEF TypeOK, Steps, Unnumbered
  <1> QED BY <1>2, QuietIInv DEF TypeOK, Steps, Unnumbered, Activated, DepIsNewest

LEMMA MarkErrorIInv == ASSUME IInv, NEW r \in Requests, MarkError(r) PROVE IInv'
  <1> USE DEF IInv, MarkError, At, Goto, Fail, tmVars, handlerVars, serverVars, rowVars, contentVars, diskVars
  <1>1. TMP!IInv'
    BY TmUnchanged
  <1>2. TypeOK'
    BY <1>1, SameTypes, NoRowYet, KeepsRows DEF TypeOK, Steps, Unnumbered
  <1> QED BY <1>2, QuietIInv, KeepsRows DEF TypeOK, Steps, Unnumbered, Activated, DepIsNewest

LEMMA PrepareDirsIInv == ASSUME IInv, NEW r \in Requests, PrepareDirs(r) PROVE IInv'
  <1> USE DEF IInv, PrepareDirs, At, handlerVars, serverVars, rowVars, contentVars
  <1>1. CASE Goto(r, "loading")
    <2> USE DEF Goto, tmVars
    <2>1. TMP!IInv'
      BY <1>1, TmUnchanged
    <2>2. UNCHANGED <<dep, prev, keep, todo, cur>> /\ dirs' = dirs \cup {dep[r]}
      BY <1>1 DEF EndRun, TypeOK
    <2>3. TypeOK'
      BY <1>1, <2>1, <2>2, SameTypes, NoRowYet DEF TypeOK, Steps, Unnumbered
    <2> QED BY <1>1, <2>2, <2>3, QuietIInv DEF TypeOK, Steps, Unnumbered, Activated, DepIsNewest
  <1>2. CASE EndRun(r, "error") /\ UNCHANGED dirs
    <2>1. TypeOK'
      BY <1>2, EndRunType DEF TypeOK
    <2> QED BY <1>2, <2>1, EndRunIInv
  <1> QED BY <1>1, <1>2

LEMMA RemovePreviousIInv == ASSUME IInv, NEW r \in Requests, RemovePrevious(r) PROVE IInv'
  <1> USE DEF IInv, RemovePrevious, At, handlerVars, serverVars, rowVars, contentVars
  <1>1. files' \in [Ids -> [AllVersions -> {"absent", "partial", "full"}]]
    BY FilesType DEF TypeOK, AllVersions
  <1>2. TypeOK'
    BY <1>1, EndRunType DEF TypeOK
  <1> QED BY <1>2, EndRunIInv

LEMMA ClearDirIInv == ASSUME IInv, NEW r \in Requests, ClearDir(r) PROVE IInv'
  <1> USE DEF IInv, ClearDir, At, handlerVars, serverVars, rowVars, contentVars
  <1>1. files' \in [Ids -> [AllVersions -> {"absent", "partial", "full"}]]
    BY FilesType, NoRowYet DEF TypeOK, AllVersions, Unnumbered
  <1>2. TypeOK'
    BY <1>1, EndRunType DEF TypeOK
  <1> QED BY <1>2, EndRunIInv

(* The two statements of set_active_deployment.                              *)
LEMMA DeactivateIInv == ASSUME IInv, NEW r \in Requests, Deactivate(r) PROVE IInv'
  <1> USE DEF IInv, Deactivate, At, Goto, Fail, tmVars, handlerVars, serverVars, contentVars, diskVars
  <1>1. TMP!IInv'
    BY TmUnchanged
  <1>2. TypeOK'
    BY <1>1, SameTypes DEF TypeOK, Steps
  <1>3. CASE UNCHANGED active /\ step' = [step EXCEPT ![r] = "cleanErr"]
    BY <1>2, <1>3, QuietIInv DEF TypeOK, Steps, Unnumbered, Activated, DepIsNewest
  <1>4. CASE active' = {} /\ step' = [step EXCEPT ![r] = "activate"]
    <2>1. JobIsRun' /\ DepIsNewest'
      BY <1>4 DEF JobIsRun, Running, DepIsNewest, Unnumbered, TypeOK
    <2>2. RowsAreCounted'
      <3>1. Inserted \subseteq Inserted'
        BY <1>4 DEF Inserted, TypeOK
      <3> QED BY <3>1, InsertedGrows DEF TypeOK, Ids
    <2>3. RowsInOrder' /\ ActiveByStep'
      BY <1>4 DEF RowsInOrder, HasRow, ActiveByStep
    <2> QED BY <1>1, <1>2, <2>1, <2>2, <2>3
  <1> QED BY <1>3, <1>4

LEMMA ActivateIInv == ASSUME IInv, NEW r \in Requests, Activate(r) PROVE IInv'
  <1> USE DEF IInv, Activate, At, Goto, Fail, tmVars, handlerVars, serverVars, contentVars, diskVars
  <1>1. TMP!IInv'
    BY TmUnchanged
  <1>2. TypeOK'
    BY <1>1, SameTypes, NoRowYet DEF TypeOK, Steps, Unnumbered
  <1>3. CASE UNCHANGED active /\ step' = [step EXCEPT ![r] = "cleanErr"]
    BY <1>2, <1>3, QuietIInv DEF TypeOK, Steps, Unnumbered, Activated, DepIsNewest
  <1>4. CASE HasRow(dep[r]) /\ active' = {dep[r]} /\ step' = [step EXCEPT ![r] = "success"]
    <2>1. JobIsRun' /\ DepIsNewest'
      BY <1>4 DEF JobIsRun, Running, DepIsNewest, Unnumbered, TypeOK
    <2>2. RowsAreCounted'
      <3>1. Inserted \subseteq Inserted'
        BY <1>4 DEF Inserted, TypeOK
      <3> QED BY <3>1, InsertedGrows DEF TypeOK, Ids
    <2>3. RowsInOrder'
      BY <1>4 DEF RowsInOrder, HasRow
    <2>4. \A q \in Requests : q # r => step[q] = "idle" /\ dep[q] = 0
      BY OneJob DEF OneAtATime, Running, DepIsNewest, Unnumbered
    <2>5. ActiveByStep'
      BY <1>4, <2>4, NoRowYet DEF ActiveByStep, Activated, Unnumbered, TypeOK, Ids
    <2> QED BY <1>1, <1>2, <2>1, <2>2, <2>3, <2>5
  <1> QED BY <1>3, <1>4
-----------------------------------------------------------------------------
LEMMA InitIInv == Init => IInv
  <1> SUFFICES ASSUME Init PROVE IInv
    OBVIOUS
  <1> USE ConstantsAssumption DEF Init
  <1>1. TMP!IInv
    BY DEF TM!Init, TMP!IInv, TMP!IdGiven, TMP!TypeOK, TMP!RunningIsPending, TMP!OwnIdAwaited,
           TMP!ReturnedIsForgotten, TMP!EntryIsSpawned, TMP!SpawnerAwaits, TMP!ReadIsFinished, TMP!Outcomes
  <1>2. TypeOK
    <2>1. data \in [AllVersions -> Ids \cup {0}] /\ files \in [Ids -> [AllVersions -> {"absent", "partial", "full"}]]
      BY DEF NoData, NoFiles
    <2>2. 0 \in 0 .. MaxCrashes
      OBVIOUS
    <2> QED BY <1>1, <2>1, <2>2, SameTypes DEF TypeOK, Steps
  <1>3. JobIsRun /\ DepIsNewest /\ RowsInOrder /\ ActiveByStep
    BY DEF JobIsRun, Running, DepIsNewest, Unnumbered, RowsInOrder, HasRow, ActiveByStep, Activated, TM!Init
  <1>4. RowsAreCounted
    BY InsertedFinite DEF RowsAreCounted
  <1> QED BY <1>1, <1>2, <1>3, <1>4 DEF IInv

LEMMA StutterIInv == IInv /\ UNCHANGED vars => IInv'
  <1> SUFFICES ASSUME IInv, UNCHANGED vars PROVE IInv'
    OBVIOUS
  <1> USE DEF IInv, vars, tmVars, jobVars, handlerVars, serverVars, rowVars, contentVars, diskVars
  <1>1. TMP!IInv'
    BY TmUnchanged
  <1>2. TypeOK'
    BY <1>1, SameTypes DEF TypeOK
  <1> QED BY <1>1, <1>2, HandlerIInv DEF RowsInOrder, HasRow, ActiveByStep, TypeOK

LEMMA JobIInv == ASSUME IInv, NEW r \in Requests, Job(r) PROVE IInv'
  BY GetPreviousIInv, InsertRowIInv, PrepareDirsIInv, MarkLoadingIInv, CloneIInv, SaveRevisionIInv,
     CopyDefaultIInv, CommitDefaultIInv, UpdatePlatformsIInv, CopyVersionIInv, CommitVersionIInv,
     DeactivateIInv, ActivateIInv, MarkSuccessIInv, PruneIInv, RemoveCloneIInv, RemovePreviousIInv,
     MarkErrorIInv, ClearDirIInv DEF Job

LEMMA NextIInv == IInv /\ [Next]_vars => IInv'
  <1> SUFFICES ASSUME IInv, [Next]_vars PROVE IInv'
    OBVIOUS
  <1>1. CASE UNCHANGED vars
    BY <1>1, StutterIInv
  <1>2. ASSUME NEW r \in Requests,
               EnqueueDeploy(r) \/ DeployProject(r) \/ CheckDeploying(r) \/ RunOrJoin(r) \/ Return(r) \/ Job(r)
        PROVE  IInv'
    BY <1>2, AskIInv, RunOrJoinIInv, ReturnIInv, JobIInv
  <1>3. CASE DeleteDeployment \/ RemoveProjectDir \/ \E d \in Ids : LookupDeployment(d)
    BY <1>3, DeletionIInv
  <1>4. CASE RemoveProject \/ CreateProject \/ Crash \/ Recovery
    BY <1>4, RemoveProjectIInv, CreateProjectIInv, CrashIInv, RecoveryIInv
  <1> QED BY <1>1, <1>2, <1>3, <1>4 DEF Next, Done

(* The invariant that all theorems rest on.                                  *)
THEOREM InductiveInvariant == Spec => []IInv
  BY InitIInv, NextIInv, PTL DEF Spec

(* The variables of Deployment always hold values of their types; no more    *)
(* rows are inserted than deployments are asked for.                         *)
THEOREM TypeCorrect == Spec => []TypeOK
  BY InductiveInvariant, PTL DEF IInv

(* Two deployments of the project are never under way at once.               *)
THEOREM OneAtATimeHolds == Spec => []OneAtATime
  BY OneJob, InductiveInvariant, PTL

(* The unique index on the active row is never hit.                          *)
THEOREM IndexNeverHitHolds == Spec => []IndexNeverHit
  <1>1. IInv => IndexNeverHit
    BY DEF IInv, ActiveByStep, IndexNeverHit
  <1> QED BY <1>1, InductiveInvariant, PTL
-----------------------------------------------------------------------------
(* Publication.                                                              *)
LEMMA MaxOfOne == ASSUME NEW d \in Nat PROVE Max({d}) = d
  BY DEF Max

LEMMA InitRefines == Init => Pub!Init
  BY DEF Init, Pub!Init, ActiveId

(* What takes rows away withdraws the publication, or does nothing to it.    *)
LEMMA WithdrawRefines ==
  ASSUME IInv, IInv', UNCHANGED lastId, active' \subseteq active PROVE [Pub!Next]_(Pub!vars)
  <1>1. CASE active' = active
    BY <1>1 DEF Pub!vars, ActiveId
  <1>2. CASE active' # active
    <2>1. PICK d \in active : active = {d}
      BY <1>2 DEF IInv, RowsInOrder
    <2>2. active' = {}
      BY <1>2, <2>1
    <2>3. d \in Nat /\ d # 0
      BY DEF IInv, TypeOK, Ids
    <2>4. ActiveId = d /\ ActiveId' = 0
      BY <2>1, <2>2, <2>3, MaxOfOne DEF ActiveId
    <2> QED BY <2>3, <2>4 DEF Pub!Next, Pub!Withdraw
  <1> QED BY <1>1, <1>2

LEMMA IssueRefines == ASSUME IInv, NEW r \in Requests, InsertRow(r) PROVE [Pub!Next]_(Pub!vars)
  <1>1. CASE lastId' = lastId + 1 /\ UNCHANGED active
    BY <1>1 DEF Pub!Next, Pub!Issue, ActiveId
  <1>2. CASE UNCHANGED <<lastId, active>>
    BY <1>2 DEF Pub!vars, ActiveId
  <1> QED BY <1>1, <1>2 DEF InsertRow

LEMMA PublishRefines == ASSUME IInv, NEW r \in Requests, Activate(r) PROVE [Pub!Next]_(Pub!vars)
  <1>1. CASE UNCHANGED <<lastId, active>>
    BY <1>1 DEF Pub!vars, ActiveId
  <1>2. CASE active = {} /\ active' = {dep[r]} /\ UNCHANGED lastId
    <2>1. dep[r] = lastId /\ lastId # 0 /\ lastId \in Nat
      BY DEF Activate, At, IInv, DepIsNewest, Unnumbered, TypeOK, Ids
    <2>2. ActiveId = 0 /\ ActiveId' = lastId
      BY <1>2, <2>1, MaxOfOne DEF ActiveId
    <2> QED BY <1>2, <2>1, <2>2 DEF Pub!Next, Pub!Publish
  <1> QED BY <1>1, <1>2 DEF Activate

(* No other step has to do with rows.                                        *)
LEMMA OtherJobsKeepRows ==
  ASSUME NEW r \in Requests, Job(r) PROVE InsertRow(r) \/ Deactivate(r) \/ Activate(r) \/ UNCHANGED <<lastId, active>>
  <1> USE DEF rowVars
  <1>1. CASE GetPrevious(r) \/ PrepareDirs(r) \/ MarkLoading(r) \/ Clone(r) \/ SaveRevision(r)
    BY <1>1 DEF GetPrevious, PrepareDirs, MarkLoading, Clone, SaveRevision
  <1>2. CASE CopyDefault(r) \/ CommitDefault(r) \/ UpdatePlatforms(r) \/ CopyVersion(r) \/ CommitVersion(r)
    BY <1>2 DEF CopyDefault, CommitDefault, UpdatePlatforms, CopyVersion, CommitVersion
  <1>3. CASE MarkSuccess(r) \/ Prune(r) \/ RemoveClone(r) \/ RemovePrevious(r) \/ MarkError(r) \/ ClearDir(r)
    BY <1>3 DEF MarkSuccess, Prune, RemoveClone, RemovePrevious, MarkError, ClearDir
  <1> QED BY <1>1, <1>2, <1>3 DEF Job

LEMMA NextRefines == IInv /\ IInv' /\ [Next]_vars => [Pub!Next]_(Pub!vars)
  <1> SUFFICES ASSUME IInv, IInv', [Next]_vars PROVE [Pub!Next]_(Pub!vars)
    OBVIOUS
  <1>1. CASE UNCHANGED vars
    BY <1>1, WithdrawRefines DEF vars, rowVars
  <1>2. ASSUME NEW r \in Requests, Job(r) PROVE [Pub!Next]_(Pub!vars)
    <2>1. Deactivate(r) => UNCHANGED lastId /\ active' \subseteq active
      BY DEF Deactivate
    <2> QED BY <1>2, <2>1, OtherJobsKeepRows, IssueRefines, PublishRefines, WithdrawRefines
  <1>3. ASSUME NEW r \in Requests,
               EnqueueDeploy(r) \/ DeployProject(r) \/ CheckDeploying(r) \/ RunOrJoin(r) \/ Return(r)
        PROVE  UNCHANGED <<lastId, active>>
    BY <1>3 DEF EnqueueDeploy, DeployProject, CheckDeploying, RunOrJoin, Return, rowVars
  <1>4. (\E d \in Ids : LookupDeployment(d)) \/ RemoveProjectDir \/ CreateProject \/ Crash \/ Recovery
        => UNCHANGED <<lastId, active>>
    BY DEF LookupDeployment, RemoveProjectDir, CreateProject, Crash, Recovery, RecoverDirs, RecoverRows, rowVars
  <1>5. DeleteDeployment \/ RemoveProject => UNCHANGED lastId /\ active' \subseteq active
    BY DEF DeleteDeployment, RemoveProject
  <1> QED BY <1>1, <1>2, <1>3, <1>4, <1>5, WithdrawRefines DEF Next, Done

(* The deployments of a project implement Publication: a publication is      *)
(* withdrawn before the next, and only the newest deployment is published.   *)
THEOREM Implements == Spec => ImplementsPublication
  BY InitRefines, NextRefines, InductiveInvariant, PTL DEF Spec, ImplementsPublication, Pub!Spec
-----------------------------------------------------------------------------
(* A deployment withdraws what is served by one statement only, and keeps    *)
(* its default version whole.                                                *)
LEMMA JobKeepsServed ==
  ASSUME IInv, NEW r \in Requests, Job(r), NEW d \in active, step'[r] # "activate"
  PROVE  d \in active' /\ (Served(d) => Served(d)')
  <1> USE DEF Served
  <1>0. d \in Ids /\ Default \notin Versions
    BY ConstantsAssumption DEF IInv, TypeOK
  <1>1. CASE GetPrevious(r) \/ InsertRow(r) \/ MarkLoading(r) \/ Clone(r) \/ SaveRevision(r)
    BY <1>1 DEF GetPrevious, InsertRow, MarkLoading, Clone, SaveRevision, rowVars, diskVars
  <1>2. CASE PrepareDirs(r)
    BY <1>2 DEF PrepareDirs, rowVars
  <1>3. CASE CommitDefault(r) \/ UpdatePlatforms(r) \/ CommitVersion(r)
    BY <1>3 DEF CommitDefault, UpdatePlatforms, CommitVersion, rowVars, diskVars
  <1>4. CASE MarkSuccess(r) \/ Prune(r) \/ RemoveClone(r) \/ MarkError(r)
    BY <1>4 DEF MarkSuccess, Prune, RemoveClone, MarkError, rowVars, diskVars
  <1>5. CASE CopyDefault(r)
    <2>1. d # dep[r]
      BY <1>5 DEF CopyDefault, At, IInv, ActiveByStep, Activated
    <2> QED BY <1>0, <1>5, <2>1 DEF CopyDefault, CopyFiles, rowVars, IInv, TypeOK
  <1>6. CASE CopyVersion(r)
    <2>1. PICK v \in todo[r] : CopyFiles(dep[r], v, "full") \/ CopyFiles(dep[r], v, "partial") \/ UNCHANGED <<dirs, files>>
      BY <1>6 DEF CopyVersion
    <2>2. v # Default
      BY <1>0 DEF IInv, TypeOK
    <2>3. d \in active'
      BY <1>6 DEF CopyVersion, rowVars
    <2>4. ASSUME NEW x, CopyFiles(dep[r], v, x) PROVE Served(d) => Served(d)'
      BY <1>0, <2>2, <2>4 DEF CopyFiles, IInv, TypeOK
    <2> QED BY <2>1, <2>3, <2>4
  <1>7. CASE Deactivate(r)
    BY <1>7 DEF Deactivate, At, Goto, diskVars, IInv, TypeOK
  <1>8. CASE Activate(r)
    BY <1>8 DEF Activate, At, IInv, ActiveByStep
  <1>9. CASE RemovePrevious(r)
    <2>1. d = dep[r] /\ prev[r] # d
      BY <1>9 DEF RemovePrevious, At, IInv, ActiveByStep, Activated, DepIsNewest, Unnumbered, TypeOK, Ids
    <2> QED BY <1>0, <1>9, <2>1 DEF RemovePrevious, EmptyDir, rowVars, IInv, TypeOK
  <1>10. CASE ClearDir(r)
    <2>1. d # dep[r]
      BY <1>10 DEF ClearDir, At, IInv, ActiveByStep, Activated
    <2> QED BY <1>0, <1>10, <2>1 DEF ClearDir, EmptyDir, rowVars, IInv, TypeOK
  <1> QED BY <1>1, <1>2, <1>3, <1>4, <1>5, <1>6, <1>7, <1>8, <1>9, <1>10 DEF Job

(* No step of a deployment but the first statement of set_active_deployment  *)
(* takes the served deployment from its readers, whether it fails or not.    *)
THEOREM FailureKeepsPreviousHolds == Spec => FailureKeepsPrevious
  <1>1. IInv /\ [Next]_vars =>
          [\A r \in Requests : Job(r) /\ step'[r] # "activate" =>
             \A d \in active : Served(d) => d \in active' /\ Served(d)']_vars
    BY JobKeepsServed
  <1> QED BY <1>1, InductiveInvariant, PTL DEF Spec, FailureKeepsPrevious
-----------------------------------------------------------------------------
(* What is served is complete.  A step keeps it if it takes no file from     *)
(* what is active or about to be, and makes nothing active.                  *)
LEMMA KeepsFilesInv ==
  ASSUME IInv, FilesInv, UNCHANGED <<removing, registered, phase>>, active' \subseteq active,
         Up \/ UNCHANGED step,
         \A q \in Requests : step'[q] \in Copied => step[q] \in Copied /\ dep'[q] = dep[q],
         \A q \in Requests : step'[q] \in Copied /\ HasRow(dep[q]) => (Served(dep[q]) => Served(dep[q])'),
         \A q \in Requests : step'[q] \in Copied => (HasRow(dep[q])' => HasRow(dep[q])),
         \A d \in active' : Served(d) => Served(d)',
         \A d \in active' : status'[d] = status[d]
  PROVE  FilesInv'
  <1>1. RemovedForGood'
    BY DEF FilesInv, RemovedForGood
  <1>2. CopiedIsServed'
    BY DEF FilesInv, CopiedIsServed, HasRow, Served
  <1>3. ActiveIsServed'
    BY DEF FilesInv, ActiveIsServed, Served, Up
  <1>4. RecoveryIsAlone'
    BY DEF FilesInv, RecoveryIsAlone, Up
  <1> QED BY <1>1, <1>2, <1>3, <1>4 DEF FilesInv

LEMMA HandlersKeepFilesInv ==
  ASSUME IInv, FilesInv, NEW r \in Requests,
         EnqueueDeploy(r) \/ DeployProject(r) \/ CheckDeploying(r) \/ RunOrJoin(r) \/ Return(r)
  PROVE  FilesInv'
  <1>1. UNCHANGED <<removing, registered, phase, active, dep, status, dirs, files>>
    BY DEF EnqueueDeploy, DeployProject, CheckDeploying, RunOrJoin, Return, jobVars, handlerVars, serverVars,
           rowVars, contentVars, diskVars
  <1>2. \A q \in Requests : step'[q] = step[q] \/ step'[q] = "prev"
    BY DEF EnqueueDeploy, DeployProject, CheckDeploying, RunOrJoin, Return, jobVars, IInv, TypeOK
  <1>3. Up \/ UNCHANGED step
    BY DEF EnqueueDeploy, DeployProject, CheckDeploying, RunOrJoin, Return
  <1> QED BY <1>1, <1>2, <1>3, KeepsFilesInv DEF Copied, Committed, HasRow, Served

LEMMA DeletionsKeepFilesInv ==
  ASSUME IInv, FilesInv, NotReborn,
         DeleteDeployment \/ (\E d \in Ids : LookupDeployment(d)) \/ RemoveProject \/ RemoveProjectDir \/ CreateProject
  PROVE  FilesInv'
  <1> USE DEF jobVars, serverVars, rowVars, contentVars, diskVars, handlerVars
  <1>1. CASE DeleteDeployment
    BY <1>1, KeepsFilesInv DEF DeleteDeployment, HasRow, Served, IInv, TypeOK
  <1>2. CASE \E d \in Ids : LookupDeployment(d)
    BY <1>2, KeepsFilesInv DEF LookupDeployment, HasRow, Served
  <1>3. CASE RemoveProject
    BY <1>3 DEF RemoveProject, FilesInv, RemovedForGood, CopiedIsServed, ActiveIsServed, RecoveryIsAlone,
                Up, HasRow, IInv, DepIsNewest,
                Unnumbered, Copied, Committed, TypeOK, Ids
  <1>4. CASE RemoveProjectDir
    <2>1. ~registered /\ active = {}
      BY <1>4 DEF RemoveProjectDir, FilesInv, RemovedForGood, IInv, RowsInOrder, HasRow, TypeOK
    <2> QED BY <1>4, <2>1, NoRowYet DEF RemoveProjectDir, FilesInv, RemovedForGood, CopiedIsServed, ActiveIsServed,
               RecoveryIsAlone, Up, HasRow, IInv, RowsInOrder, Unnumbered, Copied, Committed
  <1>5. ~CreateProject
    BY DEF NotReborn, CreateProject, FilesInv, RemovedForGood
  <1> QED BY <1>1, <1>2, <1>3, <1>4, <1>5

LEMMA RestartKeepsFilesInv == ASSUME IInv, FilesInv, Crash \/ Recovery PROVE FilesInv'
  <1> USE DEF FilesInv, jobVars, handlerVars, rowVars, contentVars, diskVars
  <1>1. CASE Crash
    BY <1>1 DEF Crash, RemovedForGood, CopiedIsServed, ActiveIsServed, RecoveryIsAlone, Copied, Committed, Served,
                Up
  <1>2. ASSUME Recovery PROVE RemovedForGood' /\ CopiedIsServed' /\ RecoveryIsAlone'
    <2>1. UNCHANGED <<step, removing, registered>> /\ \A q \in Requests : step[q] = "idle"
      BY <1>2 DEF Recovery, RecoverDirs, RecoverRows, RecoveryIsAlone, Up
    <2> QED BY <2>1 DEF RemovedForGood, CopiedIsServed, RecoveryIsAlone, Copied, Committed
  <1>3. CASE RecoverDirs
    <2>1. ASSUME NEW d \in active', status'[d] \notin {"error", "created", "loading"} PROVE Served(d)'
      <3>1. d \notin Unfinished /\ d \in Ids
        BY <1>3, <2>1 DEF RecoverDirs, Unfinished, Pending, IInv, TypeOK
      <3>2. Served(d)
        BY <1>3, <2>1 DEF RecoverDirs, ActiveIsServed, Pending, Up
      <3> QED BY <1>3, <3>1, <3>2 DEF RecoverDirs, Served
    <2>2. ActiveIsServed'
      BY <1>3, <2>1 DEF RecoverDirs, ActiveIsServed, Pending, Up, IInv, TypeOK
    <2> QED BY <1>2, <1>3, <2>2 DEF Recovery
  <1>4. CASE RecoverRows
    <2>1. ActiveIsServed'
      BY <1>4 DEF RecoverRows, ActiveIsServed, Up, Unfinished, Pending, Served, IInv, TypeOK
    <2> QED BY <1>2, <1>4, <2>1 DEF Recovery
  <1> QED BY <1>1, <1>3, <1>4 DEF Recovery

LEMMA CopyVersionKeepsServed ==
  ASSUME IInv, NEW r \in Requests, CopyVersion(r), NEW d \in Ids, Served(d) PROVE Served(d)'
  <1>1. PICK v \in todo[r] : CopyFiles(dep[r], v, "full") \/ CopyFiles(dep[r], v, "partial") \/ UNCHANGED <<dirs, files>>
    BY DEF CopyVersion
  <1>2. v # Default
    BY ConstantsAssumption DEF IInv, TypeOK
  <1>3. ASSUME NEW x, CopyFiles(dep[r], v, x) PROVE Served(d)'
    BY <1>2, <1>3 DEF CopyFiles, Served, IInv, TypeOK
  <1> QED BY <1>1, <1>3 DEF Served

LEMMA JobsKeepFilesInv == ASSUME IInv, FilesInv, NEW r \in Requests, Job(r) PROVE FilesInv'
  <1> USE DEF At, handlerVars, serverVars, rowVars, contentVars, diskVars
  <1>1. step[r] # "idle" /\ Up /\ \A q \in Requests : q # r => step[q] = "idle"
    <2>1. step[r] # "idle" /\ Up
      BY DEF Job, GetPrevious, InsertRow, PrepareDirs, MarkLoading, Clone, SaveRevision, CopyDefault, CommitDefault,
             UpdatePlatforms, CopyVersion, CommitVersion, Deactivate, Activate, MarkSuccess, Prune, RemoveClone,
             RemovePrevious, MarkError, ClearDir
    <2> QED BY <2>1, OneJob DEF OneAtATime, Running
  <1>2. UNCHANGED <<removing, registered, phase>>
    BY DEF Job, GetPrevious, InsertRow, PrepareDirs, MarkLoading, Clone, SaveRevision, CopyDefault, CommitDefault,
           UpdatePlatforms, CopyVersion, CommitVersion, Deactivate, Activate, MarkSuccess, Prune, RemoveClone,
           RemovePrevious, MarkError, ClearDir
  <1>3. \A q \in Requests : q # r => step'[q] \notin Copied
    <2>1. \A q \in Requests : q # r => step'[q] = step[q]
      BY DEF Job, GetPrevious, InsertRow, PrepareDirs, MarkLoading, Clone, SaveRevision, CopyDefault, CommitDefault,
           UpdatePlatforms, CopyVersion, CommitVersion, Deactivate, Activate, MarkSuccess, Prune, RemoveClone,
           RemovePrevious, MarkError, ClearDir, Goto, Fail, EndRun, IInv, TypeOK
    <2> QED BY <1>1, <2>1 DEF Copied, Committed
  <1>4. RemovedForGood' /\ RecoveryIsAlone'
    BY <1>1, <1>2 DEF FilesInv, RemovedForGood, RecoveryIsAlone, Up
  <1>5. ASSUME step'[r] \in Copied, HasRow(dep[r])' PROVE Served(dep[r])'
    <2>1. CASE CopyDefault(r)
      <3>1. dep[r] \in Ids
        BY <2>1, NoRowYet DEF CopyDefault, Unnumbered
      <3>2. CopyFiles(dep[r], Default, "full")
        BY <1>5, <2>1 DEF CopyDefault, Goto, Fail, Copied, Committed, IInv, TypeOK
      <3> QED BY <2>1, <3>1, <3>2 DEF CopyDefault, CopyFiles, Served, IInv, TypeOK, AllVersions
    <2>2. CASE CommitDefault(r) \/ UpdatePlatforms(r) \/ CommitVersion(r) \/ Deactivate(r) \/ Activate(r)
      <3>1. step[r] \in Copied /\ UNCHANGED <<status, dep, dirs, files>>
        BY <2>2 DEF CommitDefault, UpdatePlatforms, CommitVersion, Deactivate, Activate, Copied, Committed
      <3> QED BY <1>5, <3>1 DEF FilesInv, CopiedIsServed, HasRow, Served
    <2>3. CASE CopyVersion(r)
      <3>1. step[r] \in Copied /\ UNCHANGED <<status, dep>> /\ dep[r] \in Ids
        BY <2>3, NoRowYet DEF CopyVersion, Copied, Committed, Unnumbered
      <3>2. Served(dep[r])
        BY <1>5, <3>1 DEF FilesInv, CopiedIsServed, HasRow
      <3> QED BY <2>3, <3>1, <3>2, CopyVersionKeepsServed DEF Served
    <2>4. ~(GetPrevious(r) \/ InsertRow(r) \/ PrepareDirs(r) \/ MarkLoading(r) \/ Clone(r) \/ SaveRevision(r))
      BY <1>5 DEF GetPrevious, InsertRow, PrepareDirs, MarkLoading, Clone, SaveRevision, Goto, Fail, EndRun, Copied,
             Committed, IInv, TypeOK
    <2>5. ~(MarkSuccess(r) \/ Prune(r) \/ RemoveClone(r) \/ RemovePrevious(r) \/ MarkError(r) \/ ClearDir(r))
      BY <1>5 DEF MarkSuccess, Prune, RemoveClone, RemovePrevious, MarkError, ClearDir, Goto, Fail, EndRun, Copied,
             Committed, IInv, TypeOK
    <2> QED BY <2>1, <2>2, <2>3, <2>4, <2>5 DEF Job
  <1>6. CopiedIsServed'
    BY <1>3, <1>5 DEF CopiedIsServed
  <1>7. ASSUME NEW d \in active', status'[d] # "error" PROVE Served(d)'
    <2>1. CASE Activate(r)
      <3>1. d = dep[r] /\ HasRow(dep[r]) /\ step[r] \in Copied /\ UNCHANGED <<dirs, files>>
        BY <1>7, <2>1 DEF Activate, IInv, ActiveByStep, Copied, Committed
      <3> QED BY <3>1 DEF FilesInv, CopiedIsServed, Served
    <2>2. CASE Deactivate(r)
      <3>1. d \in active /\ status[d] # "error" /\ UNCHANGED <<dirs, files>>
        BY <1>7, <2>2 DEF Deactivate
      <3> QED BY <1>1, <3>1 DEF FilesInv, ActiveIsServed, Served
    <2>3. CASE ~Activate(r) /\ ~Deactivate(r)
      <3>1. step'[r] # "activate" /\ d \in active
        <4>1. step'[r] # "activate"
          BY <1>1, <2>3 DEF Job, GetPrevious, InsertRow, PrepareDirs, MarkLoading, Clone, SaveRevision, CopyDefault,
             CommitDefault, UpdatePlatforms, CopyVersion, CommitVersion, MarkSuccess, Prune, RemoveClone,
             RemovePrevious, MarkError, ClearDir, Goto, Fail, EndRun, IInv, TypeOK
        <4> QED BY <1>7, <2>3, <4>1, OtherJobsKeepRows DEF InsertRow
      <3>2. Served(d)
        <4>1. CASE MarkSuccess(r)
          <5>1. d = dep[r] /\ HasRow(d) /\ step[r] \in Copied
            BY <3>1, <4>1 DEF MarkSuccess, Copied, IInv, ActiveByStep, Activated, RowsInOrder
          <5> QED BY <5>1 DEF FilesInv, CopiedIsServed
        <4>2. CASE ~MarkSuccess(r)
          <5>1. ASSUME MarkLoading(r) \/ MarkError(r) PROVE status'[d] = status[d]
            <6>1. d # dep[r]
              BY <3>1, <5>1 DEF MarkLoading, MarkError, IInv, ActiveByStep, Activated
            <6> QED BY <3>1, <5>1, <6>1 DEF MarkLoading, MarkError, SetStatus, IInv, TypeOK
          <5>2. ASSUME InsertRow(r) PROVE status'[d] = status[d]
            <6>1. d \in Ids /\ d <= lastId /\ lastId \in Nat
              BY <3>1 DEF IInv, RowsInOrder, HasRow, TypeOK, Ids
            <6>2. d # lastId + 1
              BY <6>1 DEF Ids
            <6>3. UNCHANGED status \/ status' = [status EXCEPT ![lastId + 1] = "created"]
              BY <5>2 DEF InsertRow
            <6> QED BY <6>1, <6>2, <6>3 DEF IInv, TypeOK
          <5>3. ASSUME ~MarkLoading(r), ~MarkError(r), ~InsertRow(r) PROVE status'[d] = status[d]
            BY <4>2, <5>3 DEF Job, GetPrevious, PrepareDirs, Clone, SaveRevision, CopyDefault,
               CommitDefault, UpdatePlatforms, CopyVersion, CommitVersion, Deactivate, Activate, Prune, RemoveClone,
               RemovePrevious, ClearDir
          <5> QED BY <1>1, <1>7, <3>1, <5>1, <5>2, <5>3 DEF FilesInv, ActiveIsServed
        <4> QED BY <4>1, <4>2
      <3> QED BY <3>1, <3>2, JobKeepsServed
    <2> QED BY <2>1, <2>2, <2>3
  <1>8. ActiveIsServed'
    BY <1>7 DEF ActiveIsServed
  <1> QED BY <1>4, <1>6, <1>8 DEF FilesInv

LEMMA InitFilesInv == Init => FilesInv
  BY ConstantsAssumption DEF Init, FilesInv, RemovedForGood, CopiedIsServed, ActiveIsServed, RecoveryIsAlone, Copied, Committed, Up

LEMMA NextFilesInv == NotReborn /\ IInv /\ FilesInv /\ [Next]_vars => FilesInv'
  <1> SUFFICES ASSUME NotReborn, IInv, FilesInv, [Next]_vars PROVE FilesInv'
    OBVIOUS
  <1>1. CASE UNCHANGED vars
    BY <1>1, KeepsFilesInv DEF vars, jobVars, handlerVars, serverVars, rowVars, contentVars, diskVars, HasRow, Served
  <1>2. ASSUME NEW r \in Requests,
               EnqueueDeploy(r) \/ DeployProject(r) \/ CheckDeploying(r) \/ RunOrJoin(r) \/ Return(r) \/ Job(r)
        PROVE  FilesInv'
    BY <1>2, HandlersKeepFilesInv, JobsKeepFilesInv
  <1>3. CASE DeleteDeployment \/ (\E d \in Ids : LookupDeployment(d)) \/ RemoveProject \/ RemoveProjectDir \/ CreateProject
    BY <1>3, DeletionsKeepFilesInv
  <1>4. CASE Crash \/ Recovery
    BY <1>4, RestartKeepsFilesInv
  <1> QED BY <1>1, <1>2, <1>3, <1>4 DEF Next, Done

(* Whoever is sent to the active deployment finds its default version whole, *)
(* for a project that is not registered again after its removal.             *)
THEOREM ServedIsCompleteHolds == ASSUME NotReborn PROVE Spec => []ServedIsComplete
  <1>1. FilesInv => ServedIsComplete
    BY DEF FilesInv, ActiveIsServed, ServedIsComplete
  <1>2. IInv /\ FilesInv /\ [Next]_vars => FilesInv'
    BY NextFilesInv
  <1> QED BY <1>1, <1>2, InitFilesInv, InductiveInvariant, PTL DEF Spec
-----------------------------------------------------------------------------
(* The data.                                                                 *)
LEMMA KeepsDataInv ==
  ASSUME IInv, DataInv, UNCHANGED <<data, vrows>>, registered' => registered, active' \subseteq active,
         \A q \in Requests : step'[q] \in Committed => step[q] \in Committed /\ dep'[q] = dep[q]
  PROVE  DataInv'
  BY DEF DataInv, CommittedIsData, OneGeneration

LEMMA HandlersKeepDataInv ==
  ASSUME IInv, DataInv, NEW r \in Requests,
         EnqueueDeploy(r) \/ DeployProject(r) \/ CheckDeploying(r) \/ RunOrJoin(r) \/ Return(r)
  PROVE  DataInv'
  <1>1. UNCHANGED <<data, vrows, registered, active, dep>>
    BY DEF EnqueueDeploy, DeployProject, CheckDeploying, RunOrJoin, Return, jobVars, rowVars, contentVars
  <1>2. \A q \in Requests : step'[q] = step[q] \/ step'[q] = "prev"
    BY DEF EnqueueDeploy, DeployProject, CheckDeploying, RunOrJoin, Return, jobVars, IInv, TypeOK
  <1> QED BY <1>1, <1>2, KeepsDataInv DEF Committed

LEMMA OthersKeepDataInv ==
  ASSUME IInv, FilesInv, DataInv, NotReborn,
         DeleteDeployment \/ (\E d \in Ids : LookupDeployment(d)) \/ RemoveProject \/ RemoveProjectDir
         \/ CreateProject \/ Crash \/ Recovery
  PROVE  DataInv'
  <1> USE DEF jobVars, rowVars, contentVars
  <1>1. CASE RemoveProject
    BY <1>1 DEF RemoveProject, DataInv, CommittedIsData, OneGeneration, NoData, AllVersions
  <1>2. CASE Crash
    BY <1>2, KeepsDataInv DEF Crash, Committed
  <1>3. CASE DeleteDeployment \/ (\E d \in Ids : LookupDeployment(d)) \/ RemoveProjectDir \/ Recovery
    BY <1>3, KeepsDataInv DEF DeleteDeployment, LookupDeployment, RemoveProjectDir, Recovery, RecoverDirs, RecoverRows
  <1>4. ~CreateProject
    BY DEF NotReborn, CreateProject, FilesInv, RemovedForGood
  <1> QED BY <1>1, <1>2, <1>3, <1>4

LEMMA JobsKeepDataInv == ASSUME IInv, DataInv, NEW r \in Requests, Job(r) PROVE DataInv'
  <1> USE DEF At, Goto, Fail, rowVars, contentVars
  <1>1. \A q \in Requests : q # r => step[q] = "idle" \/ step[r] = "idle"
    BY OneJob DEF OneAtATime, Running
  <1>2. CASE GetPrevious(r) \/ InsertRow(r) \/ PrepareDirs(r) \/ MarkLoading(r) \/ Clone(r) \/ SaveRevision(r) \/ CopyDefault(r)
    <2>1. UNCHANGED <<data, vrows, registered, active>>
      BY <1>2 DEF GetPrevious, InsertRow, PrepareDirs, MarkLoading, Clone, SaveRevision, CopyDefault
    <2>2. \A q \in Requests : step'[q] \in Committed => step'[q] = step[q] /\ dep'[q] = dep[q]
      BY <1>2 DEF GetPrevious, InsertRow, PrepareDirs, MarkLoading, Clone, SaveRevision, CopyDefault, EndRun, Committed,
                  IInv, TypeOK
    <2> QED BY <2>1, <2>2, KeepsDataInv
  <1>3. CASE MarkSuccess(r) \/ RemoveClone(r) \/ RemovePrevious(r) \/ MarkError(r) \/ ClearDir(r)
    <2>1. UNCHANGED <<data, vrows, registered, active>>
      BY <1>3 DEF MarkSuccess, RemoveClone, RemovePrevious, MarkError, ClearDir
    <2>2. \A q \in Requests : step'[q] \in Committed => step'[q] = step[q] /\ dep'[q] = dep[q]
      BY <1>3 DEF MarkSuccess, RemoveClone, RemovePrevious, MarkError, ClearDir, EndRun, Committed, IInv, TypeOK
    <2> QED BY <2>1, <2>2, KeepsDataInv
  <1>4. CASE UpdatePlatforms(r) \/ CopyVersion(r) \/ Deactivate(r)
    <2>1. UNCHANGED <<data, vrows, registered, dep>> /\ active' \subseteq active
      BY <1>4 DEF UpdatePlatforms, CopyVersion, Deactivate
    <2>2. \A q \in Requests : step'[q] \in Committed => step[q] \in Committed
      BY <1>4 DEF UpdatePlatforms, CopyVersion, Deactivate, Committed, IInv, TypeOK
    <2> QED BY <2>1, <2>2, KeepsDataInv
  <1>5. CASE CommitDefault(r)
    <2>1. CASE UNCHANGED <<vrows, data>> /\ step' = [step EXCEPT ![r] = "cleanErr"]
      BY <1>5, <2>1, KeepsDataInv DEF CommitDefault, Committed, IInv, TypeOK
    <2>2. CASE /\ vrows' = vrows \cup {Default}
               /\ data' = IF HasModid THEN [NoData EXCEPT ![Default] = dep[r]] ELSE data
      <3>1. dep[r] = lastId /\ \A d \in active : d <= lastId
        BY <1>5 DEF CommitDefault, IInv, DepIsNewest, Unnumbered, RowsInOrder, HasRow, TypeOK, Ids
      <3>2. \A q \in Requests : q # r => step'[q] \notin Committed
        BY <1>1, <1>5 DEF CommitDefault, Committed, IInv, TypeOK
      <3>3. UNCHANGED <<dep, registered, active>>
        BY <1>5 DEF CommitDefault
      <3>4. CASE HasModid
        <4>1. data'[Default] = dep[r] /\ \A v \in Versions : data'[v] = 0
          BY <2>2, <3>4, ConstantsAssumption DEF NoData, AllVersions
        <4> QED BY <2>2, <3>1, <3>2, <3>3, <4>1 DEF DataInv, CommittedIsData, OneGeneration, IInv, TypeOK, Ids
      <3>5. CASE ~HasModid
        BY <2>2, <3>5 DEF DataInv, CommittedIsData, OneGeneration
      <3> QED BY <3>4, <3>5
    <2> QED BY <1>5, <2>1, <2>2 DEF CommitDefault
  <1>6. CASE CommitVersion(r)
    <2>1. step[r] \in Committed /\ cur[r] \in Versions /\ cur[r] # Default
      BY <1>6, ConstantsAssumption DEF CommitVersion, Committed, IInv, DepIsNewest
    <2>2. \A q \in Requests : step'[q] \in Committed => step[q] \in Committed
      BY <1>6, <2>1 DEF CommitVersion, IInv, TypeOK
    <2>3. UNCHANGED <<dep, registered, active>>
      BY <1>6 DEF CommitVersion
    <2>4. CASE UNCHANGED <<vrows, data>>
      BY <2>2, <2>3, <2>4, KeepsDataInv
    <2>5. CASE /\ registered /\ vrows' = vrows \cup {cur[r]}
               /\ data' = IF HasModid THEN [data EXCEPT ![cur[r]] = dep[r]] ELSE data
      <3>1. data'[Default] = data[Default] /\ \A v \in Versions : data'[v] = data[v] \/ data'[v] = data[Default]
        BY <2>1, <2>5 DEF DataInv, CommittedIsData, IInv, TypeOK, AllVersions
      <3> QED BY <2>2, <2>3, <2>5, <3>1 DEF DataInv, CommittedIsData, OneGeneration
    <2> QED BY <1>6, <2>4, <2>5 DEF CommitVersion
  <1>7. CASE Activate(r)
    <2>1. UNCHANGED <<data, vrows, registered, dep>> /\ \A q \in Requests : step'[q] \in Committed => step[q] \in Committed
      BY <1>7 DEF Activate, Committed, IInv, TypeOK
    <2>2. CASE UNCHANGED active
      BY <2>1, <2>2, KeepsDataInv
    <2>3. CASE HasRow(dep[r]) /\ active' = {dep[r]}
      <3>1. registered /\ step[r] \in Committed
        BY <1>7, <2>3, NoRowYet DEF Activate, Committed, IInv, RowsInOrder, HasRow, Unnumbered
      <3>2. HasModid => data[Default] = dep[r]
        BY <3>1 DEF DataInv, CommittedIsData
      <3> QED BY <2>1, <2>3, <3>2 DEF DataInv, CommittedIsData, OneGeneration, IInv, TypeOK, Ids
    <2> QED BY <1>7, <2>2, <2>3 DEF Activate
  <1>8. CASE Prune(r)
    <2>1. UNCHANGED <<registered, dep, active>> /\ \A q \in Requests : step'[q] \notin Committed
      BY <1>1, <1>8 DEF Prune, Committed, IInv, TypeOK
    <2>2. CASE UNCHANGED <<vrows, data>>
      BY <2>1, <2>2, KeepsDataInv
    <2>3. CASE /\ vrows' = vrows \cap (keep[r] \cup {Default})
               /\ data' = [v \in AllVersions |-> IF v \in vrows' THEN data[v] ELSE 0]
      <3>1. data'[Default] = data[Default] /\ \A v \in Versions : data'[v] \in {0, data[v]}
        BY <2>3 DEF DataInv, CommittedIsData, AllVersions
      <3> QED BY <2>1, <2>3, <3>1 DEF DataInv, CommittedIsData, OneGeneration
    <2> QED BY <1>8, <2>2, <2>3 DEF Prune
  <1> QED BY <1>2, <1>3, <1>4, <1>5, <1>6, <1>7, <1>8 DEF Job

LEMMA InitDataInv == Init => DataInv
  BY DEF Init, DataInv, CommittedIsData, OneGeneration, Committed, NoData, AllVersions

LEMMA NextDataInv == NotReborn /\ IInv /\ FilesInv /\ DataInv /\ [Next]_vars => DataInv'
  <1> SUFFICES ASSUME NotReborn, IInv, FilesInv, DataInv, [Next]_vars PROVE DataInv'
    OBVIOUS
  <1>1. CASE UNCHANGED vars
    BY <1>1, KeepsDataInv DEF vars, jobVars, rowVars, contentVars
  <1>2. ASSUME NEW r \in Requests,
               EnqueueDeploy(r) \/ DeployProject(r) \/ CheckDeploying(r) \/ RunOrJoin(r) \/ Return(r) \/ Job(r)
        PROVE  DataInv'
    BY <1>2, HandlersKeepDataInv, JobsKeepDataInv
  <1> QED BY <1>1, <1>2, OthersKeepDataInv DEF Next, Done

(* The ingested data are of one generation, and never older than the files   *)
(* that are served with them.                                                *)
THEOREM OneGenerationHolds == ASSUME NotReborn PROVE Spec => []OneGeneration
  <1>1. IInv /\ FilesInv /\ [Next]_vars => FilesInv'
    BY NextFilesInv
  <1>2. IInv /\ FilesInv /\ DataInv /\ [Next]_vars => DataInv'
    BY NextDataInv
  <1>3. DataInv => OneGeneration
    BY DEF DataInv
  <1> QED BY <1>1, <1>2, <1>3, InitFilesInv, InitDataInv, InductiveInvariant, PTL DEF Spec
=============================================================================
