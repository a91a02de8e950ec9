----------------------------- MODULE Deployment -----------------------------
(* The deployments of one project: wiki-storage/src/deployment/manager.rs,   *)
(* the queries on the deployment and version tables it runs, the handlers    *)
(* that start and delete deployments and delete the project, and the         *)
(* recovery that main.rs runs before the server listens.                     *)
(*                                                                           *)
(* One action is the code between two awaits that touch shared state: the    *)
(* database, the disk or the task map.  A deployment is named by its place   *)
(* in the order of created_at.  What the repository holds is a choice.       *)
EXTENDS Naturals, FiniteSets, FiniteSetsExt

CONSTANTS
    Requests,       \* the calls of enqueue_deploy
    Versions,       \* names of the versions the repository may declare
    Default,        \* the default version, which has no name
    Project,        \* the id of the project
    None,
    Faults,         \* the kinds of step that may fail, see Fault
    HasModid,       \* whether the project has a modid: without, no ingestion
    MayDelete,      \* whether deployments are deleted
    MayRemove,      \* whether the project is deleted
    MayRecreate,    \* whether a deleted project is registered again
    MaxCrashes      \* a bound on the crashes

Fault == {"read", "insert", "dirs", "status", "clone", "revision", "copy",
          "commit", "platforms", "activate", "prune", "cleanup"}

ASSUME ConstantsAssumption ==
    /\ IsFiniteSet(Requests) /\ None \notin Requests \cup Versions /\ None # Project
    /\ Default \notin Versions
    /\ Faults \subseteq Fault
    /\ {HasModid, MayDelete, MayRemove, MayRecreate} \subseteq BOOLEAN
    /\ MaxCrashes \in Nat

Ids == 1 .. Cardinality(Requests)
AllVersions == Versions \cup {Default}
Pending == {"created", "loading"}

VARIABLES
    \* The process.
    tasks, run, pc, key, joined,    \* DeploymentManager.tasks
    asked,      \* asked[r]: how far call r has come before run_or_join
    step,       \* step[r]: the next step of the deployment that r started
    dep,        \* dep[r]: its id, or 0
    prev,       \* prev[r]: the deployment that was active when it started, or 0
    keep,       \* keep[r]: the version names that its metadata declares
    todo,       \* todo[r]: those it has yet to set up
    cur,        \* cur[r]: the one whose transaction comes next, or None
    deleting,   \* the row that a delete_deployment has looked up, or 0
    removing,   \* a remove has deleted the project's row, not yet its files
    phase,      \* "up", or the recovery step that comes next
    crashes,
    \* The database.
    registered, \* the project's row exists
    status,     \* status[d] of the row of deployment d, "none" without a row
    active,     \* the rows whose active column is set
    lastId,
    vrows,      \* the project's rows in project_version
    data,       \* data[v]: the deployment whose content is ingested for v, or 0
    \* The disk.
    dirs,       \* the deployments whose directory exists
    files,      \* files[d][v]: what the directory holds of version v
    clones      \* the deployments whose temporary clone exists

tmVars == <<tasks, run, pc, key, joined>>
jobVars == <<step, dep, prev, keep, todo, cur>>
handlerVars == <<asked, deleting, removing>>
serverVars == <<phase, crashes>>
rowVars == <<status, active, lastId>>
contentVars == <<registered, vrows, data>>
diskVars == <<dirs, files, clones>>
vars == <<tmVars, jobVars, handlerVars, serverVars, rowVars, contentVars, diskVars>>

TM == INSTANCE TaskManager WITH Callers <- Requests, Keys <- {Project}, Droppable <- {}

Steps == {"idle", "prev", "insert", "dirs", "loading", "clone", "revision", "copy", "commit",
          "platforms", "versions", "vcommit", "activate", "success", "prune",
          "cleanOk", "rmprev", "cleanErr", "markerr", "cleardir"}

TypeOK ==
    /\ TM!TypeOK
    /\ asked \in [Requests -> {"no", "queued", "checked", "refused", "sent"}]
    /\ step \in [Requests -> Steps]
    /\ dep \in [Requests -> Ids \cup {0}] /\ prev \in [Requests -> Ids \cup {0}]
    /\ keep \in [Requests -> SUBSET Versions] /\ todo \in [Requests -> SUBSET Versions]
    /\ cur \in [Requests -> Versions \cup {None}]
    /\ deleting \in Ids \cup {0} /\ removing \in BOOLEAN
    /\ phase \in {"up", "recoverDirs", "recoverRows"} /\ crashes \in 0 .. MaxCrashes
    /\ registered \in BOOLEAN
    /\ status \in [Ids -> {"none", "created", "loading", "success", "error"}]
    /\ active \subseteq Ids /\ lastId \in Ids \cup {0}
    /\ vrows \subseteq AllVersions /\ data \in [AllVersions -> Ids \cup {0}]
    /\ dirs \subseteq Ids /\ clones \subseteq Ids
    /\ files \in [Ids -> [AllVersions -> {"absent", "partial", "full"}]]

NoFiles == [v \in AllVersions |-> "absent"]
NoData == [v \in AllVersions |-> 0]

Init ==
    /\ TM!Init
    /\ asked = [r \in Requests |-> "no"]
    /\ step = [r \in Requests |-> "idle"]
    /\ dep = [r \in Requests |-> 0] /\ prev = [r \in Requests |-> 0]
    /\ keep = [r \in Requests |-> {}] /\ todo = [r \in Requests |-> {}]
    /\ cur = [r \in Requests |-> None]
    /\ deleting = 0 /\ removing = FALSE
    /\ phase = "up" /\ crashes = 0
    /\ registered = TRUE
    /\ status = [d \in Ids |-> "none"] /\ active = {} /\ lastId = 0
    /\ vrows = {} /\ data = NoData
    /\ dirs = {} /\ clones = {}
    /\ files = [d \in Ids |-> NoFiles]

HasRow(d) == status[d] # "none"
Up == phase = "up"
May(f) == f \in Faults

(* A mutated form: a missing deployment is not told from an id.              *)
ActiveIdUnset == IF active = {} THEN Cardinality(Requests) + 1 ELSE Max(active)

(* The id of the active deployment, 0 if get_active_deployment finds none.   *)
ActiveId == IF active = {} THEN 0 ELSE Max(active)
-----------------------------------------------------------------------------
(* The handlers that ask for a deployment.                                   *)

(* create, update_source and the migration: enqueue_deploy, unconditionally. *)
EnqueueDeploy(r) ==
    /\ Up /\ registered /\ asked[r] = "no"
    /\ asked' = [asked EXCEPT ![r] = "queued"]
    /\ UNCHANGED <<tmVars, jobVars, deleting, removing, serverVars, rowVars, contentVars, diskVars>>

(* deploy_project: refused while get_project_status is Loading.              *)
DeployProject(r) ==
    /\ Up /\ registered /\ asked[r] = "no"
    /\ asked' = [asked EXCEPT ![r] =
                    IF \E d \in Ids : status[d] \in Pending THEN "refused" ELSE "queued"]
    /\ UNCHANGED <<tmVars, jobVars, deleting, removing, serverVars, rowVars, contentVars, diskVars>>

(* deploy, first: the check of is_deploying.                                 *)
CheckDeploying(r) ==
    /\ Up /\ asked[r] = "queued"
    /\ asked' = [asked EXCEPT ![r] = IF TM!HasPending(Project) THEN "refused" ELSE "checked"]
    /\ UNCHANGED <<tmVars, jobVars, deleting, removing, serverVars, rowVars, contentVars, diskVars>>

(* A mutated form: every call starts a deployment of its own.                *)
RunAlways(r) ==
    /\ Up /\ asked[r] = "checked"
    /\ asked' = [asked EXCEPT ![r] = "sent"]
    /\ TM!SpawnUnchecked(r, Project) /\ step' = [step EXCEPT ![r] = "prev"]
    /\ UNCHANGED <<dep, prev, keep, todo, cur, deleting, removing, serverVars, rowVars, contentVars, diskVars>>

(* deploy, second: run_or_join, which starts deploy_inner or joins one.      *)
RunOrJoin(r) ==
    /\ Up /\ asked[r] = "checked"
    /\ asked' = [asked EXCEPT ![r] = "sent"]
    /\ \/ TM!Join(r, Project) /\ UNCHANGED step
       \/ TM!Spawn(r, Project) /\ step' = [step EXCEPT ![r] = "prev"]
    /\ UNCHANGED <<dep, prev, keep, todo, cur, deleting, removing, serverVars, rowVars, contentVars, diskVars>>

Return(r) ==
    /\ Up
    /\ TM!Resolve(r) \/ TM!Evict(r)
    /\ UNCHANGED <<jobVars, handlerVars, serverVars, rowVars, contentVars, diskVars>>
-----------------------------------------------------------------------------
(* deploy_inner and run_deployment_pipeline.                                 *)

At(r, s) == Up /\ step[r] = s
Goto(r, s) == step' = [step EXCEPT ![r] = s] /\ UNCHANGED tmVars

(* deploy_inner returns: its result is that of the task, its variables go.   *)
EndRun(r, o) == /\ TM!Finish(r) /\ run'[r] = o
                /\ step' = [step EXCEPT ![r] = "idle"]
                /\ dep' = [dep EXCEPT ![r] = 0] /\ prev' = [prev EXCEPT ![r] = 0]
                /\ keep' = [keep EXCEPT ![r] = {}] /\ todo' = [todo EXCEPT ![r] = {}]
                /\ UNCHANGED cur
Fail(r) == Goto(r, "cleanErr")

(* prev_deployment = get_active_deployment(...).ok()                         *)
GetPrevious(r) ==
    /\ At(r, "prev")
    /\ \/ prev' = [prev EXCEPT ![r] = ActiveId]
       \/ May("read") /\ prev' = [prev EXCEPT ![r] = 0]
    /\ Goto(r, "insert")
    /\ UNCHANGED <<dep, keep, todo, cur, handlerVars, serverVars, rowVars, contentVars, diskVars>>

(* The insert of the row, which the foreign key refuses without a project.   *)
InsertRow(r) ==
    /\ At(r, "insert")
    /\ \/ /\ registered
          /\ lastId' = lastId + 1
          /\ status' = [status EXCEPT ![lastId + 1] = "created"]
          /\ dep' = [dep EXCEPT ![r] = lastId + 1]
          /\ Goto(r, "dirs")
          /\ UNCHANGED <<prev, keep, todo, cur>>
       \/ /\ ~registered \/ May("insert")
          /\ EndRun(r, "error")
          /\ UNCHANGED <<lastId, status>>
    /\ UNCHANGED <<handlerVars, serverVars, active, contentVars, diskVars>>

(* A mutated form: room is made before the deployment, not after it.         *)
PrepareDirsAlone(r) ==
    /\ At(r, "dirs")
    /\ dirs' = {dep[r]}
    /\ Goto(r, "loading")
    /\ UNCHANGED <<dep, prev, keep, todo, cur>>
    /\ UNCHANGED <<handlerVars, serverVars, rowVars, contentVars, files, clones>>

(* The directories; an error leaves deploy_inner by `?`, past its error path.*)
PrepareDirs(r) ==
    /\ At(r, "dirs")
    /\ \/ /\ dirs' = dirs \cup {dep[r]}
          /\ Goto(r, "loading")
          /\ UNCHANGED <<dep, prev, keep, todo, cur>>
       \/ /\ May("dirs")
          /\ EndRun(r, "error")
          /\ UNCHANGED dirs
    /\ UNCHANGED <<handlerVars, serverVars, rowVars, contentVars, files, clones>>

(* update_deployment_status: an error, also that of a missing row, is logged.*)
SetStatus(d, s) == \/ HasRow(d) /\ status' = [status EXCEPT ![d] = s]
                   \/ (~HasRow(d) \/ May("status")) /\ UNCHANGED status

MarkLoading(r) ==
    /\ At(r, "loading")
    /\ SetStatus(dep[r], "loading")
    /\ Goto(r, "clone")
    /\ UNCHANGED <<dep, prev, keep, todo, cur, handlerVars, serverVars, active, lastId, contentVars, diskVars>>

Clone(r) ==
    /\ At(r, "clone")
    /\ \/ clones' = clones \cup {dep[r]} /\ Goto(r, "revision")
       \/ May("clone") /\ clones' \in {clones, clones \cup {dep[r]}} /\ Fail(r)
    /\ UNCHANGED <<dep, prev, keep, todo, cur, handlerVars, serverVars, rowVars, contentVars, dirs, files>>

(* The update of the revision column fails if the row is gone.               *)
SaveRevision(r) ==
    /\ At(r, "revision")
    /\ \/ HasRow(dep[r]) /\ Goto(r, "copy")
       \/ (~HasRow(dep[r]) \/ May("revision")) /\ Fail(r)
    /\ UNCHANGED <<dep, prev, keep, todo, cur, handlerVars, serverVars, rowVars, contentVars, diskVars>>

(* copy_project_files for version v; a failure leaves what was copied.       *)
CopyFiles(d, v, result) == /\ dirs' = dirs \cup {d}
                           /\ files' = [files EXCEPT ![d][v] = result]

CopyDefault(r) ==
    /\ At(r, "copy")
    /\ \/ CopyFiles(dep[r], Default, "full") /\ Goto(r, "commit")
       \/ May("copy") /\ CopyFiles(dep[r], Default, "partial") /\ Fail(r)
       \/ May("copy") /\ UNCHANGED <<dirs, files>> /\ Fail(r)
    /\ UNCHANGED <<dep, prev, keep, todo, cur, handlerVars, serverVars, rowVars, contentVars, clones>>

(* A mutated form: the data of an earlier deployment stay.                   *)
CommitDefaultOnce(r) ==
    /\ At(r, "commit") /\ registered
    /\ vrows' = vrows \cup {Default}
    /\ data' = IF data[Default] = 0 THEN [NoData EXCEPT ![Default] = dep[r]] ELSE data
    /\ keep' = [keep EXCEPT ![r] = Versions] /\ todo' = [todo EXCEPT ![r] = Versions]
    /\ Goto(r, "platforms")
    /\ UNCHANGED <<dep, prev, cur, handlerVars, serverVars, rowVars, registered, diskVars>>

(* The transaction of commit_version for the default version: with it the    *)
(* ingestor deletes the data of all versions.  The declared versions whose   *)
(* branch is the source branch are kept but not set up.                      *)
CommitDefault(r) ==
    /\ At(r, "commit")
    /\ \/ /\ registered
          /\ vrows' = vrows \cup {Default}
          /\ data' = IF HasModid THEN [NoData EXCEPT ![Default] = dep[r]] ELSE data
          /\ \E declared \in SUBSET Versions : \E other \in SUBSET declared :
                /\ keep' = [keep EXCEPT ![r] = declared]
                /\ todo' = [todo EXCEPT ![r] = other]
          /\ Goto(r, "platforms")
       \/ /\ ~registered \/ May("commit")
          /\ Fail(r)
          /\ UNCHANGED <<vrows, data, keep, todo>>
    /\ UNCHANGED <<dep, prev, cur, handlerVars, serverVars, rowVars, registered, diskVars>>

(* update_platforms, if the metadata name other platforms than the record.   *)
UpdatePlatforms(r) ==
    /\ At(r, "platforms")
    /\ \/ Goto(r, "versions")
       \/ (~registered \/ May("platforms")) /\ Fail(r)
    /\ UNCHANGED <<dep, prev, keep, todo, cur, handlerVars, serverVars, rowVars, contentVars, diskVars>>

(* setup_version of a named version, up to its transaction.  A failure is    *)
(* recorded as an issue and the loop goes on.                                *)
CopyVersion(r) ==
    /\ At(r, "versions")
    /\ \E v \in todo[r] :
          /\ todo' = [todo EXCEPT ![r] = @ \ {v}]
          /\ \/ /\ CopyFiles(dep[r], v, "full")
                /\ cur' = [cur EXCEPT ![r] = v]
                /\ Goto(r, "vcommit")
             \/ /\ May("copy")
                /\ CopyFiles(dep[r], v, "partial") \/ UNCHANGED <<dirs, files>>
                /\ UNCHANGED <<cur, step, tmVars>>
    /\ UNCHANGED <<dep, prev, keep, handlerVars, serverVars, rowVars, contentVars, clones>>

CommitVersion(r) ==
    /\ At(r, "vcommit")
    /\ LET v == cur[r] IN
         \/ /\ registered
            /\ vrows' = vrows \cup {v}
            /\ data' = IF HasModid THEN [data EXCEPT ![v] = dep[r]] ELSE data
         \/ /\ ~registered \/ May("commit")
            /\ UNCHANGED <<vrows, data>>
    /\ cur' = [cur EXCEPT ![r] = None]
    /\ Goto(r, "versions")
    /\ UNCHANGED <<dep, prev, keep, todo, handlerVars, serverVars, rowVars, registered, diskVars>>

(* A mutated form: no deployment is deactivated.                             *)
DeactivateNothing(r) ==
    /\ At(r, "versions") /\ todo[r] = {}
    /\ Goto(r, "activate")
    /\ UNCHANGED <<dep, prev, keep, todo, cur, handlerVars, serverVars, rowVars, contentVars, diskVars>>

(* set_active_deployment, first statement.                                   *)
Deactivate(r) ==
    /\ At(r, "versions") /\ todo[r] = {}
    /\ \/ active' = {} /\ Goto(r, "activate")
       \/ May("activate") /\ UNCHANGED active /\ Fail(r)
    /\ UNCHANGED <<dep, prev, keep, todo, cur, handlerVars, serverVars, status, lastId, contentVars, diskVars>>

(* A mutated form: what was active at the start is put back on a failure.    *)
ActivateOrRestore(r) ==
    /\ At(r, "activate")
    /\ \/ /\ HasRow(dep[r]) /\ active' = {dep[r]} /\ Goto(r, "success")
       \/ /\ ~HasRow(dep[r]) \/ May("activate")
          /\ active' = {prev[r]} \ {0} /\ Fail(r)
    /\ UNCHANGED <<dep, prev, keep, todo, cur, handlerVars, serverVars, status, lastId, contentVars, diskVars>>

(* set_active_deployment, second statement; single_active_deployment, the    *)
(* unique index, refuses a second active row.                                *)
Activate(r) ==
    /\ At(r, "activate")
    /\ \/ /\ HasRow(dep[r]) /\ active = {}
          /\ active' = {dep[r]}
          /\ Goto(r, "success")
       \/ /\ ~HasRow(dep[r]) \/ active # {} \/ May("activate")
          /\ UNCHANGED active
          /\ Fail(r)
    /\ UNCHANGED <<dep, prev, keep, todo, cur, handlerVars, serverVars, status, lastId, contentVars, diskVars>>

MarkSuccess(r) ==
    /\ At(r, "success")
    /\ SetStatus(dep[r], "success")
    /\ Goto(r, "prune")
    /\ UNCHANGED <<dep, prev, keep, todo, cur, handlerVars, serverVars, active, lastId, contentVars, diskVars>>

(* delete_unused_versions: the rows go and their data with them.             *)
Prune(r) ==
    /\ At(r, "prune")
    /\ \/ /\ vrows' = vrows \cap (keep[r] \cup {Default})
          /\ data' = [v \in AllVersions |-> IF v \in vrows' THEN data[v] ELSE 0]
       \/ May("prune") /\ UNCHANGED <<vrows, data>>
    /\ Goto(r, "cleanOk")
    /\ UNCHANGED <<dep, prev, keep, todo, cur, handlerVars, serverVars, rowVars, registered, diskVars>>

(* Back in deploy_inner: the clone goes, in either case.                     *)
RemoveClone(r) ==
    /\ \/ At(r, "cleanOk") /\ Goto(r, "rmprev")
       \/ At(r, "cleanErr") /\ Goto(r, "markerr")
    /\ \/ clones' = clones \ {dep[r]}
       \/ May("cleanup") /\ UNCHANGED clones
    /\ UNCHANGED <<dep, prev, keep, todo, cur, handlerVars, serverVars, rowVars, contentVars, dirs, files>>

EmptyDir(d) == files' = [files EXCEPT ![d] = NoFiles]

(* A mutated form: "previous" is looked up only now.                         *)
RemoveActive(r) ==
    /\ At(r, "rmprev")
    /\ dirs' = dirs \ {ActiveId}
    /\ EndRun(r, "ok")
    /\ UNCHANGED <<handlerVars, serverVars, rowVars, contentVars, files, clones>>

(* The end after a success.  The caches and the index that are refreshed     *)
(* here are the subject of ProjectCache and SearchIndex.                     *)
RemovePrevious(r) ==
    /\ At(r, "rmprev")
    /\ \/ prev[r] # 0 /\ dirs' = dirs \ {prev[r]} /\ EmptyDir(prev[r])
       \/ (prev[r] = 0 \/ May("cleanup")) /\ UNCHANGED <<dirs, files>>
    /\ EndRun(r, "ok")
    /\ UNCHANGED <<handlerVars, serverVars, rowVars, contentVars, clones>>

(* A mutated form: the error is only logged.                                 *)
MarkNothing(r) ==
    /\ At(r, "markerr")
    /\ Goto(r, "cleardir")
    /\ UNCHANGED <<dep, prev, keep, todo, cur, handlerVars, serverVars, rowVars, contentVars, diskVars>>

MarkError(r) ==
    /\ At(r, "markerr")
    /\ SetStatus(dep[r], "error")
    /\ Goto(r, "cleardir")
    /\ UNCHANGED <<dep, prev, keep, todo, cur, handlerVars, serverVars, active, lastId, contentVars, diskVars>>

(* clear_deployment_dir keeps the directory, for the log in it.              *)
ClearDir(r) ==
    /\ At(r, "cleardir")
    /\ \/ EmptyDir(dep[r])
       \/ May("cleanup") /\ UNCHANGED files
    /\ EndRun(r, "error")
    /\ UNCHANGED <<handlerVars, serverVars, rowVars, contentVars, dirs, clones>>

Job(r) == \/ GetPrevious(r) \/ InsertRow(r) \/ PrepareDirs(r) \/ MarkLoading(r)
          \/ Clone(r) \/ SaveRevision(r) \/ CopyDefault(r) \/ CommitDefault(r)
          \/ UpdatePlatforms(r) \/ CopyVersion(r) \/ CommitVersion(r)
          \/ Deactivate(r) \/ Activate(r) \/ MarkSuccess(r) \/ Prune(r)
          \/ RemoveClone(r) \/ RemovePrevious(r) \/ MarkError(r) \/ ClearDir(r)
-----------------------------------------------------------------------------
(* The handlers that delete.                                                 *)

(* delete_deployment: the row is read, and refused while it is loading.      *)
LookupDeployment(d) ==
    /\ Up /\ MayDelete /\ deleting = 0
    /\ HasRow(d) /\ status[d] # "loading"
    /\ deleting' = d
    /\ UNCHANGED <<tmVars, jobVars, asked, removing, serverVars, rowVars, contentVars, diskVars>>

(* ... and deleted, whatever it has become since; its directory stays.       *)
DeleteDeployment ==
    /\ Up /\ deleting # 0
    /\ status' = [status EXCEPT ![deleting] = "none"]
    /\ active' = active \ {deleting}
    /\ deleting' = 0
    /\ UNCHANGED <<tmVars, jobVars, asked, removing, serverVars, lastId, contentVars, diskVars>>

(* remove: the row of the project goes, and by cascade all that refers to it.*)
RemoveProject ==
    /\ Up /\ MayRemove /\ registered /\ ~removing
    /\ registered' = FALSE
    /\ removing' = TRUE
    /\ status' = [d \in Ids |-> "none"] /\ active' = {}
    /\ vrows' = {} /\ data' = NoData
    /\ UNCHANGED <<tmVars, jobVars, asked, deleting, serverVars, lastId, diskVars>>

(* ... then the directory of the project.                                    *)
RemoveProjectDir ==
    /\ Up /\ removing
    /\ removing' = FALSE
    /\ dirs' = {} /\ files' = [d \in Ids |-> NoFiles]
    /\ UNCHANGED <<tmVars, jobVars, asked, deleting, serverVars, rowVars, contentVars, clones>>

(* create, by a registration under the same id.                              *)
CreateProject ==
    /\ Up /\ MayRecreate /\ ~registered
    /\ registered' = TRUE
    /\ UNCHANGED <<tmVars, jobVars, handlerVars, serverVars, rowVars, vrows, data, diskVars>>
-----------------------------------------------------------------------------
(* The process dies and is started again: nothing in memory survives.        *)
Crash ==
    /\ crashes < MaxCrashes
    /\ crashes' = crashes + 1
    /\ phase' = "recoverDirs"
    /\ tasks' = [k \in {Project} |-> None]
    /\ run' = [r \in Requests |-> IF run[r] = "running" THEN "error" ELSE run[r]]
    /\ pc' = [r \in Requests |-> IF pc[r] \in {"waiting", "resolved"} THEN "dropped" ELSE pc[r]]
    /\ asked' = [r \in Requests |-> IF asked[r] \in {"queued", "checked"} THEN "refused" ELSE asked[r]]
    /\ step' = [r \in Requests |-> "idle"] /\ cur' = [r \in Requests |-> None]
    /\ dep' = [r \in Requests |-> 0] /\ prev' = [r \in Requests |-> 0]
    /\ keep' = [r \in Requests |-> {}] /\ todo' = [r \in Requests |-> {}]
    /\ deleting' = 0 /\ removing' = FALSE
    /\ UNCHANGED <<key, joined, rowVars, contentVars, diskVars>>

Unfinished == {d \in Ids : status[d] \in Pending}

(* fail_loading_deployments, the loop over the rows.                         *)
RecoverDirs ==
    /\ phase = "recoverDirs"
    /\ phase' = "recoverRows"
    /\ \/ /\ dirs' = dirs \ Unfinished
          /\ files' = [d \in Ids |-> IF d \in Unfinished THEN NoFiles ELSE files[d]]
       \/ May("cleanup") /\ UNCHANGED <<dirs, files>>
    /\ UNCHANGED <<tmVars, jobVars, handlerVars, crashes, rowVars, contentVars, clones>>

(* ... and the query of that name; then the server listens.                  *)
RecoverRows ==
    /\ phase = "recoverRows"
    /\ phase' = "up"
    /\ status' = [d \in Ids |-> IF d \in Unfinished THEN "error" ELSE status[d]]
    /\ UNCHANGED <<tmVars, jobVars, handlerVars, crashes, active, lastId, contentVars, diskVars>>

Recovery == RecoverDirs \/ RecoverRows
-----------------------------------------------------------------------------
(* Every request was made and answered: the instance has ended.              *)
Done == /\ Up /\ \A r \in Requests : asked[r] \in {"refused", "sent"} /\ run[r] # "running"
        /\ UNCHANGED vars

Next == \/ \E r \in Requests : \/ EnqueueDeploy(r) \/ DeployProject(r)
                               \/ CheckDeploying(r) \/ RunOrJoin(r) \/ Return(r)
                               \/ Job(r)
        \/ \E d \in Ids : LookupDeployment(d)
        \/ DeleteDeployment \/ RemoveProject \/ RemoveProjectDir \/ CreateProject
        \/ Crash \/ Recovery
        \/ Done

Spec == Init /\ [][Next]_vars

(* The runtime drives every task it has, and main runs its recovery.         *)
Fairness == /\ \A r \in Requests : /\ WF_vars(CheckDeploying(r)) /\ WF_vars(RunOrJoin(r))
                                   /\ WF_vars(Return(r)) /\ WF_vars(Job(r))
            /\ WF_vars(Recovery)
FairSpec == Spec /\ Fairness
-----------------------------------------------------------------------------
Running(r) == step[r] # "idle"
Served(d) == d \in dirs /\ files[d][Default] = "full"

(* Deployments of one project never overlap, although deploy looks at        *)
(* is_deploying and enters run_or_join in two steps (l.103-116).             *)
OneAtATime == \A r, s \in Requests : Running(r) /\ Running(s) => r = s

(* The update that activates a deployment never meets another active row, so *)
(* single_active_deployment, the unique index, never makes it fail.          *)
IndexNeverHit == \A r \in Requests : step[r] = "activate" => active = {}

(* The deployment that readers are sent to has its default version on disk,  *)
(* whole: no clean-up (of the previous, of a failed or of an interrupted     *)
(* deployment) touches it.  An active row in status error is one that the    *)
(* recovery has failed, see ActiveSurvivesRecovery.                          *)
ServedIsComplete == Up => \A d \in active : status[d] # "error" => Served(d)

(* A deployment takes nothing from the readers but by the first statement of *)
(* set_active_deployment: no other step of it, failed or not, withdraws the  *)
(* active deployment or touches its default version on disk.                 *)
FailureKeepsPrevious ==
    [][\A r \in Requests : Job(r) /\ step'[r] # "activate" =>
        \A d \in active : Served(d) => d \in active' /\ Served(d)']_vars

(* The ingested data are of one generation: those of a named version come    *)
(* from the deployment whose default version was ingested last ("must always *)
(* come first to properly purge data before ingestion", l.327).  They are    *)
(* never older than the files that are served with them; they may be newer:  *)
(* those of a deployment that fails after its default version.               *)
OneGeneration ==
    /\ \A v \in Versions : data[v] # 0 => data[v] = data[Default]
    /\ HasModid => \A d \in active : data[Default] >= d

(* Each row that was inserted ends in success or in error, or is deleted,    *)
(* through a crash too.                                                      *)
EveryDeploymentEnds == \A d \in Ids : status[d] \in Pending ~> status[d] \notin Pending

(* The recovery only fails what nobody is served ("Fail any deployments left *)
(* in loading state from a previous crash", src/main.rs:208).                *)
ActiveSurvivesRecovery == Up => \A d \in active : Served(d)

(* The deployments of a project implement Publication.                       *)
Pub == INSTANCE Publication WITH issued <- lastId, current <- ActiveId
ImplementsPublication == Pub!Spec
=============================================================================
