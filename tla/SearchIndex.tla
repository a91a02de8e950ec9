---------------------------- MODULE SearchIndex -----------------------------
(* The search index of one project: SearchIndexer of wiki-storage/src/search,*)
(* the places that schedule its jobs, and the collection in Typesense, where *)
(* the id of a document names the page and not the deployment it came from.  *)
(*                                                                           *)
(* The publication of deployments is that of module Deployment, reduced to   *)
(* the steps that the indexer can see.  Jobs are detached tasks.             *)
EXTENDS Naturals

CONSTANTS
    MaxIds,         \* a bound on the deployments
    Jobs,           \* the jobs that may be scheduled
    Pages,          \* the pages a deployment may have
    Home,           \* the document of the project itself, always present
    MayDelete,      \* whether deployments are deleted
    MaxFaults       \* a bound on the failures, and crashes, of everything but a deployment

ASSUME SearchAssumption == /\ MaxIds \in Nat \ {0} /\ Home \in Pages
                           /\ MayDelete \in BOOLEAN /\ MaxFaults \in Nat

Ids == 1 .. MaxIds

VARIABLES
    \* Deployments.
    issued,     \* the number of deployments so far
    stage,      \* how far the newest one is
    active,     \* the active deployment, or 0
    previous,   \* the one that was active when the newest one started, or 0
    dirs,       \* the deployments whose directory exists
    content,    \* content[d]: the pages of deployment d
    \* Jobs and their local variables.
    kind, at, dep, pages,
    solo,       \* solo[j]: no other job was under way during the life of j so far
    faults,     \* the failures so far
    \* The collection.
    docs        \* docs[p]: the deployment_id of the document of page p, or 0

depVars == <<issued, stage, active, previous, dirs, content>>
vars == <<depVars, kind, at, dep, pages, solo, faults, docs>>

Live(j) == at[j] \notin {"free", "ended"}
Quiet == stage = "idle" /\ \A j \in Jobs : ~Live(j)

TypeOK ==
    /\ issued \in 0 .. MaxIds /\ active \in 0 .. MaxIds /\ previous \in 0 .. MaxIds
    /\ stage \in {"idle", "created", "withdrawn", "published", "cleaned"}
    /\ dirs \subseteq Ids /\ content \in [Ids -> SUBSET Pages]
    /\ kind \in [Jobs -> {"none", "reindex", "drop"}]
    /\ at \in [Jobs -> {"free", "format", "collect", "import", "check", "purge", "rollback", "drop", "ended"}]
    /\ dep \in [Jobs -> 0 .. MaxIds] /\ pages \in [Jobs -> SUBSET Pages]
    /\ solo \in [Jobs -> BOOLEAN] /\ faults \in 0 .. MaxFaults
    /\ docs \in [Pages -> 0 .. MaxIds]

Init ==
    /\ issued = 0 /\ stage = "idle" /\ active = 0 /\ previous = 0
    /\ dirs = {} /\ content = [d \in Ids |-> {}]
    /\ kind = [j \in Jobs |-> "none"] /\ at = [j \in Jobs |-> "free"]
    /\ dep = [j \in Jobs |-> 0] /\ pages = [j \in Jobs |-> {}]
    /\ solo = [j \in Jobs |-> FALSE] /\ faults = 0
    /\ docs = [p \in Pages |-> 0]

NoFault == UNCHANGED faults
Fault == faults < MaxFaults /\ faults' = faults + 1

(* schedule_reindex and schedule_drop: a new task.                           *)
Schedule(j, k, d) ==
    /\ at[j] = "free"
    /\ kind' = [kind EXCEPT ![j] = k]
    /\ at' = [at EXCEPT ![j] = IF k = "drop" THEN "drop" ELSE "format"]
    /\ dep' = [dep EXCEPT ![j] = d]
    /\ solo' = [i \in Jobs |-> i = j /\ \A l \in Jobs : ~Live(l)]
    /\ UNCHANGED <<pages, faults, docs>>
-----------------------------------------------------------------------------
(* Deployments.                                                              *)
jobsSame == UNCHANGED <<kind, at, dep, pages, solo, docs>>
jobsUnchanged == jobsSame /\ NoFault

StartDeployment ==
    /\ stage = "idle" /\ issued < MaxIds
    /\ issued' = issued + 1
    /\ previous' = active
    /\ dirs' = dirs \cup {issued'}
    /\ content' \in {[content EXCEPT ![issued'] = s \cup {Home}] : s \in SUBSET Pages}
    /\ stage' = "created"
    /\ UNCHANGED active /\ jobsUnchanged

(* It fails, and leaves no pages behind; in set_active_deployment it may     *)
(* fail after the previous one was withdrawn.                                *)
FailDeployment ==
    /\ \/ stage = "created" /\ NoFault
       \/ stage = "withdrawn" /\ Fault
    /\ stage' = "idle" /\ previous' = 0
    /\ dirs' = dirs \ {issued}
    /\ UNCHANGED <<issued, active, content>> /\ jobsSame

(* set_active_deployment, in its two statements.                             *)
Withdraw ==
    /\ stage = "created"
    /\ stage' = "withdrawn" /\ active' = 0
    /\ UNCHANGED <<issued, previous, dirs, content>> /\ jobsUnchanged
Publish ==
    /\ stage = "withdrawn"
    /\ stage' = "published" /\ active' = issued
    /\ UNCHANGED <<issued, previous, dirs, content>> /\ jobsUnchanged

RemovePrevious ==
    /\ stage = "published"
    /\ stage' = "cleaned" /\ dirs' = dirs \ {previous}
    /\ UNCHANGED <<issued, previous, active, content>> /\ jobsUnchanged

(* deploy_inner schedules the reindex of the deployment it has published.    *)
ScheduleAfterDeploy(j) ==
    /\ stage = "cleaned"
    /\ stage' = "idle" /\ previous' = 0
    /\ Schedule(j, "reindex", issued)
    /\ UNCHANGED <<issued, active, dirs, content>>

(* The index-search migration: a reindex of what is active, at any time.     *)
Migrate(j) ==
    /\ active # 0
    /\ Schedule(j, "reindex", active)
    /\ UNCHANGED depVars

(* A mutated form: the row goes, the index is forgotten.                     *)
DeleteActiveOnly(j) ==
    /\ MayDelete /\ active # 0 /\ at[j] = "free"
    /\ active' = 0
    /\ UNCHANGED <<issued, stage, previous, dirs, content>> /\ jobsUnchanged

(* delete_deployment of the active deployment.                               *)
DeleteActive(j) ==
    /\ MayDelete /\ active # 0
    /\ active' = 0
    /\ Schedule(j, "drop", 0)
    /\ UNCHANGED <<issued, stage, previous, dirs, content>>
-----------------------------------------------------------------------------
(* reindex.                                                                  *)
Step(j, from, to) == at[j] = from /\ at' = [at EXCEPT ![j] = to]
End(j, from) == Step(j, from, "ended")

(* The default version and the format of the deployment's directory.         *)
OpenFormat(j) ==
    /\ IF dep[j] \in dirs THEN Step(j, "format", "collect") ELSE End(j, "format")
    /\ UNCHANGED <<depVars, kind, dep, pages, solo, faults, docs>>

(* After the platform has answered: the trees, which are empty once the      *)
(* directory is gone.                                                        *)
Collect(j) ==
    /\ Step(j, "collect", "import")
    /\ pages' = [pages EXCEPT ![j] = IF dep[j] \in dirs THEN content[dep[j]] ELSE {Home}]
    /\ UNCHANGED <<depVars, kind, dep, solo, faults, docs>>

(* A mutated form: only the documents that are not there yet are created.    *)
ImportCreate(j) ==
    /\ Step(j, "import", "check")
    /\ docs' = [p \in Pages |-> IF p \in pages[j] /\ docs[p] = 0 THEN dep[j] ELSE docs[p]]
    /\ pages' = [pages EXCEPT ![j] = {}]
    /\ UNCHANGED <<depVars, kind, dep, solo, faults>>

(* import_upsert: a document replaces the one with the same page.            *)
Import(j) ==
    /\ Step(j, "import", "check")
    /\ docs' = [p \in Pages |-> IF p \in pages[j] THEN dep[j] ELSE docs[p]]
    /\ pages' = [pages EXCEPT ![j] = {}]
    /\ UNCHANGED <<depVars, kind, dep, solo, faults>>

(* A mutated form: nobody looks whether the deployment is still active.      *)
TrustActive(j) ==
    /\ Step(j, "check", "purge")
    /\ UNCHANGED <<depVars, kind, dep, pages, solo, faults, docs>>

(* get_active_deployment, after the upload; an error counts as "not active". *)
CheckActive(j) ==
    /\ \/ active = dep[j] /\ Step(j, "check", "purge") /\ NoFault
       \/ active # dep[j] /\ Step(j, "check", "rollback") /\ NoFault
       \/ active = dep[j] /\ Step(j, "check", "rollback") /\ Fault
    /\ UNCHANGED <<depVars, kind, dep, pages, solo, docs>>

(* A mutated form: stale documents are left to be overwritten.               *)
PurgeNothing(j) ==
    /\ End(j, "purge")
    /\ UNCHANGED <<depVars, kind, dep, pages, solo, faults, docs>>

(* A mutated form: the comparison of the filter is the wrong way round.      *)
PurgeOwn(j) ==
    /\ End(j, "purge")
    /\ docs' = [p \in Pages |-> IF docs[p] = dep[j] THEN 0 ELSE docs[p]]
    /\ UNCHANGED <<depVars, kind, dep, pages, solo, faults>>

(* A mutated form: the whole collection of the project is replaced by what   *)
(* is left of it.                                                            *)
PurgeUntyped(j) ==
    /\ End(j, "purge")
    /\ docs' = [p \in {q \in Pages : docs[q] = dep[j]} |-> dep[j]]
    /\ UNCHANGED <<depVars, kind, dep, pages, solo, faults>>

(* The documents of the project's other deployments go.                      *)
Purge(j) ==
    /\ End(j, "purge")
    /\ docs' = [p \in Pages |-> IF docs[p] # dep[j] THEN 0 ELSE docs[p]]
    /\ UNCHANGED <<depVars, kind, dep, pages, solo, faults>>

(* The documents of this deployment go.                                      *)
Rollback(j) ==
    /\ End(j, "rollback")
    /\ docs' = [p \in Pages |-> IF docs[p] = dep[j] THEN 0 ELSE docs[p]]
    /\ UNCHANGED <<depVars, kind, dep, pages, solo, faults>>

(* drop_project.                                                             *)
DropProject(j) ==
    /\ End(j, "drop")
    /\ docs' = [p \in Pages |-> 0]
    /\ UNCHANGED <<depVars, kind, dep, pages, solo, faults>>

(* An error of the database or of Typesense ends a job; it is logged.        *)
FailJob(j) ==
    /\ Fault
    /\ \E s \in {"format", "import", "purge", "rollback", "drop"} : End(j, s)
    /\ UNCHANGED <<depVars, kind, dep, pages, solo, docs>>

(* The process dies: a crash takes the jobs and the deployment with it.      *)
Crash ==
    /\ Fault /\ ~Quiet
    /\ at' = [j \in Jobs |-> IF Live(j) THEN "ended" ELSE at[j]]
    /\ stage' = "idle" /\ previous' = 0
    /\ UNCHANGED <<issued, active, dirs, content, kind, dep, pages, solo, docs>>

JobStep(j) == \/ OpenFormat(j) \/ Collect(j) \/ Import(j) \/ CheckActive(j)
              \/ Purge(j) \/ Rollback(j) \/ DropProject(j)
Deploy == \/ FailDeployment \/ Withdraw \/ Publish \/ RemovePrevious
          \/ \E j \in Jobs : ScheduleAfterDeploy(j)

Next == \/ StartDeployment \/ Deploy
        \/ \E j \in Jobs : Migrate(j) \/ DeleteActive(j) \/ JobStep(j) \/ FailJob(j)
        \/ Crash

Spec == Init /\ [][Next]_vars

(* Deployments and jobs are tasks, and tasks are driven to their end.        *)
FairSpec == /\ Spec /\ WF_vars(Deploy)
            /\ \A j \in Jobs : WF_vars(JobStep(j))
-----------------------------------------------------------------------------
(* Without failures, when nothing is under way the index holds no page of a  *)
(* deployment that is not the active one, in whatever order the jobs and the *)
(* publications ran.                                                         *)
NoStalePage == Quiet /\ faults = 0 => \A p \in Pages : docs[p] \in {0, active}

(* A reindex that runs alone and whose deployment is still active leaves     *)
(* exactly the pages of that deployment, whatever earlier failures, crashes  *)
(* and races have left in the index.                                         *)
Exact == \A p \in Pages : docs[p] = IF p \in content[active] THEN active ELSE 0
SoloReindexIsExact ==
    [][\A j \in Jobs : Purge(j) /\ solo[j] /\ active = dep[j] => Exact']_vars

(* Once the publications end, what is left of other deployments disappears,  *)
(* if nothing fails.                                                         *)
StaleDisappears == \A d \in 0 .. MaxIds :
    <>[](active = d /\ stage = "idle" /\ faults = 0) => <>[](\A p \in Pages : docs[p] \in {0, d})

(* A late job rolls back its own documents only ("Deployment no longer       *)
(* active after indexing, rolling back its docs", search/mod.rs:213): what   *)
(* the newer deployment has indexed stays, however the jobs overlap.         *)
ActiveStaysIndexed ==
    Quiet /\ active # 0 => \A p \in content[active] : docs[p] = active
=============================================================================
