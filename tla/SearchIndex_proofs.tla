------------------------ MODULE SearchIndex_proofs -------------------------
(* Theorems about SearchIndex, for every number of deployments, jobs and     *)
(* failures, and every set of pages.                                         *)
EXTENDS SearchIndex, TLAPS

(* The deployment that is active has a directory; the newest one becomes     *)
(* active, and the one before it is withdrawn first.                         *)
InPublication ==
    /\ active <= issued
    /\ active # 0 => active \in dirs
    /\ stage # "idle" => issued \in dirs /\ previous < issued
    /\ stage = "created" => active < issued
    /\ stage = "withdrawn" => active = 0
    /\ stage \in {"published", "cleaned"} => active \in {0, issued}

(* A job indexes a deployment that has been published: the one that is being *)
(* deployed has no job yet, and none of those that have one becomes active.  *)
Indexing(j) == Live(j) /\ at[j] # "drop"
JobsArePublished ==
    \A j \in Jobs : /\ dep[j] <= issued
                    /\ stage \in {"created", "withdrawn"} => dep[j] < issued
                    /\ Indexing(j) => dep[j] \in Ids

(* Documents are of pages that their deployments have.                       *)
DocsAreOfPages ==
    /\ \A d \in Ids : d <= issued => Home \in content[d]
    /\ \A j \in Jobs : at[j] = "import" => pages[j] \subseteq content[dep[j]]
    /\ \A p \in Pages : docs[p] # 0 => docs[p] <= issued /\ p \in content[docs[p]]

(* What a job that has been alone has found and uploaded so far.             *)
Alone(j) ==
    /\ \A i \in Jobs : Live(i) => i = j
    /\ dep[j] = active =>
          /\ at[j] = "import" => pages[j] = content[active]
          /\ at[j] \in {"check", "purge"} => \A p \in content[active] : docs[p] = active
SoloIsAlone == \A j \in Jobs : Live(j) /\ solo[j] => Alone(j)

(* Without failures there is somebody who will remove a stale document: the  *)
(* deployment that is being published, which will schedule a reindex, a job  *)
(* that drops the project, one that indexes the active deployment, or the    *)
(* job of the document's own deployment, which has not looked yet whether it *)
(* is active.                                                                *)
Cleans(j, p) ==
    \/ at[j] = "drop"
    \/ at[j] \in {"format", "collect", "import", "check", "purge"} /\ active # 0 /\ dep[j] = active
    \/ at[j] \in {"check", "rollback"} /\ dep[j] = docs[p]
Cleared(p) ==
    \/ stage = "withdrawn"
    \/ stage \in {"published", "cleaned"} /\ active = issued
    \/ \E j \in Jobs : Cleans(j, p)
StaleIsCleared == faults = 0 => \A p \in Pages : docs[p] \in {0, active} \/ Cleared(p)

IInv == /\ TypeOK
        /\ InPublication
        /\ JobsArePublished
        /\ DocsAreOfPages
        /\ SoloIsAlone
        /\ StaleIsCleared
-----------------------------------------------------------------------------
LEMMA InitIInv == Init => IInv
  BY SearchAssumption DEF Init, IInv, TypeOK, Ids, InPublication, JobsArePublished, Indexing, Live,
     DocsAreOfPages, SoloIsAlone, StaleIsCleared

(* Steps of a deployment.                                                    *)
LEMMA StartIInv == ASSUME IInv, StartDeployment PROVE IInv'
  <1> USE SearchAssumption DEF IInv, TypeOK, Ids, StartDeployment, jobsUnchanged, jobsSame, NoFault
  <1>1. PICK s \in SUBSET Pages : content' = [content EXCEPT ![issued'] = s \cup {Home}]
    OBVIOUS
  <1>2. issued' = issued + 1 /\ issued' \in Ids
    OBVIOUS
  <1>3. content' \in [Ids -> SUBSET Pages] /\ \A d \in Ids : d <= issued => content'[d] = content[d]
    BY <1>1, <1>2
  <1>4. TypeOK'
    BY <1>2, <1>3
  <1>5. InPublication' /\ JobsArePublished'
    BY <1>2 DEF InPublication, JobsArePublished, Indexing, Live
  <1>6. DocsAreOfPages'
    <2>1. Home \in content'[issued']
      BY <1>1, <1>2
    <2>2. ASSUME NEW j \in Jobs, at[j] = "import" PROVE pages[j] \subseteq content'[dep[j]]
      BY <1>3, <2>2 DEF DocsAreOfPages, JobsArePublished, Indexing, Live
    <2>3. ASSUME NEW p \in Pages, docs[p] # 0 PROVE docs[p] <= issued' /\ p \in content'[docs[p]]
      BY <1>2, <1>3, <2>3 DEF DocsAreOfPages
    <2>4. ASSUME NEW d \in Ids, d <= issued' PROVE Home \in content'[d]
      BY <1>2, <1>3, <2>1, <2>4 DEF DocsAreOfPages
    <2> QED BY <2>2, <2>3, <2>4 DEF DocsAreOfPages
  <1>7. SoloIsAlone'
    <2> SUFFICES ASSUME NEW j \in Jobs, Live(j), solo[j] PROVE Alone(j)'
      BY DEF SoloIsAlone, Live
    <2>1. Alone(j) /\ (Indexing(j) => dep[j] \in Ids)
      BY DEF SoloIsAlone, JobsArePublished
    <2>2. active \in Ids => content'[active] = content[active]
      BY <1>3 DEF InPublication
    <2> QED BY <2>1, <2>2 DEF Alone, Live, Indexing
  <1>8. StaleIsCleared'
    BY DEF StaleIsCleared, Cleared, Cleans
  <1> QED BY <1>4, <1>5, <1>6, <1>7, <1>8

LEMMA FailIInv == ASSUME IInv, FailDeployment PROVE IInv'
  <1> USE SearchAssumption DEF IInv, TypeOK, Ids, FailDeployment, jobsSame, NoFault, Fault
  <1>1. TypeOK'
    OBVIOUS
  <1>2. InPublication' /\ JobsArePublished'
    BY DEF InPublication, JobsArePublished, Indexing, Live
  <1>3. DocsAreOfPages'
    BY DEF DocsAreOfPages
  <1>4. SoloIsAlone'
    BY DEF SoloIsAlone, Alone, Live
  <1>5. StaleIsCleared'
    BY DEF StaleIsCleared, Cleared, Cleans
  <1> QED BY <1>1, <1>2, <1>3, <1>4, <1>5

LEMMA WithdrawIInv == ASSUME IInv, Withdraw PROVE IInv'
  <1> USE SearchAssumption DEF IInv, TypeOK, Ids, Withdraw, jobsUnchanged, jobsSame, NoFault
  <1>1. TypeOK'
    OBVIOUS
  <1>2. InPublication' /\ JobsArePublished'
    BY DEF InPublication, JobsArePublished, Indexing, Live
  <1>3. DocsAreOfPages'
    BY DEF DocsAreOfPages
  <1>4. SoloIsAlone'
    <2> SUFFICES ASSUME NEW i \in Jobs, Live(i)', solo'[i] PROVE Alone(i)'
      BY DEF SoloIsAlone
    <2>1. Alone(i) /\ (Indexing(i) => dep[i] # 0)
      BY DEF SoloIsAlone, Live, JobsArePublished
    <2> QED BY <2>1 DEF Alone, Live, Indexing
  <1>5. StaleIsCleared'
    BY DEF StaleIsCleared, Cleared, Cleans
  <1> QED BY <1>1, <1>2, <1>3, <1>4, <1>5

LEMMA PublishIInv == ASSUME IInv, Publish PROVE IInv'
  <1> USE SearchAssumption DEF IInv, TypeOK, Ids, Publish, jobsUnchanged, jobsSame, NoFault
  <1>1. TypeOK'
    OBVIOUS
  <1>2. InPublication' /\ JobsArePublished'
    BY DEF InPublication, JobsArePublished, Indexing, Live
  <1>3. DocsAreOfPages'
    BY DEF DocsAreOfPages
  <1>4. SoloIsAlone'
    <2> SUFFICES ASSUME NEW i \in Jobs, Live(i)', solo'[i] PROVE Alone(i)'
      BY DEF SoloIsAlone
    <2>1. Alone(i) /\ dep[i] # active'
      BY DEF SoloIsAlone, Live, JobsArePublished
    <2> QED BY <2>1 DEF Alone, Live
  <1>5. StaleIsCleared'
    BY DEF StaleIsCleared, Cleared, Cleans
  <1> QED BY <1>1, <1>2, <1>3, <1>4, <1>5

LEMMA RemovePreviousIInv == ASSUME IInv, RemovePrevious PROVE IInv'
  <1> USE SearchAssumption DEF IInv, TypeOK, Ids, RemovePrevious, jobsUnchanged, jobsSame, NoFault
  <1>1. TypeOK'
    OBVIOUS
  <1>2. InPublication' /\ JobsArePublished'
    BY DEF InPublication, JobsArePublished, Indexing, Live
  <1>3. DocsAreOfPages'
    BY DEF DocsAreOfPages
  <1>4. SoloIsAlone'
    BY DEF SoloIsAlone, Alone, Live
  <1>5. StaleIsCleared'
    BY DEF StaleIsCleared, Cleared, Cleans
  <1> QED BY <1>1, <1>2, <1>3, <1>4, <1>5

-----------------------------------------------------------------------------
(* A new job.  It has found nothing so far, and no other one is alone.       *)
NewJobs(j, k, d) ==
    /\ kind' \in [Jobs -> {"none", "reindex", "drop"}]
    /\ at' \in [Jobs -> {"free", "format", "collect", "import", "check", "purge", "rollback", "drop", "ended"}]
    /\ dep' \in [Jobs -> 0 .. MaxIds] /\ solo' \in [Jobs -> BOOLEAN]
    /\ at[j] = "free" /\ at'[j] = (IF k = "drop" THEN "drop" ELSE "format") /\ dep'[j] = d
    /\ \A i \in Jobs \ {j} : at'[i] = at[i] /\ dep'[i] = dep[i] /\ ~solo'[i]
    /\ DocsAreOfPages' /\ SoloIsAlone'

LEMMA NewJob == ASSUME IInv, NEW j \in Jobs, NEW k \in {"reindex", "drop"}, NEW d \in 0 .. issued,
                       Schedule(j, k, d), UNCHANGED <<issued, content>>
                PROVE  NewJobs(j, k, d)
  <1> USE SearchAssumption DEF IInv, TypeOK, Ids, Schedule
  <1>1. at'[j] = (IF k = "drop" THEN "drop" ELSE "format") /\ dep'[j] = d /\ at[j] = "free"
    OBVIOUS
  <1>2. \A i \in Jobs \ {j} : at'[i] = at[i] /\ dep'[i] = dep[i] /\ ~solo'[i]
    OBVIOUS
  <1>3. SoloIsAlone'
    <2> SUFFICES ASSUME NEW i \in Jobs, Live(i)', solo'[i] PROVE Alone(i)'
      BY DEF SoloIsAlone
    <2>1. i = j /\ \A l \in Jobs : ~Live(l)
      BY <1>2
    <2> QED BY <1>1, <1>2, <2>1 DEF Alone, Live
  <1>4. DocsAreOfPages'
    BY <1>1, <1>2 DEF DocsAreOfPages
  <1>5. /\ kind' \in [Jobs -> {"none", "reindex", "drop"}] /\ dep' \in [Jobs -> 0 .. MaxIds]
        /\ at' \in [Jobs -> {"free", "format", "collect", "import", "check", "purge", "rollback", "drop", "ended"}]
        /\ solo' \in [Jobs -> BOOLEAN]
    OBVIOUS
  <1> QED BY <1>1, <1>2, <1>3, <1>4, <1>5 DEF NewJobs

LEMMA AfterDeployIInv == ASSUME IInv, NEW j \in Jobs, ScheduleAfterDeploy(j) PROVE IInv'
  <1>1. /\ Schedule(j, "reindex", issued) /\ issued \in 1 .. issued
        /\ UNCHANGED <<issued, content, dirs, docs, faults, pages>>
    BY SearchAssumption DEF IInv, TypeOK, Ids, InPublication, ScheduleAfterDeploy, Schedule, depVars
  <1>2. NewJobs(j, "reindex", issued)
    BY <1>1, NewJob DEF IInv, TypeOK
  <1>3. TypeOK' /\ InPublication'
    BY <1>1, <1>2, SearchAssumption DEF IInv, TypeOK, Ids, InPublication, ScheduleAfterDeploy, NewJobs, depVars
  <1>4. JobsArePublished'
    <2> SUFFICES ASSUME NEW i \in Jobs
                 PROVE  /\ dep'[i] <= issued' /\ (Indexing(i)' => dep'[i] \in Ids)
                        /\ stage' \in {"created", "withdrawn"} => dep'[i] < issued'
      BY DEF JobsArePublished
    <2>1. CASE i = j
      BY <1>1, <1>2, <2>1, SearchAssumption DEF IInv, TypeOK, Ids, InPublication, ScheduleAfterDeploy, NewJobs, depVars, Indexing
    <2>2. CASE i # j
      BY <1>1, <1>2, <2>2 DEF IInv, JobsArePublished, ScheduleAfterDeploy, NewJobs, depVars, Indexing, Live
    <2> QED BY <2>1, <2>2
  <1>5. StaleIsCleared'
    BY <1>1, <1>2 DEF IInv, TypeOK, InPublication, ScheduleAfterDeploy, depVars, NewJobs, StaleIsCleared, Cleared, Cleans
  <1> QED BY <1>2, <1>3, <1>4, <1>5 DEF IInv, NewJobs

LEMMA MigrateIInv == ASSUME IInv, NEW j \in Jobs, Migrate(j) PROVE IInv'
  <1>1. /\ Schedule(j, "reindex", active) /\ active \in 1 .. issued
        /\ UNCHANGED <<issued, content, dirs, docs, faults, pages>>
    BY SearchAssumption DEF IInv, TypeOK, Ids, InPublication, Migrate, Schedule, depVars
  <1>2. NewJobs(j, "reindex", active)
    BY <1>1, NewJob DEF IInv, TypeOK
  <1>3. TypeOK' /\ InPublication'
    BY <1>1, <1>2, SearchAssumption DEF IInv, TypeOK, Ids, InPublication, Migrate, NewJobs, depVars
  <1>4. JobsArePublished'
    <2> SUFFICES ASSUME NEW i \in Jobs
                 PROVE  /\ dep'[i] <= issued' /\ (Indexing(i)' => dep'[i] \in Ids)
                        /\ stage' \in {"created", "withdrawn"} => dep'[i] < issued'
      BY DEF JobsArePublished
    <2>1. CASE i = j
      BY <1>1, <1>2, <2>1, SearchAssumption DEF IInv, TypeOK, Ids, InPublication, Migrate, NewJobs, depVars, Indexing
    <2>2. CASE i # j
      BY <1>1, <1>2, <2>2 DEF IInv, JobsArePublished, Migrate, NewJobs, depVars, Indexing, Live
    <2> QED BY <2>1, <2>2
  <1>5. StaleIsCleared'
    BY <1>1, <1>2 DEF IInv, TypeOK, InPublication, Migrate, depVars, NewJobs, StaleIsCleared, Cleared, Cleans
  <1> QED BY <1>2, <1>3, <1>4, <1>5 DEF IInv, NewJobs

LEMMA DeleteIInv == ASSUME IInv, NEW j \in Jobs, DeleteActive(j) PROVE IInv'
  <1>1. /\ Schedule(j, "drop", 0) 
        /\ UNCHANGED <<issued, content, dirs, docs, faults, pages>>
    BY SearchAssumption DEF IInv, TypeOK, Ids, InPublication, DeleteActive, Schedule, depVars
  <1>2. NewJobs(j, "drop", 0)
    BY <1>1, NewJob DEF IInv, TypeOK
  <1>3. TypeOK' /\ InPublication'
    BY <1>1, <1>2, SearchAssumption DEF IInv, TypeOK, Ids, InPublication, DeleteActive, NewJobs, depVars
  <1>4. JobsArePublished'
    <2> SUFFICES ASSUME NEW i \in Jobs
                 PROVE  /\ dep'[i] <= issued' /\ (Indexing(i)' => dep'[i] \in Ids)
                        /\ stage' \in {"created", "withdrawn"} => dep'[i] < issued'
      BY DEF JobsArePublished
    <2>1. CASE i = j
      BY <1>1, <1>2, <2>1, SearchAssumption DEF IInv, TypeOK, Ids, InPublication, DeleteActive, NewJobs, depVars, Indexing
    <2>2. CASE i # j
      BY <1>1, <1>2, <2>2 DEF IInv, JobsArePublished, DeleteActive, NewJobs, depVars, Indexing, Live
    <2> QED BY <2>1, <2>2
  <1>5. StaleIsCleared'
    BY <1>1, <1>2 DEF IInv, TypeOK, InPublication, DeleteActive, depVars, NewJobs, StaleIsCleared, Cleared, Cleans
  <1> QED BY <1>2, <1>3, <1>4, <1>5 DEF IInv, NewJobs

-----------------------------------------------------------------------------
(* Steps of a job.                                                           *)
LEMMA OpenIInv == ASSUME IInv, NEW j \in Jobs, OpenFormat(j) PROVE IInv'
  <1> USE SearchAssumption DEF IInv, TypeOK, Ids, OpenFormat, Step, End, depVars
  <1>1. TypeOK'
    OBVIOUS
  <1>2. InPublication' /\ JobsArePublished'
    BY DEF InPublication, JobsArePublished, Indexing, Live
  <1>3. DocsAreOfPages'
    BY DEF DocsAreOfPages
  <1>4. \A i \in Jobs : Live(i)' => Live(i) /\ at'[i] \in {at[i], "collect"}
    BY DEF Live
  <1>5. SoloIsAlone'
    <2> SUFFICES ASSUME NEW i \in Jobs, Live(i)', solo'[i] PROVE Alone(i)'
      BY DEF SoloIsAlone
    <2>1. Alone(i) /\ at'[i] \in {at[i], "collect"}
      BY <1>4 DEF SoloIsAlone
    <2> QED BY <1>4, <2>1 DEF Alone
  <1>6. StaleIsCleared'
    BY DEF StaleIsCleared, Cleared, Cleans, InPublication
  <1> QED BY <1>1, <1>2, <1>3, <1>5, <1>6

LEMMA CollectIInv == ASSUME IInv, NEW j \in Jobs, Collect(j) PROVE IInv'
  <1> USE SearchAssumption DEF IInv, TypeOK, Ids, Collect, Step, depVars
  <1>1. TypeOK'
    OBVIOUS
  <1>2. InPublication' /\ JobsArePublished'
    BY DEF InPublication, JobsArePublished, Indexing, Live
  <1>3. DocsAreOfPages'
    BY DEF DocsAreOfPages, JobsArePublished, Indexing, Live
  <1>4. SoloIsAlone'
    BY DEF SoloIsAlone, Alone, Live, InPublication, JobsArePublished, Indexing
  <1>5. StaleIsCleared'
    BY DEF StaleIsCleared, Cleared, Cleans, InPublication
  <1> QED BY <1>1, <1>2, <1>3, <1>4, <1>5

LEMMA ImportIInv == ASSUME IInv, NEW j \in Jobs, Import(j) PROVE IInv'
  <1> USE SearchAssumption DEF IInv, TypeOK, Ids, Import, Step, depVars
  <1>1. TypeOK'
    OBVIOUS
  <1>2. InPublication' /\ JobsArePublished'
    BY DEF InPublication, JobsArePublished, Indexing, Live
  <1>3. DocsAreOfPages'
    BY DEF DocsAreOfPages, JobsArePublished, Indexing, Live
  <1>4. SoloIsAlone'
    BY DEF SoloIsAlone, Alone, Live, InPublication, JobsArePublished, Indexing
  <1>5. StaleIsCleared'
    BY DEF StaleIsCleared, Cleared, Cleans
  <1> QED BY <1>1, <1>2, <1>3, <1>4, <1>5

LEMMA CheckIInv == ASSUME IInv, NEW j \in Jobs, CheckActive(j) PROVE IInv'
  <1>1. PICK to \in {"purge", "rollback"} :
          /\ at[j] = "check" /\ at' = [at EXCEPT ![j] = to]
          /\ to = "purge" => active = dep[j]
          /\ to = "rollback" => active # dep[j] \/ faults' # 0
    BY SearchAssumption DEF IInv, TypeOK, CheckActive, Step, Fault
  <1>2. faults' \in 0 .. MaxFaults /\ (faults' = 0 => faults = 0) /\ UNCHANGED <<depVars, kind, dep, pages, solo, docs>>
    BY SearchAssumption DEF IInv, TypeOK, CheckActive, NoFault, Fault
  <1> USE SearchAssumption DEF IInv, TypeOK, Ids, depVars
  <1>3. TypeOK'
    BY <1>1, <1>2
  <1>4. InPublication' /\ JobsArePublished'
    BY <1>1, <1>2 DEF InPublication, JobsArePublished, Indexing, Live
  <1>5. DocsAreOfPages'
    BY <1>1, <1>2 DEF DocsAreOfPages
  <1>6. SoloIsAlone'
    <2> SUFFICES ASSUME NEW i \in Jobs, Live(i)', solo'[i] PROVE Alone(i)'
      BY DEF SoloIsAlone
    <2>1. Live(i) /\ Alone(i) /\ \A l \in Jobs : Live(l)' => Live(l)
      BY <1>1, <1>2 DEF SoloIsAlone, Live
    <2> QED BY <1>1, <1>2, <2>1 DEF Alone
  <1>7. StaleIsCleared'
    <2> SUFFICES ASSUME faults' = 0, NEW p \in Pages, docs[p] \notin {0, active} PROVE Cleared(p)'
      BY <1>2 DEF StaleIsCleared
    <2>1. Cleared(p)
      BY <1>2 DEF StaleIsCleared
    <2>2. ASSUME NEW i \in Jobs, Cleans(i, p) PROVE Cleans(i, p)'
      BY <1>1, <1>2, <2>2 DEF Cleans
    <2> QED BY <1>2, <2>1, <2>2 DEF Cleared
  <1> QED BY <1>3, <1>4, <1>5, <1>6, <1>7

LEMMA PurgeIInv == ASSUME IInv, NEW j \in Jobs, Purge(j) PROVE IInv'
  <1> USE SearchAssumption DEF IInv, TypeOK, Ids, Purge, Step, End, depVars
  <1>1. TypeOK'
    OBVIOUS
  <1>2. InPublication' /\ JobsArePublished'
    BY DEF InPublication, JobsArePublished, Indexing, Live
  <1>3. DocsAreOfPages'
    BY DEF DocsAreOfPages
  <1>4. SoloIsAlone'
    BY DEF SoloIsAlone, Alone, Live
  <1>5. StaleIsCleared'
    <2> SUFFICES ASSUME faults = 0, NEW p \in Pages, docs'[p] \notin {0, active} PROVE Cleared(p)'
      BY DEF StaleIsCleared
    <2>1. docs'[p] = docs[p] /\ docs[p] = dep[j] /\ Cleared(p)
      BY DEF StaleIsCleared
    <2>2. ASSUME NEW i \in Jobs, Cleans(i, p) PROVE Cleans(i, p)'
      BY <2>1, <2>2 DEF Cleans
    <2> QED BY <2>1, <2>2 DEF Cleared
  <1> QED BY <1>1, <1>2, <1>3, <1>4, <1>5

LEMMA RollbackIInv == ASSUME IInv, NEW j \in Jobs, Rollback(j) PROVE IInv'
  <1> USE SearchAssumption DEF IInv, TypeOK, Ids, Rollback, Step, End, depVars
  <1>1. TypeOK'
    OBVIOUS
  <1>2. InPublication' /\ JobsArePublished'
    BY DEF InPublication, JobsArePublished, Indexing, Live
  <1>3. DocsAreOfPages'
    BY DEF DocsAreOfPages
  <1>4. SoloIsAlone'
    BY DEF SoloIsAlone, Alone, Live
  <1>5. StaleIsCleared'
    BY DEF StaleIsCleared, Cleared, Cleans
  <1> QED BY <1>1, <1>2, <1>3, <1>4, <1>5

LEMMA DropIInv == ASSUME IInv, NEW j \in Jobs, DropProject(j) PROVE IInv'
  <1> USE SearchAssumption DEF IInv, TypeOK, Ids, DropProject, Step, End, depVars
  <1>1. TypeOK'
    OBVIOUS
  <1>2. InPublication' /\ JobsArePublished'
    BY DEF InPublication, JobsArePublished, Indexing, Live
  <1>3. DocsAreOfPages'
    BY DEF DocsAreOfPages
  <1>4. SoloIsAlone'
    BY DEF SoloIsAlone, Alone, Live
  <1>5. StaleIsCleared'
    BY DEF StaleIsCleared, Cleared, Cleans
  <1> QED BY <1>1, <1>2, <1>3, <1>4, <1>5

(* Failures: nobody promises to clear the index any more.                    *)
LEMMA FailJobIInv == ASSUME IInv, NEW j \in Jobs, FailJob(j) PROVE IInv'
  <1> USE SearchAssumption DEF IInv, TypeOK, Ids, FailJob, Fault, Step, End, depVars
  <1>1. TypeOK'
    OBVIOUS
  <1>2. InPublication' /\ JobsArePublished'
    BY DEF InPublication, JobsArePublished, Indexing, Live
  <1>3. DocsAreOfPages'
    BY DEF DocsAreOfPages
  <1>4. SoloIsAlone'
    BY DEF SoloIsAlone, Alone, Live
  <1>5. StaleIsCleared'
    BY DEF StaleIsCleared
  <1> QED BY <1>1, <1>2, <1>3, <1>4, <1>5

LEMMA CrashIInv == ASSUME IInv, Crash PROVE IInv'
  <1> USE SearchAssumption DEF IInv, TypeOK, Ids, Crash, Fault, Live, Quiet
  <1>1. TypeOK'
    OBVIOUS
  <1>2. InPublication' /\ JobsArePublished'
    BY DEF InPublication, JobsArePublished, Indexing
  <1>3. DocsAreOfPages'
    BY DEF DocsAreOfPages
  <1>4. SoloIsAlone'
    BY DEF SoloIsAlone, Alone
  <1>5. StaleIsCleared'
    BY DEF StaleIsCleared
  <1> QED BY <1>1, <1>2, <1>3, <1>4, <1>5
-----------------------------------------------------------------------------
LEMMA StutterIInv == IInv /\ UNCHANGED vars => IInv'
  BY DEF IInv, TypeOK, InPublication, JobsArePublished, Indexing, Live, DocsAreOfPages, SoloIsAlone, Alone,
     StaleIsCleared, Cleared, Cleans, vars, depVars

LEMMA NextIInv == IInv /\ [Next]_vars => IInv'
  <1> SUFFICES ASSUME IInv, [Next]_vars PROVE IInv'
    OBVIOUS
  <1>1. CASE StartDeployment
    BY <1>1, StartIInv
  <1>2. CASE Deploy
    BY <1>2, FailIInv, WithdrawIInv, PublishIInv, RemovePreviousIInv, AfterDeployIInv DEF Deploy
  <1>3. ASSUME NEW j \in Jobs, Migrate(j) \/ DeleteActive(j) \/ JobStep(j) \/ FailJob(j) PROVE IInv'
    BY <1>3, MigrateIInv, DeleteIInv, OpenIInv, CollectIInv, ImportIInv, CheckIInv, PurgeIInv, RollbackIInv,
       DropIInv, FailJobIInv DEF JobStep
  <1>4. CASE Crash
    BY <1>4, CrashIInv
  <1>5. CASE UNCHANGED vars
    BY <1>5, StutterIInv
  <1> QED BY <1>1, <1>2, <1>3, <1>4, <1>5 DEF Next

(* The strengthening of TypeOK and NoStalePage is an invariant.              *)
THEOREM InductiveInvariant == Spec => []IInv
  BY InitIInv, NextIInv, PTL DEF Spec

(* The variables of SearchIndex always hold values of their types.           *)
THEOREM TypeCorrect == Spec => []TypeOK
  BY InductiveInvariant, PTL DEF IInv

(* Without failures, when nothing is under way, only pages of the active     *)
(* deployment can be found: nobody is left who would clear a stale one.      *)
THEOREM NoStalePageHolds == Spec => []NoStalePage
  <1>1. IInv => NoStalePage
    BY DEF IInv, StaleIsCleared, Cleared, Cleans, NoStalePage, Quiet, Live
  <1> QED BY <1>1, InductiveInvariant, PTL

(* A reindex that has been alone and whose deployment is active leaves the   *)
(* pages of that deployment and nothing else.                                *)
THEOREM SoloReindexHolds == Spec => SoloReindexIsExact
  <1>1. ASSUME IInv, NEW j \in Jobs, Purge(j), solo[j], active = dep[j] PROVE Exact'
    <2>1. Alone(j) /\ at[j] = "purge" /\ dep[j] \in Ids
      BY <1>1 DEF IInv, SoloIsAlone, Live, Purge, End, Step, JobsArePublished, Indexing
    <2>2. \A p \in Pages : docs[p] = active <=> p \in content[active]
      BY <1>1, <2>1 DEF IInv, TypeOK, Ids, Alone, DocsAreOfPages
    <2> QED BY <1>1, <2>2 DEF IInv, TypeOK, Exact, Purge, depVars
  <1>2. IInv /\ [Next]_vars => [\A j \in Jobs : Purge(j) /\ solo[j] /\ active = dep[j] => Exact']_vars
    BY <1>1
  <1> QED BY <1>2, InductiveInvariant, PTL DEF Spec, SoloReindexIsExact
=============================================================================
