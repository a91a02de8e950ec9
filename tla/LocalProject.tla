---------------------------- MODULE LocalProject -----------------------------
(* One project from the files of its author to what its readers get:         *)
(* deployments that copy, check and ingest the files, readers of the pages   *)
(* of the last ingestion in the copy of the active deployment, and the       *)
(* issues that a deployment collects while it runs and while it is read.     *)
(* What LocalProject and the preview answer is in Answers.                   *)
(*                                                                           *)
(* Deployment says when deployments may run and crash, Ingestion how they    *)
(* share the database, ProjectCache how long answers live.  Here they follow *)
(* one another, and the rows, the copy and the reader get apart: ingestion   *)
(* commits before the deployment becomes active, which may fail in between,  *)
(* and the copy of the previous one is removed under its readers.            *)
EXTENDS ProjectRepo

CONSTANTS
    Modid,              \* the project's mod, and its only version
    SchemaVersions,     \* the versions of the schema to choose from
    Catalog,            \* by schema: the files there may be, [path, text] by a name
    FirstFiles,         \* the names of those the project starts with
    Deletable,          \* the names of those that may be deleted
    Others,             \* the rows of the other versions, that of the game among them
    OthersKnown,        \* the items and tags they have
    SomeRequests,       \* the references, with locales, that readers ask for
    MaxChanges,         \* by schema: how often the author changes a file
    MaxDeployments, MaxReads    \* bounds of the model

(* The steps of a deployment: run_deployment_pipeline, and what follows it.  *)
Steps == {"copy", "ingest", "activate", "remove", "fail"}

ASSUME LocalProjectAssumption ==
    /\ Builtin \in DOMAIN Others /\ Modid \notin DOMAIN Others \cup BuiltinNamespaces
    /\ None \notin Nat \cup Steps \cup PageIssues
    /\ \A v \in SchemaVersions :
          /\ IsFiniteSet(DOMAIN Catalog[v]) /\ FirstFiles \cup Deletable \subseteq DOMAIN Catalog[v]
          /\ \A names \in SUBSET DOMAIN Catalog[v] : names # None
          /\ \A f \in DOMAIN Catalog[v] : Catalog[v][f].path \in Paths /\ IsText(Catalog[v][f].text)
    /\ MaxChanges \in [SchemaVersions -> Nat] /\ {MaxDeployments, MaxReads} \subseteq Nat

VARIABLES
    schemaVersion,  \* the version of the schema
    checkout,       \* the author's files, those of the next checkout (names, as in copies)
    deployments,    \* the rows of the deployments with the copies they keep: [status, active, copy]
    job,            \* the next step of the last deployment, or None
    dbRows,         \* the rows of the version
    ingested,       \* the deployment whose copy they were made of (history)
    dbKnown,        \* the items and tags that have a row
    reader,         \* a request for a content page, or None
    reports,        \* the tasks that store an issue
    issues,         \* the rows of the issues
    met,            \* the files of a deployment that a reader could not read (history)
    changes, reads  \* counters of the model

vars == <<schemaVersion, checkout, deployments, job, dbRows, ingested, dbKnown, reader, reports, issues, met, changes, reads>>

(* The files of a checkout or a copy by their paths.                         *)
Contents(names) ==
    LET named == Catalog[schemaVersion]
    IN  [p \in {named[f].path : f \in names} |-> named[CHOOSE f \in names : named[f].path = p].text]

WithOthers(rows) == [v \in DOMAIN Others \cup {Modid} |-> IF v = Modid THEN rows ELSE Others[v]]
Db == WithOthers(dbRows)
Latest == Len(deployments)
-----------------------------------------------------------------------------
(* What a copy has: the checks of the files (validate_file).  A mutated      *)
(* form: translations of content pages are not content pages.                *)
IsOriginalPage(path) == IsPrefix(SectionDir(schemaVersion, "content"), path.dir)
IsContentPage(path) ==
    LET translated == TranslationsDir(schemaVersion)
        inside == SubSeq(path.dir, Len(translated) + 2, Len(path.dir))
    IN  \/ IsPrefix(SectionDir(schemaVersion, "content"), path.dir)
        \/ IsPrefix(translated, path.dir) /\ IsPrefix(SectionDir(schemaVersion, "content"), inside)
ValidFile(fs, path) ==
    IF path.ext = "mdx"
    THEN ParseFrontmatter(fs[path]) # None /\ (IsContentPage(path) => fs[path].ids # <<>>)
    ELSE fs[path].json
InvalidFiles(fs) == {p \in DOMAIN fs : ~ValidFile(fs, p)}

(* read_page: what keeps a file from being read, or None.                    *)
ReadPageError(fs, path) ==
    IF path \notin DOMAIN fs THEN "not_found"
    ELSE IF ~fs[path].body THEN "malformed_markdown"
    ELSE IF ParseFrontmatter(fs[path]) = None THEN "malformed_frontmatter"
    ELSE None
ContentPagePath(fs, locale, slug) == Localized(fs, schemaVersion, locale, PagePath(schemaVersion, "content", slug))

(* get_active_deployment: the newest of the active ones.                     *)
ActiveOnes == {d \in 1 .. Latest : deployments[d].active}
ActiveDeployment == IF ActiveOnes = {} THEN None ELSE Max(ActiveOnes)
CopyOf(d) == IF deployments[d].copy = None THEN <<>> ELSE Contents(deployments[d].copy)
-----------------------------------------------------------------------------
(* Issues.  A report is a detached task: unless there is an issue of the     *)
(* same deployment, kind and file (of any file, if it has none), it stores   *)
(* its own.  Issues are a set: whether two tasks that find none at the same  *)
(* time both store theirs is not seen, and the two statements are one step.  *)
(* justified: the rows were made of the copy that was read.                  *)
Report(d, kind, file, justified) == [deployment |-> d, kind |-> kind, file |-> file, justified |-> justified]

(* A mutated form: whatever the deployment.                                  *)
SameKindAndFile(issue, report) ==
    issue.kind = report.kind /\ (report.file # None => issue.file = report.file)
SameIssue(issue, report) ==
    /\ issue.deployment = report.deployment /\ issue.kind = report.kind
    /\ report.file # None => issue.file = report.file

StoreIssue(report) ==
    /\ reports' = reports \ {report}
    /\ issues' = issues \cup IF \E i \in issues : SameIssue(i, report) THEN {} ELSE {report}
    /\ UNCHANGED <<schemaVersion, checkout, deployments, job, dbRows, ingested, dbKnown, reader, met, changes, reads>>

(* deployment_has_errors, and get_project_status.                            *)
HasErrors(d) == \E i \in issues : i.deployment = d
HasFailing ==
    LET failed == {d \in 1 .. Latest : deployments[d].status = "error"}
    IN  failed # {} /\ (ActiveDeployment # None => Max(failed) > ActiveDeployment)
ProjectStatus ==
    IF \E d \in 1 .. Latest : deployments[d].status = "loading" THEN "loading"
    ELSE IF ActiveDeployment = None THEN "inactive"
    ELSE IF HasFailing THEN "error"
    ELSE IF HasErrors(ActiveDeployment) THEN "at_risk"
    ELSE "healthy"
-----------------------------------------------------------------------------
(* The author.  Only a copy and the preview look at the files: it makes no   *)
(* difference to let them change when nothing else is going on, and as long  *)
(* as there is a deployment to come.                                         *)
Change(new) ==
    /\ changes < MaxChanges[schemaVersion] /\ Latest < MaxDeployments /\ job = None /\ reader = None /\ reports = {}
    /\ checkout' = new
    /\ changes' = changes + 1
    /\ UNCHANGED <<schemaVersion, deployments, job, dbRows, ingested, dbKnown, reader, reports, issues, met, reads>>
Write(f) == Change({g \in checkout : Catalog[schemaVersion][g].path # Catalog[schemaVersion][f].path} \cup {f})
Delete(f) == Change(checkout \ {f})

(* A deployment: the row, the copy with the checks, the ingestion, the       *)
(* activation, the removal of the previous copy.                             *)
StartDeployment ==
    /\ job = None /\ Latest < MaxDeployments
    /\ deployments' = Append(deployments, [status |-> "loading", active |-> FALSE, copy |-> None])
    /\ job' = "copy"
    /\ UNCHANGED <<schemaVersion, checkout, dbRows, ingested, dbKnown, reader, reports, issues, met, changes, reads>>
CopyFiles ==
    /\ job = "copy"
    /\ LET invalid == InvalidFiles(Contents(checkout))
       IN  IF invalid = {}
           THEN /\ deployments' = [deployments EXCEPT ![Latest].copy = checkout]
                /\ job' = "ingest" /\ UNCHANGED reports
           ELSE /\ reports' = reports \cup {Report(Latest, "file", p, TRUE) : p \in invalid}
                /\ job' = "fail" /\ UNCHANGED deployments
    /\ UNCHANGED <<schemaVersion, checkout, dbRows, ingested, dbKnown, reader, issues, met, changes, reads>>
CommitVersion ==
    /\ job = "ingest"
    /\ \E result \in {Ingest(CopyOf(Latest), schemaVersion, Modid, WithOthers(NoRows), Modid, dbKnown)} :
          /\ reports' = reports \cup {Report(Latest, "ingestor", p, TRUE) : p \in result.bad}
          /\ IF result.ok
             THEN dbRows' = result.rows /\ dbKnown' = result.known /\ ingested' = Latest /\ job' = "activate"
             ELSE job' = "fail" /\ UNCHANGED <<dbRows, dbKnown, ingested>>
    /\ UNCHANGED <<schemaVersion, checkout, deployments, reader, issues, met, changes, reads>>
(* A mutated form: the previous deployment stays active.                     *)
ActivateToo(rows) == [rows EXCEPT ![Len(rows)].active = TRUE, ![Len(rows)].status = "success"]
ActivateLast(rows) ==
    [d \in DOMAIN rows |-> [rows[d] EXCEPT !.active = (d = Len(rows)), !.status = IF d = Len(rows) THEN "success" ELSE @]]
Activate ==
    /\ job = "activate"
    /\ deployments' = ActivateLast(deployments)
    /\ job' = "remove"
    /\ UNCHANGED <<schemaVersion, checkout, dbRows, ingested, dbKnown, reader, reports, issues, met, changes, reads>>
RemovePrevious ==
    /\ job = "remove"
    /\ deployments' = [d \in 1 .. Latest |-> [deployments[d] EXCEPT !.copy = IF d = Latest THEN @ ELSE None]]
    /\ job' = None
    /\ UNCHANGED <<schemaVersion, checkout, dbRows, ingested, dbKnown, reader, reports, issues, met, changes, reads>>

(* A failure is explained unless an issue has been stored by then.  It may   *)
(* follow the commit: the platforms are verified after it.  A mutated form:  *)
(* an issue of whatever deployment explains it.                              *)
EndFailed(explained) ==
    /\ reports' = reports \cup IF explained THEN {} ELSE {Report(Latest, "internal", None, TRUE)}
    /\ deployments' = [deployments EXCEPT ![Latest].status = "error", ![Latest].copy = None]
    /\ job' = None
    /\ UNCHANGED <<schemaVersion, checkout, dbRows, ingested, dbKnown, reader, issues, met, changes, reads>>
FailLoosely == job \in {"fail", "activate"} /\ EndFailed(issues # {})
Fail == job \in {"fail", "activate"} /\ EndFailed(HasErrors(Latest))
-----------------------------------------------------------------------------
(* A reader of a content page: the deployment, the slug in the database, the *)
(* file in the copy, which may have been removed by then.                    *)
Request(ref, locale) ==
    /\ reader = None /\ reads < MaxReads
    /\ ActiveDeployment # None /\ deployments[ActiveDeployment].copy # None
    /\ reader' = [deployment |-> ActiveDeployment, ref |-> ref, locale |-> locale, slug |-> None, justified |-> FALSE]
    /\ reads' = reads + 1
    /\ UNCHANGED <<schemaVersion, checkout, deployments, job, dbRows, ingested, dbKnown, reports, issues, met, changes>>
FindPage ==
    /\ reader # None /\ reader.slug = None
    /\ LET slug == GetProjectPagePath(Db, Modid, reader.ref)
       IN  reader' = IF slug = None THEN None
                     ELSE [reader EXCEPT !.slug = slug, !.justified = (ingested = reader.deployment)]
    /\ UNCHANGED <<schemaVersion, checkout, deployments, job, dbRows, ingested, dbKnown, reports, issues, met, changes, reads>>
ReadContentPage ==
    /\ reader # None /\ reader.slug # None
    /\ LET copy == CopyOf(reader.deployment)
           path == ContentPagePath(copy, reader.locale, reader.slug)
           bad == ReadPageError(copy, path) # None \/ copy[path].ids = <<>>
           justified == reader.justified /\ deployments[reader.deployment].copy # None
       IN  /\ reports' = reports \cup IF bad THEN {Report(reader.deployment, "page", path, justified)} ELSE {}
           /\ met' = met \cup IF bad THEN {<<reader.deployment, path>>} ELSE {}
    /\ reader' = None
    /\ UNCHANGED <<schemaVersion, checkout, deployments, job, dbRows, ingested, dbKnown, issues, changes, reads>>
-----------------------------------------------------------------------------
Init ==
    /\ schemaVersion \in SchemaVersions /\ checkout = FirstFiles
    /\ deployments = <<>> /\ job = None
    /\ dbRows = NoRows /\ ingested = None /\ dbKnown = OthersKnown
    /\ reader = None /\ reports = {} /\ issues = {} /\ met = {}
    /\ changes = 0 /\ reads = 0

Next ==
    \/ \E f \in DOMAIN Catalog[schemaVersion] \ checkout : Write(f)
    \/ \E f \in Deletable \cap checkout : Delete(f)
    \/ StartDeployment \/ CopyFiles \/ CommitVersion \/ Activate \/ RemovePrevious \/ Fail
    \/ \E request \in SomeRequests : Request(request[1], request[2])
    \/ FindPage \/ ReadContentPage
    \/ \E report \in reports : StoreIssue(report)

Spec == Init /\ [][Next]_vars
-----------------------------------------------------------------------------
(* The states and the rows have the types that the code gives them: one      *)
(* active deployment at most, which is not the failed one, a loading one     *)
(* while there is a job.                                                     *)
TypeOK ==
    /\ schemaVersion \in SchemaVersions /\ DOMAIN dbRows = DOMAIN NoRows /\ job \in Steps \cup {None}
    /\ \A d \in 1 .. Latest :
          /\ deployments[d].status \in {"loading", "success", "error"}
          /\ deployments[d].active => deployments[d].status = "success"
          /\ deployments[d].status = "loading" <=> (d = Latest /\ job \in {"copy", "ingest", "activate", "fail"})
    /\ Cardinality(ActiveOnes) <= 1
    /\ \A i \in issues : i.deployment \in 1 .. Latest /\ i.kind \in {"file", "ingestor", "internal", "page"}

(* The issues of reading are true: if the rows were those of the copy when   *)
(* the page was looked up and the copy was still there when it was opened,   *)
(* only malformed Markdown can be reported, everything else has been checked *)
(* before.                                                                   *)
ReportsAreTrue ==
    \A i \in issues : i.kind = "page" /\ i.justified /\ deployments[i.deployment].copy # None =>
        ReadPageError(CopyOf(i.deployment), i.file) = "malformed_markdown"

(* Once all reports are through, a project one of whose pages could not be   *)
(* read does not pass for healthy.                                           *)
StatusTellsOfIssues ==
    reports = {} /\ (\E m \in met : m[1] = ActiveDeployment) => ProjectStatus # "healthy"

(* Once all reports are through, a failed deployment has an issue to show,   *)
(* although the failure does not wait for the reports.                       *)
FailureIsExplained ==
    reports = {} => \A d \in 1 .. Latest : deployments[d].status = "error" => HasErrors(d)
=============================================================================
