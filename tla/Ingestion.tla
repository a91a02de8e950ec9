----------------------------- MODULE Ingestion ------------------------------
(* The transactions in which deployments of several projects write the rows  *)
(* of their versions (setup_version and revalidate_project of                *)
(* deployment/manager.rs, the Ingestor, query/ingestor.rs), interleaved      *)
(* statement by statement as PostgreSQL does at READ COMMITTED.              *)
(*                                                                           *)
(* A transaction reads what is committed and what it wrote itself.  A        *)
(* statement waits for the open transaction that has inserted the same key,  *)
(* deleted the row it refers to or refreshed the same view.  A statement     *)
(* that fails aborts its transaction; of those that wait for each other      *)
(* PostgreSQL fails one.  One task at a time deploys a project (TaskManager).*)
EXTENDS ProjectData

CONSTANTS
    Projects,
    Modid,          \* Modid[p]: the namespace of project p
    Files,          \* Files[c]: the files of checkout c
    Jobs,           \* Jobs[p]: the checkouts of the versions of p there may be
    NoVersion,      \* instead of a checkout: there is no such version
    BuiltinTypes,   \* the recipe types of the game
    MaxDeploys,     \* a bound on the deployments of a project
    MaxFaults       \* a bound on the failures of statements

ASSUME IngestionAssumption ==
    /\ IsFiniteSet(Projects) /\ "game" \notin Projects /\ BuiltinTypes \subseteq Locs
    /\ Modid \in [Projects -> {Namespace[l] : l \in Valid} \ BuiltinNamespaces]
    /\ \A p, q \in Projects : Modid[p] = Modid[q] => p = q
    /\ \A c \in DOMAIN Files : IsCheckout(Files[c])
    /\ DOMAIN Jobs = Projects /\ \A p \in Projects : Jobs[p] # {} /\ \A j \in Jobs[p] :
          /\ j.default \in DOMAIN Files \ {NoVersion} /\ j.named \in DOMAIN Files
          /\ Files[j.default].types \cup Files[j.named].types \subseteq {l \in Valid : Namespace[l] = Modid[p]}
    /\ NoVersion \in DOMAIN Files
    /\ Files[NoVersion] = [pages |-> {}, tags |-> <<>>, types |-> {}, recipes |-> {}, benches |-> <<>>]
    /\ MaxDeploys \in Nat /\ MaxFaults \in Nat

VARIABLES
    shared,     \* the committed keys of item, tag and the game's project_item
    rows,       \* rows[v]: the committed rows of version v
    benches,    \* the committed rows of recipe_workbench
    view,       \* the materialized views
    reported,   \* the files with an issue, per deployment
    count,      \* count[p]: the deployments of p so far
    job,        \* job[p]: the checkout that is deployed
    phase,      \* phase[p]: which of its transactions is open
    tx,         \* tx[p]: that transaction
    faults

databaseVars == <<shared, rows, benches, view>>
vars == <<databaseVars, reported, count, job, phase, tx, faults>>

Views == {"flat", "best"}
Versions == Projects \X {"default", "named"}
Game == <<"game", "default">>

(* Rows by what identifies them: the version, which deployment wrote them    *)
(* (rows of the same key written again are other rows), the location.        *)
Row(v, gen, l) == [version |-> v, gen |-> gen, loc |-> l]
NoRows == [gen |-> 0, source |-> NoVersion, recipes |-> {}]
NoRow == Row(Game, 0, "none")

NewTx(alone) ==
    [step |-> 1,
     turn |-> 0,            \* since when the statement waits, 0 if it does not
     aborted |-> FALSE,     \* a statement failed, and the code went on
     keys |-> {},           \* the shared keys it has inserted
     recipes |-> {}, benches |-> {},    \* its rows
     found |-> NoRow,       \* the recipe type it has looked up
     snapshot |-> [v \in Versions |-> 0],   \* what the refresh that waits has read
     views |-> <<>>,        \* the views it has refreshed
     solo |-> alone]        \* whether it has been the only one all along

Open(p) == phase[p] # "idle"
Version(p) == <<p, phase[p]>>
Source(p) == IF phase[p] = "named" THEN job[p].named ELSE job[p].default
Scripts == [p \in Projects |->
    [c \in DOMAIN Files |-> [purge \in BOOLEAN |-> Script(Files[c], Modid[p], purge)]]]
ScriptOf(p) == IF phase[p] = "revalidate" THEN Statement("refresh", "best")
               ELSE Scripts[p][Source(p)][phase[p] = "default"]
Current(p) == ScriptOf(p)[tx[p].step]
Waits(p) == tx[p].turn # 0
Finished(p) == tx[p].step > Len(ScriptOf(p))
At(p, do) == Open(p) /\ ~Finished(p) /\ Current(p).do = do
Done(p, do) == Open(p) /\ \E i \in 1 .. tx[p].step - 1 : ScriptOf(p)[i].do = do
Purged(p) == Done(p, "purge")

(* What the transaction of p sees of other versions, and of its own.         *)
Seen(p, v) == IF Purged(p) /\ v[1] = p THEN NoRows ELSE rows[v]
SeenTypes(p) ==
    {Row(Game, 0, l) : l \in BuiltinTypes}
    \cup (UNION {{Row(v, Seen(p, v).gen, l) : l \in Files[Seen(p, v).source].types} : v \in Versions})
    \cup (IF Done(p, "types") THEN {Row(Version(p), count[p], l) : l \in Files[Source(p)].types} ELSE {})
SeenKeys(p) == shared \cup tx[p].keys
SeenGens(p) == [v \in Versions |-> IF v = Version(p) THEN count[p] ELSE Seen(p, v).gen]

TypeExists(p, t) == t.version \in {Game, Version(p)} \/ rows[t.version].gen = t.gen
Benches(p, l) == [type |-> tx[p].found,
                  item |-> IF IsBuiltin(l) THEN Row(Game, 0, l) ELSE Row(Version(p), count[p], l)]
-----------------------------------------------------------------------------
(* The transactions that the current statement of p has to wait for.         *)
HoldsKey(q, what) == what \in tx[q].keys
Deletes(q, t) == Purged(q) /\ t.version[1] = q
HoldsView(q, k) == k \in DOMAIN tx[q].views
Queues(q, k) == At(q, "refresh") /\ Waits(q) /\ Current(q).what = k
RefersTo(q, p) == \E x \in tx[q].recipes \cup tx[q].benches : x.type.version[1] = p
(* The cascades of both purges delete the same rows.                         *)
Entangled(p, q) ==
    LET uses(o, n) == \/ \E v \in Versions : v[1] = o /\ \E r \in rows[v].recipes : r.type.version[1] = n
                      \/ \E b \in benches : b.item.version[1] = o /\ b.type.version[1] = n
    IN  uses(p, q) \/ uses(q, p)

Blockers(p) ==
    IF ~Open(p) \/ Finished(p) \/ tx[p].aborted THEN {}
    ELSE {q \in Projects \ {p} : Open(q) /\
            CASE Current(p).do = "key" -> Current(p).what \notin SeenKeys(p) /\ HoldsKey(q, Current(p).what)
              [] Current(p).do = "purge" -> RefersTo(q, p) \/ (Purged(q) /\ Entangled(p, q))
              [] Current(p).do = "recipe" -> Deletes(q, tx[p].found)
              [] Current(p).do = "bench" -> \/ Deletes(q, tx[p].found)
                                            \/ Benches(p, Current(p).what) \in tx[q].benches
              [] Current(p).do = "refresh" -> HoldsView(q, Current(p).what) \/ (Queues(q, Current(p).what) /\ (Waits(p) => tx[q].turn < tx[p].turn))
              [] OTHER -> FALSE}

(* p waits for itself in the end.                                            *)
Deadlocked(p) ==
    /\ Waits(p)
    /\ \A S \in SUBSET Projects :
          Blockers(p) \subseteq S /\ (\A q \in S : Waits(q) => Blockers(q) \subseteq S) => p \in S

(* A mutated form: nobody looks for the key first.                           *)
InsertsBlindly(p, what) == what \in shared

(* The key has been inserted since p looked for it.                          *)
Overtaken(p, what) == Waits(p) /\ what \in shared

(* The database refuses the current statement.                               *)
Fails(p) ==
    /\ Open(p) /\ ~Finished(p) /\ Blockers(p) = {}
    /\ \/ tx[p].aborted
       \/ /\ Current(p).do = "key" /\ Current(p).what \notin tx[p].keys
          /\ Current(p).what[2] \notin Storable \/ Overtaken(p, Current(p).what)
       \/ /\ Current(p).do = "entry"
          /\ LET before == {ScriptOf(p)[i].what : i \in {j \in 1 .. tx[p].step - 1 : ScriptOf(p)[j].do = "entry"}}
             IN  MakesCycle(before, Current(p).what)
       \/ /\ Current(p).do = "recipe"
          /\ LET r == Current(p).what
                 n == FirstBad(r, SeenKeys(p))
             IN  ~TypeExists(p, tx[p].found) \/ (n # 0 /\ ~Unknown(r, n, SeenKeys(p)))
       \/ Current(p).do = "bench" /\ ~TypeExists(p, tx[p].found)
-----------------------------------------------------------------------------
Init ==
    /\ shared = {} /\ benches = {} /\ reported = {}
    /\ rows = [v \in Versions |-> NoRows]
    /\ view = [k \in Views |-> [gens |-> [v \in Versions |-> 0], late |-> FALSE]]
    /\ count = [p \in Projects |-> 0]
    /\ job = [p \in Projects |-> CHOOSE j \in Jobs[p] : TRUE]
    /\ phase = [p \in Projects |-> "idle"]
    /\ tx = [p \in Projects |-> NewTx(FALSE)]
    /\ faults = 0

(* The next transaction of p, or none, and what the others then are.         *)
Enter(p, next) ==
    LET others == {q \in Projects \ {p} : Open(q)}
    IN  /\ phase' = [phase EXCEPT ![p] = next]
        /\ tx' = [q \in Projects |->
                    IF q = p THEN NewTx(next # "idle" /\ others = {})
                    ELSE [tx[q] EXCEPT !.solo = @ /\ next = "idle"]]

(* deploy_inner has cloned a checkout; setup_version of the default version. *)
Deploy(p) ==
    /\ phase[p] = "idle" /\ count[p] < MaxDeploys
    /\ count' = [count EXCEPT ![p] = @ + 1]
    /\ \E j \in Jobs[p] : job' = [job EXCEPT ![p] = j]
    /\ Enter(p, "default")
    /\ UNCHANGED <<databaseVars, reported, faults>>

Report(p, file) == reported \cup {<<p, count[p], file>>}

(* The statement fails: rollback.  Without the default version the           *)
(* deployment fails too, without a named one it goes on.                     *)
Rollback(p) == Enter(p, IF phase[p] = "named" THEN "revalidate" ELSE "idle")

(* add_recipe_workbenches ignores the error of an insertion, and counts.     *)
SkipBench(p) ==
    /\ tx' = [tx EXCEPT ![p].aborted = TRUE, ![p].turn = 0, ![p].step = @ + 1]
    /\ reported' = IF tx[p].step < Len(ScriptOf(p)) /\ ScriptOf(p)[tx[p].step + 1].do = "key" THEN reported
                   ELSE Report(p, "workbenches")
    /\ UNCHANGED phase

StatementFails(p) ==
    IF At(p, "bench") /\ ~tx[p].aborted THEN SkipBench(p)
    ELSE /\ Rollback(p)
         /\ reported' = IF At(p, "recipe") /\ TypeExists(p, tx[p].found)
                        THEN Report(p, Current(p).what.id) ELSE reported

Refuse(p) ==
    /\ Fails(p)
    /\ StatementFails(p)
    /\ UNCHANGED <<databaseVars, count, job, faults>>

DeadlockVictim(p) ==
    /\ Deadlocked(p)
    /\ StatementFails(p)
    /\ UNCHANGED <<databaseVars, count, job, faults>>

Fault(p) ==
    /\ Open(p) /\ faults < MaxFaults
    /\ StatementFails(p)
    /\ faults' = faults + 1
    /\ UNCHANGED <<databaseVars, count, job>>

(* A statement that finds another transaction in its way.  A refresh has     *)
(* taken its snapshot by then.                                               *)
StartWaiting(p) ==
    /\ Blockers(p) # {} /\ ~Waits(p)
    /\ tx' = [tx EXCEPT ![p].turn = Max({tx[q].turn : q \in Projects}) + 1, ![p].snapshot = SeenGens(p)]
    /\ UNCHANGED <<databaseVars, reported, count, job, phase, faults>>

(* The statement of the given kind is executed, and tx[p] becomes t.         *)
Stepped(p) == [tx[p] EXCEPT !.step = @ + 1, !.turn = 0]
Execute(p, do, t) ==
    /\ At(p, do) /\ Blockers(p) = {} /\ ~Fails(p)
    /\ tx' = [tx EXCEPT ![p] = t]
    /\ UNCHANGED <<databaseVars, count, job, phase, faults>>

(* delete_existing_data; the rows of the tag entries and of the types, whose *)
(* effect is in Done.                                                        *)
Purge(p) == Execute(p, "purge", Stepped(p)) /\ UNCHANGED reported
AddTagTagEntry(p) == Execute(p, "entry", Stepped(p)) /\ UNCHANGED reported
AddRecipeTypes(p) == Execute(p, "types", Stepped(p)) /\ UNCHANGED reported

(* A mutated form: nobody looks for the key first.                           *)
InsertKey(p) ==
    /\ Execute(p, "key", [Stepped(p) EXCEPT !.keys = @ \cup {Current(p).what}])
    /\ UNCHANGED reported

(* find_or_create_item, find_or_create_tag, add_project_item for the game.   *)
FindOrCreate(p) ==
    /\ Execute(p, "key", IF Current(p).what \in shared THEN Stepped(p)
                         ELSE [Stepped(p) EXCEPT !.keys = @ \cup {Current(p).what}])
    /\ UNCHANGED reported

(* get_recipe_type_by_loc takes any row, of whatever version.                *)
LookupType(p) ==
    /\ At(p, "lookup")
    /\ LET what == Current(p).what
           matches == {t \in SeenTypes(p) : t.loc = what.type}
       IN  \/ /\ \E t \in matches : Execute(p, "lookup", [Stepped(p) EXCEPT !.found = t])
              /\ UNCHANGED reported
           \/ /\ matches = {}
              /\ Execute(p, "lookup", [Stepped(p) EXCEPT !.step = @ + what.skip])
              /\ reported' = IF what.skip = 0 THEN reported ELSE Report(p, what.file)

(* A mutated form: the ingredients before the unknown one stay.              *)
KeepPartialRecipe(p) ==
    /\ At(p, "recipe")
    /\ LET r == Current(p).what
           n == FirstBad(r, SeenKeys(p))
           inserted == {r.ingredients[i] : i \in {j \in DOMAIN r.ingredients : n = 0 \/ j < n}}
           row == [id |-> r.id, type |-> tx[p].found, ingredients |-> inserted]
       IN  /\ Execute(p, "recipe", [Stepped(p) EXCEPT !.recipes = @ \cup {row}])
           /\ reported' = IF n = 0 THEN reported ELSE Report(p, r.id)

(* A recipe of which some ingredient is unknown is deleted again.            *)
AddRecipe(p) ==
    /\ At(p, "recipe")
    /\ LET r == Current(p).what
           row == [id |-> r.id, type |-> tx[p].found, ingredients |-> Range(r.ingredients)]
       IN  IF FirstBad(r, SeenKeys(p)) = 0
           THEN /\ Execute(p, "recipe", [Stepped(p) EXCEPT !.recipes = @ \cup {row}])
                /\ UNCHANGED reported
           ELSE /\ Execute(p, "recipe", Stepped(p))
                /\ reported' = Report(p, r.id)

AddWorkbench(p) ==
    /\ Execute(p, "bench", [Stepped(p) EXCEPT !.benches = (@ \cup {Benches(p, Current(p).what)}) \ benches])
    /\ UNCHANGED reported

RefreshView(p) ==
    LET k == Current(p).what
        seen == [gens |-> IF Waits(p) THEN tx[p].snapshot ELSE SeenGens(p), late |-> Waits(p)]
        more == [m \in DOMAIN tx[p].views \cup {k} |-> IF m = k THEN seen ELSE tx[p].views[m]]
    IN  /\ Execute(p, "refresh", [Stepped(p) EXCEPT !.views = more])
        /\ UNCHANGED reported

(* The commit of an aborted transaction is a rollback and no error.  That of *)
(* a default version has deleted the rows of all versions of p, and with its *)
(* recipe types, by cascade, whatever refers to them.                        *)
Store(p) ==
    LET gone(x) == phase[p] = "default" /\ x.version[1] = p /\ x.gen # count[p]
        kept(v) == IF v[1] = p /\ phase[p] = "default" THEN NoRows
                   ELSE [rows[v] EXCEPT !.recipes = {r \in @ : ~gone(r.type)}]
    IN  /\ shared' = shared \cup tx[p].keys
        /\ rows' = [v \in Versions |->
                      IF v = Version(p) THEN [gen |-> count[p], source |-> Source(p), recipes |-> tx[p].recipes]
                      ELSE kept(v)]
        /\ benches' = {b \in benches \cup tx[p].benches : ~gone(b.type) /\ ~gone(b.item)}
        /\ view' = [k \in Views |-> IF k \in DOMAIN tx[p].views THEN tx[p].views[k] ELSE view[k]]

(* A mutated form: there is no revalidation.                                 *)
EndAfterCommit(p) == IF phase[p] = "default" /\ job[p].named # NoVersion THEN "named" ELSE "idle"

AfterCommit(p) == IF phase[p] = "default" /\ job[p].named # NoVersion THEN "named"
                  ELSE IF phase[p] = "revalidate" THEN "idle" ELSE "revalidate"
Commit(p) ==
    /\ Open(p) /\ Finished(p)
    /\ IF tx[p].aborted THEN UNCHANGED databaseVars ELSE Store(p)
    /\ Enter(p, AfterCommit(p))
    /\ UNCHANGED <<reported, count, job, faults>>

Terminated == (\A p \in Projects : phase[p] = "idle" /\ count[p] = MaxDeploys) /\ UNCHANGED vars

Advance(p) ==
    \/ Refuse(p) \/ DeadlockVictim(p) \/ StartWaiting(p)
    \/ Purge(p) \/ FindOrCreate(p) \/ AddTagTagEntry(p) \/ AddRecipeTypes(p)
    \/ LookupType(p) \/ AddRecipe(p) \/ AddWorkbench(p) \/ RefreshView(p) \/ Commit(p)

Next == \/ \E p \in Projects : Deploy(p) \/ Advance(p) \/ Fault(p)
        \/ Terminated

(* PostgreSQL answers every statement.                                       *)
Fairness == \A p \in Projects : WF_vars(Advance(p))
Spec == Init /\ [][Next]_vars /\ Fairness
-----------------------------------------------------------------------------
RowsOf == [version : Versions \cup {Game}, gen : 0 .. MaxDeploys, loc : Locs \cup {"none"}]
KeysOf == {"item", "tag", "builtin"} \X Storable
GensOf == [Versions -> 0 .. MaxDeploys]

(* Types; no two transactions have inserted the same key, and no key is      *)
(* inserted that is there.                                                   *)
TypeOK ==
    /\ shared \subseteq KeysOf
    /\ \A v \in Versions : rows[v].gen \in 0 .. count[v[1]] /\ \A r \in rows[v].recipes : r.type \in RowsOf
    /\ benches \subseteq [type : RowsOf, item : RowsOf]
    /\ view \in [Views -> [gens : GensOf, late : BOOLEAN]]
    /\ count \in [Projects -> 0 .. MaxDeploys] /\ faults \in 0 .. MaxFaults
    /\ phase \in [Projects -> {"idle", "default", "named", "revalidate"}]
    /\ \A p \in Projects : LET t == tx[p] IN
          /\ job[p] \in Jobs[p]
          /\ Open(p) => t.step \in 1 .. Len(ScriptOf(p)) + 1
          /\ t.turn \in Nat /\ {t.aborted, t.solo} \subseteq BOOLEAN
          /\ t.keys \subseteq KeysOf \ shared /\ t.found \in RowsOf /\ t.snapshot \in GensOf
          /\ t.benches \subseteq [type : RowsOf, item : RowsOf]
          /\ \A q \in Projects \ {p} : t.keys \cap tx[q].keys = {}
          /\ DOMAIN t.views \subseteq Views

(* The rows of a version are those of one checkout as a whole, although      *)
(* recipes.rs goes on after what it cannot store: each recipe is there with  *)
(* all its ingredients, and each workbench, or there is an issue about the   *)
(* file, or the recipe type is not one of the project.                       *)
Foreign(v, type) == Namespace[type] \notin BuiltinNamespaces \cup {Modid[v[1]]}
IngestedIsExact ==
    \A v \in Versions : LET c == Files[rows[v].source]
                             told(file) == <<v[1], rows[v].gen, file>> \in reported IN
        /\ \A r \in c.recipes :
              \/ \E s \in rows[v].recipes : s.id = r.id /\ s.ingredients = Range(r.ingredients)
              \/ told(r.id) \/ Foreign(v, r.type)
        /\ \A r \in rows[v].recipes : \E s \in c.recipes : s.id = r.id /\ r.ingredients = Range(s.ingredients)
        /\ \A type \in DOMAIN c.benches :
              \/ \A l \in Range(c.benches[type]) : \E b \in benches :
                    b.type.loc = type /\ b.item.loc = l /\ b.item.version \in {Game, v}
              \/ told("workbenches") \/ Foreign(v, type)

(* When no deployment is under way and no statement has failed for no        *)
(* reason, the view of the best pages is that of the committed rows, however *)
(* refreshes and commits overlapped, since every deployment refreshes it     *)
(* once more after its commit; the view of the tags, which no deployment     *)
(* refreshes again, is so unless its last refresh had to wait.               *)
ViewsCover ==
    (faults = 0 /\ \A p \in Projects : phase[p] = "idle") =>
        \A v \in Versions :
            /\ Files[rows[v].source].pages # {} => view["best"].gens[v] = rows[v].gen
            /\ TagIds(Files[rows[v].source]) # {} => view["flat"].gens[v] = rows[v].gen \/ view["flat"].late

(* No statement of a transaction that runs alone is refused, whatever former *)
(* deployments have left in the tables they share, if the checkout itself is *)
(* acceptable: locations that can be stored, tags without cycle, recipes     *)
(* without repetition.                                                       *)
Acceptable(p) ==
    LET script == ScriptOf(p)
        entries == {script[i].what : i \in {j \in DOMAIN script : script[j].do = "entry"}}
    IN  \A i \in DOMAIN script :
          /\ script[i].do = "key" => script[i].what[2] \in Storable
          /\ script[i].do = "entry" => ~MakesCycle(entries, script[i].what)
          /\ script[i].do = "recipe" => IsInjective(script[i].what.ingredients)
AloneSucceeds == \A p \in Projects : (Fails(p) /\ tx[p].solo /\ faults = 0) => ~Acceptable(p)

(* What the tracing name of delete_existing_data says, "Deleting existing    *)
(* project data": the rows of a project change in deployments of it only.    *)
OthersKeep == [][\A v \in Versions : rows'[v] # rows[v] => phase[v[1]] # "idle"]_vars
=============================================================================
