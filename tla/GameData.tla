------------------------------ MODULE GameData ------------------------------
(* The data of the game itself: GameDataService, which imports a version of  *)
(* the game (game_data.rs), and LangService, which keeps the names of items  *)
(* in Redis (lang.rs) and is asked for them by readers and by the import.    *)
(* Imports are not serialized: they share the directory .game and the cache. *)
EXTENDS Loader, FiniteSets

CONSTANTS
    Items,
    Games,          \* the versions of the game
    ItemsOf,        \* ItemsOf[g]: the items whose files are in the archive of g
    Named,          \* the items that en_us.json names, in the versions with them
    Tagged,         \* the items that tags mention
    Releases,       \* the releases of the loaders there will be
    FirstReleases,  \* those there are at the start
    Imports,        \* the requests import_data
    Readers,        \* the requests that ask for the name of an item
    None,
    OneImportAtATime, \* whether the administrators await one before the next
    MaxFaults       \* how many steps may fail, requests be dropped and crashes happen

ASSUME GameDataAssumption ==
    /\ ItemsOf \in [Games -> SUBSET Items] /\ Named \subseteq Items /\ Tagged \subseteq Items
    /\ \A g \in Games : ItemsOf[g] \cap Named # {}
    /\ FirstReleases \subseteq Releases /\ None \notin Releases \cup Items /\ None \notin Games
    /\ OneImportAtATime \in BOOLEAN /\ MaxFaults \in Nat /\ Imports \cap Readers = {}

Clients == Imports \cup Readers

VARIABLES
    released,   \* the releases in maven-metadata.xml
    tree,       \* .game without its language files: the items with a file there
    langFile,   \* the items that en_us.json names; {} if it is missing or cut off
    sentinel,   \* Redis: lang:en_us
    names,      \* Redis: the items of lang:en_us:minecraft:*
    load,       \* the task lang:en_us in LangService.loader
    unwritten,  \* the names it has yet to write
    look,       \* how far the call of get_item_name of each client is
    at,         \* how far each import is
    job,        \* its local variables
    imported,   \* the table data_import
    items,      \* the items of the built-in version
    disturbed,  \* the imports that met another import, a load that overlaps
                \* their invalidation, or a failure that is only logged
    behind,     \* whether Redis may be behind the file
    faults      \* how much has failed

worldVars == <<released, imported, items>>
cacheVars == <<sentinel, names>>
loadVars == <<load, unwritten>>
lookVars == <<loadVars, cacheVars, look>>
vars == <<worldVars, tree, langFile, lookVars, at, job, disturbed, behind, faults>>

ImportSteps == {"new", "check", "clean", "lang", "client", "scan", "erase",
                "ingest", "item", "record", "tidy", "ended"}

(* What an import holds: the version, the loader's release, the merged names *)
(* it is writing, the keys its scan has found (None for the sentinel), the   *)
(* files it has yet to look at, the one it looks up and what it registered.  *)
Jobs == [game : Games \cup {None}, release : Releases \cup {None}, merged : SUBSET Items,
         found : SUBSET (Items \cup {None}), listed : SUBSET Items,
         item : Items \cup {None}, registered : SUBSET Items]
NoJob == [game |-> None, release |-> None, merged |-> {}, found |-> {}, listed |-> {},
          item |-> None, registered |-> {}]

TypeOK ==
    /\ released \subseteq Releases
    /\ tree \subseteq Items /\ langFile \subseteq Items
    /\ sentinel \in BOOLEAN /\ names \subseteq Items
    /\ load \in {"none", "read", "write", "loaded", "failed"} /\ unwritten \subseteq Items
    /\ look \in [Clients -> {"none", "ask", "join", "wait", "loaded", "failed", "get", "known", "unknown"}]
    /\ at \in [Imports -> ImportSteps] /\ job \in [Imports -> Jobs]
    /\ imported \subseteq Games \X Releases /\ items \subseteq Items
    /\ disturbed \subseteq Imports /\ behind \in BOOLEAN /\ faults \in 0 .. MaxFaults

Init ==
    /\ released = FirstReleases
    /\ tree = {} /\ langFile = {}
    /\ sentinel = FALSE /\ names = {}
    /\ load = "none" /\ unwritten = {}
    /\ look = [c \in Clients |-> "none"]
    /\ at = [i \in Imports |-> "new"] /\ job = [i \in Imports |-> NoJob]
    /\ imported = {} /\ items = {}
    /\ disturbed = {} /\ behind = FALSE /\ faults = 0

Fault == faults < MaxFaults /\ faults' = faults + 1
NoFault == UNCHANGED faults

Running == {i \in Imports : at[i] \notin {"new", "ended"}}
-----------------------------------------------------------------------------
(* LangService: get_item_name(None, location) for the client c.              *)
(* Readers are answered at once; an import has yet to take the result.       *)
Lookup(c, from, to) == look[c] = from /\ look' = [look EXCEPT ![c] = to]
Result(c, answer) == IF c \in Imports THEN answer ELSE "none"
restOfLookup == <<worldVars, tree, langFile, at, job, behind>>

Ask(h) ==
    /\ Lookup(h, "none", "ask")
    /\ NoFault /\ UNCHANGED <<cacheVars, loadVars, disturbed, restOfLookup>>

(* ensure_loaded, first: the sentinel; an error of Redis counts as "absent". *)
CheckSentinel(c) ==
    /\ \/ sentinel /\ Lookup(c, "ask", "get") /\ NoFault
       \/ (IF sentinel THEN Fault ELSE NoFault) /\ Lookup(c, "ask", "join")
    /\ UNCHANGED <<cacheVars, loadVars, disturbed, restOfLookup>>

(* ... and run_or_join: a load that has ended and whose entry is still in    *)
(* the map, the one under way, or a new one.                                 *)
RunOrJoin(c) ==
    /\ \/ load \in {"loaded", "failed"} /\ Lookup(c, "join", load) /\ UNCHANGED <<load, disturbed>>
       \/ load \in {"read", "write"} /\ Lookup(c, "join", "wait") /\ UNCHANGED <<load, disturbed>>
       \/ /\ load = "none" /\ Lookup(c, "join", "wait")
          /\ load' = "read"
          /\ disturbed' = disturbed \cup {i \in Imports : at[i] = "erase"}
    /\ NoFault /\ UNCHANGED <<unwritten, cacheVars, restOfLookup>>

(* The load ends, and with it the wait of all who have joined it.            *)
Finish(result) ==
    /\ load' = result /\ unwritten' = {}
    /\ look' = [c \in Clients |-> IF look[c] = "wait" THEN result ELSE look[c]]

(* load: the file, then one name after the other ...                         *)
ReadLang ==
    /\ load = "read"
    /\ \/ langFile # {} /\ load' = "write" /\ unwritten' = langFile /\ UNCHANGED look
       \/ langFile = {} /\ Finish("failed")
    /\ NoFault /\ UNCHANGED <<cacheVars, disturbed, restOfLookup>>

WriteName ==
    /\ load = "write"
    /\ \E x \in unwritten : names' = names \cup {x} /\ unwritten' = unwritten \ {x}
    /\ NoFault /\ UNCHANGED <<load, sentinel, look, disturbed, restOfLookup>>

(* ... and then the sentinel.                                                *)
MarkLoaded ==
    /\ load = "write" /\ unwritten = {}
    /\ sentinel' = TRUE
    /\ Finish("loaded")
    /\ NoFault /\ UNCHANGED <<names, disturbed, restOfLookup>>

(* Redis fails: the load is Internal, and the names asked for are unknown.   *)
FailLoad ==
    /\ Fault /\ load = "write"
    /\ Finish("failed")
    /\ disturbed' = disturbed \cup Running
    /\ UNCHANGED <<cacheVars, restOfLookup>>

(* run_or_join returns: a finished entry is taken from the map.              *)
Return(c) ==
    /\ Lookup(c, "loaded", "get") \/ Lookup(c, "failed", Result(c, "unknown"))
    /\ load' = IF load \in {"loaded", "failed"} THEN "none" ELSE load
    /\ NoFault /\ UNCHANGED <<unwritten, cacheVars, disturbed, restOfLookup>>

Get(c) ==
    /\ LET known == c \in Imports /\ job[c].item \in names IN
       Lookup(c, "get", Result(c, IF known THEN "known" ELSE "unknown"))
    /\ NoFault /\ UNCHANGED <<cacheVars, loadVars, disturbed, restOfLookup>>

(* A reader goes before it is answered: the entry of a load it was alone to  *)
(* wait for stays in the map.                                                *)
Leave(h) ==
    /\ Fault /\ look[h] # "none"
    /\ look' = [look EXCEPT ![h] = "none"]
    /\ UNCHANGED <<cacheVars, loadVars, disturbed, restOfLookup>>
-----------------------------------------------------------------------------
(* import_game_data.                                                         *)
Step(i, from, to) == at[i] = from /\ at' = [at EXCEPT ![i] = to]

(* A release of a loader is published.                                       *)
Publish ==
    /\ \E r \in Releases \ released : released' = released \cup {r}
    /\ NoFault /\ UNCHANGED <<imported, items, tree, langFile, lookVars, at, job, disturbed, behind>>

(* The launcher's manifest and the loader's metadata.                        *)
Resolve(i, g) ==
    /\ IsNumbered(g) /\ (OneImportAtATime => Running = {})
    /\ Step(i, "new", "check")
    /\ \E r \in Selected(released, g) : job' = [job EXCEPT ![i].game = g, ![i].release = r]
    /\ disturbed' = disturbed \cup IF Running = {} THEN {} ELSE Running \cup {i}
    /\ NoFault /\ UNCHANGED <<worldVars, tree, langFile, lookVars, behind>>

(* The version or a loader for it is not there.                              *)
ResolveNothing(i, g) ==
    /\ ~IsNumbered(g) \/ Selected(released, g) = {}
    /\ Step(i, "new", "ended")
    /\ NoFault /\ UNCHANGED <<worldVars, tree, langFile, lookVars, job, disturbed, behind>>

End(i) == at' = [at EXCEPT ![i] = "ended"] /\ job' = [job EXCEPT ![i] = NoJob]

(* get_existing_import: any one record of the version is compared.           *)
CheckExisting(i) ==
    LET existing == {r \in Releases : <<job[i].game, r>> \in imported} IN
    /\ at[i] = "check"
    /\ \E update_loader \in BOOLEAN :
        \/ /\ existing = {} \/ (update_loader /\ existing # {job[i].release})
           /\ Step(i, "check", "clean") /\ UNCHANGED job
        \/ /\ existing # {} /\ (~update_loader \/ job[i].release \in existing)
           /\ End(i)
    /\ NoFault /\ UNCHANGED <<worldVars, tree, langFile, lookVars, disturbed, behind>>

(* A mutated form: nothing is removed.                                       *)
CleanNothing(i) == UNCHANGED <<tree, disturbed, faults>>

(* clean_game_dir: all but the language files; an error is logged.           *)
CleanGameDir(i) ==
    \/ tree' = {} /\ UNCHANGED disturbed /\ NoFault
    \/ Fault /\ tree # {} /\ UNCHANGED tree /\ disturbed' = disturbed \cup {i}

Clean(i) ==
    /\ Step(i, "clean", "lang")
    /\ CleanGameDir(i)
    /\ UNCHANGED <<worldVars, langFile, lookVars, job, behind>>

(* extract_zip reads en_us.json, merges the names of the archive into it     *)
(* and writes it again, which begins with an empty file.                     *)
MergeLang(i) ==
    /\ Step(i, "lang", "client")
    /\ job' = [job EXCEPT ![i].merged = langFile \cup (ItemsOf[job[i].game] \cap Named)]
    /\ langFile' = {}
    /\ behind' = TRUE
    /\ NoFault /\ UNCHANGED <<worldVars, tree, lookVars, disturbed>>

(* A mutated form: the names of the archive replace the file.                *)
WriteClientReplacing(i) ==
    /\ Step(i, "client", "scan")
    /\ langFile' = ItemsOf[job[i].game] \cap Named
    /\ tree' = tree \cup ItemsOf[job[i].game]
    /\ job' = [job EXCEPT ![i].merged = {}]
    /\ NoFault /\ UNCHANGED <<worldVars, lookVars, disturbed, behind>>

(* The names and the rest of the game's archive; that of the loader and the  *)
(* built-in data add no item.                                                *)
WriteClient(i) ==
    /\ Step(i, "client", "scan")
    /\ langFile' = job[i].merged
    /\ tree' = tree \cup ItemsOf[job[i].game]
    /\ job' = [job EXCEPT ![i].merged = {}]
    /\ NoFault /\ UNCHANGED <<worldVars, lookVars, disturbed, behind>>

(* lang.invalidate: the keys are collected, then deleted.                    *)
ScanNames(i) ==
    /\ Step(i, "scan", "erase")
    /\ job' = [job EXCEPT ![i].found = names \cup IF sentinel THEN {None} ELSE {}]
    /\ disturbed' = disturbed \cup IF load = "none" THEN {} ELSE {i}
    /\ NoFault /\ UNCHANGED <<worldVars, tree, langFile, lookVars, behind>>

(* A mutated form: the prefix matches the names only, not the sentinel.      *)
EraseEntries(i) ==
    /\ Step(i, "erase", "ingest")
    /\ names' = names \ job[i].found /\ UNCHANGED sentinel
    /\ job' = [job EXCEPT ![i].found = {}]
    /\ behind' = (i \in disturbed)
    /\ NoFault /\ UNCHANGED <<worldVars, tree, langFile, loadVars, look, disturbed>>

EraseNames(i) ==
    /\ Step(i, "erase", "ingest")
    /\ names' = names \ job[i].found
    /\ sentinel' = (sentinel /\ None \notin job[i].found)
    /\ job' = [job EXCEPT ![i].found = {}]
    /\ behind' = (i \in disturbed)
    /\ NoFault /\ UNCHANGED <<worldVars, tree, langFile, loadVars, look, disturbed>>

(* The transaction: the items that tags mention, and the listing of the      *)
(* items' directory.                                                         *)
Ingest(i) ==
    /\ Step(i, "ingest", "item")
    /\ job' = [job EXCEPT ![i].registered = tree \cap Tagged, ![i].listed = tree]
    /\ NoFault /\ UNCHANGED <<worldVars, tree, langFile, lookVars, disturbed, behind>>

(* A file of the listing is looked up.                                       *)
NextItem(i) ==
    /\ at[i] = "item"
    /\ Lookup(i, "none", "ask")
    /\ \E x \in job[i].listed : job' = [job EXCEPT ![i].item = x]
    /\ NoFault /\ UNCHANGED <<worldVars, tree, langFile, loadVars, cacheVars, at, disturbed, behind>>

(* An item without a name is skipped.                                        *)
TakeItem(i) ==
    LET x == job[i].item IN
    /\ at[i] = "item" /\ look[i] \in {"known", "unknown"}
    /\ look' = [look EXCEPT ![i] = "none"]
    /\ job' = [job EXCEPT ![i].item = None, ![i].listed = @ \ {x},
                          ![i].registered = @ \cup IF look[i] = "known" THEN {x} ELSE {}]
    /\ NoFault /\ UNCHANGED <<worldVars, tree, langFile, loadVars, cacheVars, at, disturbed, behind>>

EndItems(i) ==
    /\ look[i] = "none" /\ job[i].listed = {}
    /\ Step(i, "item", "record")
    /\ NoFault /\ UNCHANGED <<worldVars, tree, langFile, lookVars, job, disturbed, behind>>

(* A mutated form: the loader's release is not known.                        *)
CommitUnresolved(i) ==
    /\ Step(i, "record", "tidy")
    /\ imported' = imported \cup {<<job[i].game, None>>}
    /\ items' = items \cup job[i].registered
    /\ NoFault /\ UNCHANGED <<released, tree, langFile, lookVars, job, disturbed, behind>>

(* record_import, and the commit of all of it.                               *)
Commit(i) ==
    /\ Step(i, "record", "tidy")
    /\ imported' = imported \cup {<<job[i].game, job[i].release>>}
    /\ items' = items \cup job[i].registered
    /\ NoFault /\ UNCHANGED <<released, tree, langFile, lookVars, job, disturbed, behind>>

Tidy(i) ==
    /\ at[i] = "tidy" /\ End(i)
    /\ CleanGameDir(i)
    /\ UNCHANGED <<worldVars, langFile, lookVars, behind>>

(* An error on the way, or the request is dropped: the transaction is undone *)
(* and the files stay, en_us.json cut off if it was being written.           *)
FailImport(i) ==
    /\ Fault /\ i \in Running /\ at[i] # "tidy"
    /\ End(i)
    /\ look' = [look EXCEPT ![i] = "none"]
    /\ disturbed' = disturbed \cup IF at[i] = "client" THEN {i} ELSE {}
    /\ UNCHANGED <<worldVars, tree, langFile, loadVars, cacheVars, behind>>

Crash ==
    /\ Fault /\ Running # {}
    /\ at' = [i \in Imports |-> IF i \in Running THEN "ended" ELSE at[i]]
    /\ job' = [i \in Imports |-> NoJob]
    /\ load' = "none" /\ unwritten' = {}
    /\ look' = [c \in Clients |-> "none"]
    /\ disturbed' = disturbed \cup {i \in Imports : at[i] = "client"}
    /\ UNCHANGED <<worldVars, tree, langFile, cacheVars, behind>>
-----------------------------------------------------------------------------
LoadNames == ReadLang \/ WriteName \/ MarkLoaded
LookUp(c) == CheckSentinel(c) \/ RunOrJoin(c) \/ Return(c) \/ Get(c)
Import(i) == \/ CheckExisting(i) \/ Clean(i) \/ MergeLang(i) \/ WriteClient(i)
             \/ ScanNames(i) \/ EraseNames(i) \/ Ingest(i)
             \/ NextItem(i) \/ TakeItem(i) \/ EndItems(i) \/ Commit(i) \/ Tidy(i)

Next == \/ \E h \in Readers : Ask(h) \/ Leave(h)
        \/ \E c \in Clients : LookUp(c)
        \/ LoadNames \/ FailLoad \/ Publish \/ Crash
        \/ \E i \in Imports, g \in Games : Resolve(i, g) \/ ResolveNothing(i, g)
        \/ \E i \in Imports : Import(i) \/ FailImport(i)

Spec == Init /\ [][Next]_vars
-----------------------------------------------------------------------------
(* An import that met no other import, no load that overlaps its             *)
(* invalidation and no failure that is only logged commits exactly the items *)
(* of its version that are tagged or have a name, whatever earlier imports,  *)
(* failures, crashes and readers have left on disk, in Redis and in the map  *)
(* of loads (clean_game_dir, invalidate and register_items, game_data.rs).   *)
CommitsItsItems == [][\A i \in Imports :
    Commit(i) /\ i \notin disturbed =>
        job[i].registered = ItemsOf[job[i].game] \cap (Named \cup Tagged)]_vars

(* When the sentinel says that the names are loaded, those of the file are   *)
(* there, and no others, unless the file was rewritten since or the last     *)
(* invalidation was disturbed (load and invalidate, lang.rs).                *)
SentinelIsTrue == sentinel /\ ~behind => names = langFile

(* What one version has named another does not take away: registered items   *)
(* with a name keep it, unless an import was disturbed (merge_json_bytes,    *)
(* util.rs, and clean_game_dir, which spares the language files).            *)
NamesSurvive ==
    disturbed = {} /\ (\A i \in Imports : at[i] # "client") => items \cap Named \subseteq langFile

(* Without an overlap with another import an import never records a worse    *)
(* release of the loader than is recorded for the version: not an older      *)
(* build, nor a beta of NeoForge after a release (select_version and         *)
(* select_neoforge_version, loader.rs).                                      *)
Beta(r) == r.loader = "neoforge" /\ ~r.plain
LoaderNeverGoesBack == [][\A i \in Imports :
    Commit(i) /\ i \notin disturbed =>
        \A r \in Releases : <<job[i].game, r>> \in imported =>
            ~Better(r, job[i].release) /\ (Beta(job[i].release) => Beta(r))]_vars
=============================================================================
