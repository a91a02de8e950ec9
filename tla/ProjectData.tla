---------------------------- MODULE ProjectData -----------------------------
(* What the ingestors of wiki-storage/src/ingestor make of the files of a    *)
(* version: the statements they send to the database, in their order.        *)
(*                                                                           *)
(* A checkout is reduced to what its files say:                              *)
(*   pages    the items of the pages;                                        *)
(*   tags     the tag files: values per tag, items or tags;                  *)
(*   types    the recipe types;                                              *)
(*   recipes  with the type and, in order, the ingredients of each;          *)
(*   benches  the workbenches per recipe type, in order.                     *)
(* Rows that nothing but the ingestion of their own version could ever       *)
(* touch (pages, project tags, its entries) need no statement of their own.  *)
EXTENDS Naturals, Sequences, FiniteSets, SequencesExt

CONSTANTS
    Locs,               \* what the files use as a location, or are called by
    Valid,              \* those that ResourceLocation::parse accepts
    Storable,           \* those that the domain resource_location accepts
    Namespace,          \* the namespace of the valid ones
    BuiltinNamespaces,  \* minecraft, c, and those of the loaders
    Rank                \* the order of the locations as strings

ASSUME DataAssumption ==
    /\ IsFiniteSet(Locs) /\ Valid \subseteq Storable /\ Storable \subseteq Locs
    /\ DOMAIN Namespace = Valid
    /\ Rank \in [Locs -> Nat]
    /\ \A l, m \in Locs : Rank[l] = Rank[m] => l = m

(* What the files of a checkout may say.                                     *)
Values == [loc : Locs, tag : BOOLEAN]
RecipeFiles == [id : Locs, type : Locs, ingredients : Seq(Values)]
IsCheckout(c) ==
    /\ c.pages \subseteq Locs /\ c.types \subseteq Locs
    /\ DOMAIN c.tags \subseteq Locs /\ \A t \in DOMAIN c.tags : c.tags[t] \subseteq Values
    /\ c.recipes \subseteq RecipeFiles /\ \A r, s \in c.recipes : r.id = s.id => r = s
    /\ DOMAIN c.benches \subseteq Locs /\ \A t \in DOMAIN c.benches : c.benches[t] \in Seq(Locs)

(* The locations of S in the order of the strings: the n-th has n - 1 before.*)
Before(S, l) == {m \in S : Rank[m] < Rank[l]}
InOrder(S) == [n \in 1 .. Cardinality(S) |-> CHOOSE l \in S : Cardinality(Before(S, l)) = n - 1]

(* The concatenation of F(l) for the locations of S in their order.          *)
ForEach(S, F(_)) == FlattenSeq([i \in 1 .. Cardinality(S) |-> F(InOrder(S)[i])])

(* item_version_id: these belong to the version of the game.                 *)
IsBuiltin(l) == l \in Valid /\ Namespace[l] \in BuiltinNamespaces

ItemsIn(c, t) == {v.loc : v \in {w \in c.tags[t] : ~w.tag}}
TagsIn(c, t) == {v.loc : v \in {w \in c.tags[t] : w.tag}}

(* The items that the prepare phases hand over and that are of the project.  *)
Candidates(c, modid) ==
    LET ingredients == {g.loc : g \in {h \in UNION {Range(r.ingredients) : r \in c.recipes} : ~h.tag}}
        handed == c.pages \cup ingredients \cup UNION {ItemsIn(c, t) : t \in DOMAIN c.tags}
    IN  {l \in handed \cap Valid : Namespace[l] = modid}

(* tag_ids: the tags with a file and the valid ones among their values.      *)
TagIds(c) == DOMAIN c.tags \cup ((UNION {TagsIn(c, t) : t \in DOMAIN c.tags}) \cap Valid)
-----------------------------------------------------------------------------
Statement(do, what) == <<[do |-> do, what |-> what]>>

(* "key": make sure of a row of a table that all ingestions share: item, tag, *)
(* and project_item for the version of the game.                             *)
Key(table, l) == Statement("key", <<table, l>>)
AddProjectItem(l) == Key("item", l) \o (IF IsBuiltin(l) THEN Key("builtin", l) ELSE <<>>)
AddProjectTag(t) == Key("tag", t)

(* The values of a tag are sorted as strings, in which # comes first.        *)
(* "entry": a tag in a tag, which a CHECK and a trigger may refuse.  The     *)
(* tag itself, asked for once more, is there.                                *)
AddTagEntries(c, t) ==
    LET Child(u) == AddProjectTag(u) \o Statement("entry", <<t, u>>)
    IN  ForEach(TagsIn(c, t), Child) \o ForEach(ItemsIn(c, t), AddProjectItem)

(* "lookup" of a recipe type; if it finds none the next skip statements are  *)
(* not sent.                                                                 *)
Lookup(type, file, then) ==
    Statement("lookup", [type |-> type, file |-> file, skip |-> Len(then)]) \o then

AddRecipes(c) ==
    LET Add(id) == LET r == CHOOSE s \in c.recipes : s.id = id
                   IN  Lookup(r.type, id, Statement("recipe", r))
    IN  ForEach({r.id : r \in c.recipes}, Add)

AddRecipeWorkbenches(c) ==
    LET Bench(l) == AddProjectItem(l) \o Statement("bench", l)
        Add(type) == Lookup(type, "workbenches",
                            FlattenSeq([i \in DOMAIN c.benches[type] |-> Bench(c.benches[type][i])]))
    IN  ForEach(DOMAIN c.benches, Add)

(* The finish phases of the pages and of the tags.                           *)
Refreshes(c) ==
    (IF c.pages # {} THEN Statement("refresh", "best") ELSE <<>>)
    \o (IF TagIds(c) # {} THEN Statement("refresh", "flat") ELSE <<>>)

(* Purge, registration of the candidates, and execution, in which pages name *)
(* their items once more, those of other projects too.                       *)
Writes(c, modid, purge) ==
    LET Entries(t) == AddTagEntries(c, t)
    IN  (IF purge THEN Statement("purge", {}) ELSE <<>>)
        \o ForEach(Candidates(c, modid), AddProjectItem)
        \o ForEach(c.pages, AddProjectItem)
        \o ForEach(TagIds(c), AddProjectTag)
        \o ForEach(DOMAIN c.tags, Entries)
        \o (IF c.types # {} THEN Statement("types", c.types) ELSE <<>>)
        \o AddRecipes(c)
        \o AddRecipeWorkbenches(c)
Script(c, modid, purge) == Writes(c, modid, purge) \o Refreshes(c)
-----------------------------------------------------------------------------
(* The tags above tag t in a set of entries <<parent, child>>.               *)
Above(entries, t) ==
    LET up[n \in 0 .. Cardinality(entries)] ==
            IF n = 0 THEN {t}
            ELSE up[n - 1] \cup {e[1] : e \in {f \in entries : f[2] \in up[n - 1]}}
    IN  up[Cardinality(entries)]

(* The CHECK of tag_tag and its trigger tags_insert_trigger_func.            *)
MakesCycle(entries, e) == e[2] \in Above(entries, e[1])

(* The first ingredient that cannot be inserted: no row of that item or tag, *)
(* or the same one again.                                                    *)
Unknown(r, i, known) == <<IF r.ingredients[i].tag THEN "tag" ELSE "item", r.ingredients[i].loc>> \notin known
Repeated(r, i) == \E j \in 1 .. i - 1 : r.ingredients[j] = r.ingredients[i]
FirstBad(r, known) ==
    LET bad == {i \in DOMAIN r.ingredients : Unknown(r, i, known) \/ Repeated(r, i)}
    IN  IF bad = {} THEN 0 ELSE CHOOSE i \in bad : \A j \in bad : i <= j
=============================================================================
