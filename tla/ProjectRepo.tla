----------------------------- MODULE ProjectRepo ------------------------------
(* The database of the pages and the game data, in three parts: what the     *)
(* ingestion of a checkout writes, what ProjectRepo (wiki-db) reads, and     *)
(* what RecipeResolver (wiki-projects) makes of it.                          *)
(*                                                                           *)
(* A database is a function from versions to their rows; a project has one   *)
(* version here, whose name stands for both.  A row that belongs to a        *)
(* version is named by it and its location.  The order of rows, where a      *)
(* query asks for none, is that of insertion.  How ingestions of several     *)
(* projects overlap is the subject of Ingestion; its ViewsCover is why the   *)
(* materialized views are computed from the rows here.                       *)
EXTENDS Recipes

CONSTANTS
    Builtin,            \* the version of the game
    BuiltinNamespaces   \* minecraft, c, and those of the loaders

Row(version, loc) == <<version, loc>>
NoRows == [pages |-> {}, items |-> {}, itemPages |-> {}, tags |-> {}, tagItems |-> {}, tagTags |-> {},
           types |-> {}, recipes |-> {}, benches |-> {}]

(* item_version_id: some namespaces belong to the version of the game.       *)
ItemRow(v, loc) == Row(IF loc.ns \in BuiltinNamespaces THEN Builtin ELSE v, loc)
-----------------------------------------------------------------------------
(* What the ingestion reads.  The pages: of those with the same reference    *)
(* the last one stays.                                                       *)
PagesByRef(scan) ==
    LET LastWith(ref) == scan.pages[Max({i \in DOMAIN scan.pages : scan.pages[i].ref = ref})]
    IN  {LastWith(p.ref) : p \in Range(scan.pages)}

DataFiles(fs, root) == {p \in DOMAIN fs : IsPrefix(root, p.dir) /\ p.ext = "json"}
LocOf(root, ns, path) == Location(ns, SubSeq(path.dir, Len(root) + 1, Len(path.dir)) \o <<path.name>>)
DataOf(schema, modid, kind) == DataDir(schema) \o <<<<modid>>, kind>>
WorkbenchesPath(schema, modid) ==
    Path(DataDir(schema) \o (IF schema = "legacy" THEN <<>> ELSE <<<<modid>>>>), <<"workbenches">>, "json")

PreparedRecipes(fs, schema, modid) ==
    LET root == DataOf(schema, modid, <<"recipe">>)
        Parsed(p) == ParseRecipe(LocOf(root, modid, p), fs[p].recipe)
    IN  {[file |-> p, recipe |-> Parsed(p)] : p \in DataFiles(fs, root)}
PreparedTypes(fs, schema, modid) ==
    LET root == DataOf(schema, modid, <<"recipe", "type">>)
    IN  {LocOf(root, modid, p) : p \in {q \in DataFiles(fs, root) : fs[q].slots # None}}
TagFiles(fs, schema, modid) ==
    LET Root(ns, type) == DataOf(schema, ns, <<"tags">>) \o <<type>>
        Of(ns, type) == {[file |-> p, id |-> LocOf(Root(ns, type), ns, p)] : p \in DataFiles(fs, Root(ns, type))}
    IN  UNION {Of(ns, type) : ns \in BuiltinNamespaces \cup {modid}, type \in {<<"item">>, <<"items">>}}
PreparedTags(fs, schema, modid) ==
    {[id |-> t.id, values |-> fs[t.file].values] : t \in {u \in TagFiles(fs, schema, modid) : fs[u.file].values # None}}
PreparedBenches(fs, schema, modid) ==
    LET path == WorkbenchesPath(schema, modid)
    IN  IF path \notin DOMAIN fs THEN {} ELSE fs[path].benches

(* JSON of another form than the ingestor reads.                             *)
Misread(fs, schema, modid) ==
    {p \in DataFiles(fs, DataOf(schema, modid, <<"recipe", "type">>)) : fs[p].slots = None}
    \cup {t.file : t \in {u \in TagFiles(fs, schema, modid) : fs[u.file].values = None}}

(* The first ingredient that has no row, or that is there already: that one  *)
(* violates the primary key, and the transaction is lost.                    *)
UnknownIngredient(known, g) == g.id.hash \/ g.id.loc \notin (IF g.tag THEN known.tags ELSE known.items)
Repeats(ingredients, i) ==
    \E j \in 1 .. i - 1 : /\ ingredients[j].id = ingredients[i].id /\ ingredients[j].tag = ingredients[i].tag
                          /\ ingredients[j].slot = ingredients[i].slot /\ ingredients[j].input = ingredients[i].input
Verdict(ingredients, known) ==
    LET bad == {i \in DOMAIN ingredients : UnknownIngredient(known, ingredients[i]) \/ Repeats(ingredients, i)}
    IN  CASE bad = {} -> "accepted"
          [] UnknownIngredient(known, ingredients[Min(bad)]) -> "skipped"
          [] OTHER -> "fatal"

(* prepare: what the ingestors read, and the files with an issue.            *)
Prepare(fs, schema, modid) ==
    LET Prepared(scan, recipes) ==
            [pages |-> PagesByRef(scan),
             recipes |-> {r \in recipes : r.recipe # None},
             types |-> PreparedTypes(fs, schema, modid),
             tags |-> PreparedTags(fs, schema, modid),
             benches |-> PreparedBenches(fs, schema, modid),
             bad |-> {i.path : i \in scan.issues} \cup Misread(fs, schema, modid) \cup {r.file : r \in {q \in recipes : q.recipe = None}}]
    IN  Prepared(ScanContentPages(fs, schema, modid), PreparedRecipes(fs, schema, modid))

(* The items that the pages, recipes and tags of a project add to its        *)
(* version, and those of its workbenches, which are added last.              *)
Tagged(p) == UNION {{x.loc : x \in {y \in t.values : ~y.hash}} : t \in p.tags}
ChildTags(p) == UNION {{x.loc : x \in {y \in t.values : y.hash}} : t \in p.tags}
Mentioned(p) == UNION {{g.id.loc : g \in {h \in Range(r.recipe.ingredients) : ~h.tag /\ ~h.id.hash}} : r \in p.recipes}
OnPages(p) == UNION {Range(page.ids) : page \in p.pages}
AddedItems(p, modid) ==
    {l \in (OnPages(p) \cup Mentioned(p) \cup Tagged(p)) \ {Malformed} : l.ns = modid} \cup Tagged(p)
AddedTags(p) == {t.id : t \in p.tags} \cup ChildTags(p)

TypeRows(p, db, v, loc) ==
    {Row(w, loc) : w \in {x \in DOMAIN db \ {v} : loc \in db[x].types}} \cup (IF loc \in p.types THEN {Row(v, loc)} ELSE {})
ItemsOfBenches(p, db, v) == UNION {Range(b.items) : b \in {c \in p.benches : TypeRows(p, db, v, c.type) # {}}}

RowsOf(p, db, v, items, accepted) ==
    [pages |-> {[ref |-> page.ref, slug |-> page.slug] : page \in p.pages},
     items |-> {l \in items : l.ns \notin BuiltinNamespaces},
     itemPages |-> UNION {{[item |-> l, ref |-> page.ref] : l \in Range(page.ids)} : page \in p.pages},
     tags |-> AddedTags(p),
     tagItems |-> UNION {{[tag |-> t.id, item |-> ItemRow(v, x.loc)] : x \in {y \in t.values : ~y.hash}} : t \in p.tags},
     tagTags |-> UNION {{[parent |-> t.id, child |-> x.loc] : x \in {y \in t.values : y.hash}} : t \in p.tags},
     types |-> p.types,
     recipes |-> {[r.recipe EXCEPT !.type = CHOOSE t \in TypeRows(p, db, v, @) : TRUE] : r \in accepted},
     benches |-> UNION {{[type |-> t, item |-> ItemRow(v, l)] : t \in TypeRows(p, db, v, b.type), l \in Range(b.items)} : b \in p.benches}]

(* execute, for version v: whether the transaction succeeds, its rows, the   *)
(* files with an issue (None: the issue is not about a file), and the items  *)
(* and tags that have a row from now on, for those rows are never deleted.   *)
(* Recipes refused before one that ends the transaction are left out.        *)
Execute(p, modid, db, v, known) ==
    LET added == [items |-> known.items \cup AddedItems(p, modid), tags |-> known.tags \cup AddedTags(p)]
        verdict == [r \in p.recipes |-> IF TypeRows(p, db, v, r.recipe.type) = {} THEN "skipped"
                                        ELSE Verdict(r.recipe.ingredients, added)]
        Result(judged, last) ==
            LET Judged(as) == {r \in p.recipes : judged[r] = as}
                ok == Judged("fatal") = {} /\ Malformed \notin Tagged(p) \cup ChildTags(p) \cup last
            IN  [ok |-> ok,
                 rows |-> RowsOf(p, db, v, AddedItems(p, modid) \cup last, Judged("accepted")),
                 bad |-> p.bad \cup IF ok THEN {r.file : r \in Judged("skipped")} ELSE {r.file : r \in Judged("fatal")} \cup {None},
                 known |-> [added EXCEPT !.items = @ \cup last]]
    IN  Result(verdict, ItemsOfBenches(p, db, v))
Ingest(fs, schema, modid, db, v, known) == Execute(Prepare(fs, schema, modid), modid, db, v, known)
-----------------------------------------------------------------------------
(* ProjectRepo: the queries about version v.                                 *)
GetProjectPagePath(db, v, ref) ==
    LET rows == {p \in db[v].pages : p.ref = ref}
    IN  IF rows = {} THEN None ELSE (CHOOSE p \in rows : TRUE).slug
GetPageRefs(db, v, slugs) ==
    LET rows == {p \in db[v].pages : p.slug \in slugs}
    IN  [slug \in {p.slug : p \in rows} |-> (CHOOSE p \in rows : p.slug = slug).ref]
ResolvePageRefPaths(db, v, refs) ==
    [ref \in {p.ref : p \in db[v].pages} \cap refs |-> GetProjectPagePath(db, v, ref)]

(* The view project_item_page_best: of the pages of an item one that is      *)
(* about it alone, then the one with the smallest reference.  A mutated      *)
(* form: the smallest reference.                                             *)
SmallestRef(db, v, loc) ==
    LET refs == {p.ref : p \in {q \in db[v].itemPages : q.item = loc}}
    IN  IF refs = {} THEN None ELSE CHOOSE r \in refs : \A s \in refs : ~Before(s, r)
BestPage(db, v, loc) ==
    LET refs == {p.ref : p \in {q \in db[v].itemPages : q.item = loc}}
        Count(ref) == Cardinality({p \in db[v].itemPages : p.ref = ref})
        Better(r, s) == (Count(r) = 1 /\ Count(s) # 1) \/ ((Count(r) = 1) = (Count(s) = 1) /\ Before(r, s))
    IN  IF refs = {} THEN None ELSE CHOOSE r \in refs : \A s \in refs : ~Better(s, r)

GetProjectItemPageRef(db, v, loc) ==
    LET ref == BestPage(db, v, loc)
    IN  IF loc \notin db[v].items \/ ref = None THEN None ELSE [ref |-> ref, slug |-> GetProjectPagePath(db, v, ref)]
ResolveItemPagePaths(db, v, locs) ==
    [loc \in {l \in locs \cap db[v].items : BestPage(db, v, l) # None} |-> BestPage(db, v, loc)]

(* ProjectContent: an item of a project with its page.                       *)
ProjectContent(db, item) ==
    LET page == GetProjectItemPageRef(db, item[1], item[2])
    IN  [project |-> item[1], loc |-> item[2],
         ref |-> IF page = None THEN None ELSE page.ref, path |-> IF page = None THEN None ELSE page.slug]
WithPage(contents) == {c \in contents : c.ref # None}
GetProjectItemsDev(db, v) == WithPage({ProjectContent(db, Row(v, l)) : l \in db[v].items})

(* The view tag_item_flat: the items of a tag and of the tags below it.      *)
TagsBelow(db, v, tag) ==
    LET down[n \in 0 .. Cardinality(db[v].tags)] ==
            IF n = 0 THEN {tag} ELSE down[n - 1] \cup {e.child : e \in {f \in db[v].tagTags : f.parent \in down[n - 1]}}
    IN  down[Cardinality(db[v].tags)]
TagItemFlat(db, v, tag) == {e.item : e \in {f \in db[v].tagItems : f.tag \in TagsBelow(db, v, tag)}}
GetProjectTagItemsDev(db, v, tag) ==
    WithPage({ProjectContent(db, i) : i \in {j \in TagItemFlat(db, v, tag) : j[1] \in {v, Builtin}}})
(* Of whatever project.                                                      *)
GetGlobalTagItems(db, tag) == UNION {TagItemFlat(db, w, tag) : w \in {x \in DOMAIN db : tag \in db[x].tags}}
GetItemSourceProjects(db, loc) == {w \in DOMAIN db : loc \in db[w].items}

GetRecipeType(db, v, loc) == {Row(w, loc) : w \in {x \in {v, Builtin} : loc \in db[x].types}}
GetRecipeTypeWorkbenches(db, type) ==
    {ProjectContent(db, b.item) : b \in {c \in UNION {db[w].benches : w \in DOMAIN db} : c.type = type}}

PageItems(db, v, ref) == {p.item : p \in {q \in db[v].itemPages : q.ref = ref}}
Inputs(recipe) == {g \in Range(recipe.ingredients) : g.input}
Outputs(recipe) == {g.id.loc : g \in {h \in Range(recipe.ingredients) : ~h.input /\ ~h.tag}}

(* The recipes of the version at a location where some version has one that  *)
(* makes an item of the page.                                                *)
GetRecipesForPageRef(db, v, ref) ==
    LET ids == {r.id : r \in {s \in UNION {db[w].recipes : w \in DOMAIN db} : Outputs(s) \cap PageItems(db, v, ref) # {}}}
    IN  {r \in db[v].recipes : r.id \in ids}

(* The items with a page of the version that a recipe of it or of the game   *)
(* makes from an item of the page, by itself or as one of a tag.             *)
GetObtainableItemsForPage(db, v, ref) ==
    LET locs == PageItems(db, v, ref)
        Uses(recipe) == \E g \in Inputs(recipe) :
            IF g.tag THEN {i[2] : i \in GetGlobalTagItems(db, g.id.loc)} \cap locs # {} ELSE g.id.loc \in locs
        made == UNION {Outputs(r) : r \in {s \in db[v].recipes \cup db[Builtin].recipes : Uses(s)}}
    IN  WithPage({ProjectContent(db, Row(v, l)) : l \in made \cap db[v].items})
-----------------------------------------------------------------------------
(* RecipeResolver.  names: the names of the items of all projects, by row.   *)
ResolvedItem(project, loc, page, name) == [project |-> project, id |-> loc, ref |-> page, name |-> name]
ResolveContentUsage(contents, names) ==
    {ResolvedItem(c.project, c.loc, c.ref, names[Row(c.project, c.loc)]) : c \in contents}
ResolveWorkbenches(db, v, loc, names) ==
    LET types == GetRecipeType(db, v, loc)
    IN  IF types = {} THEN None ELSE ResolveContentUsage(GetRecipeTypeWorkbenches(db, CHOOSE t \in types : TRUE), names)

ResolveSlot(db, g, names) ==
    LET rows == IF g.tag THEN GetGlobalTagItems(db, g.id.loc)
                ELSE {Row(w, g.id.loc) : w \in GetItemSourceProjects(db, g.id.loc)}
        Item(i) == ResolvedItem(i[1], i[2], ProjectContent(db, i).ref, names[i])
    IN  [input |-> g.input, slot |-> g.slot, count |-> g.count, tag |-> IF g.tag THEN g.id.loc ELSE None,
         items |-> LET found == SetToSeq(rows) IN [n \in DOMAIN found |-> Item(found[n])]]

(* The slots, each with its ingredients in their order.                      *)
BySlot(slots, input) ==
    LET chosen == SelectSeq(slots, LAMBDA s : s.input = input)
    IN  {SelectSeq(chosen, LAMBDA s : s.slot = slot) : slot \in {s.slot : s \in Range(chosen)}}
ItemsOf(group) == FlattenSeq([i \in DOMAIN group |-> group[i].items])

(* A slot is what its first ingredient says, with the items of all.  Mutated *)
(* forms: its count is that of all of its ingredients; the items of the      *)
(* first alone are shown.                                                    *)
MergeCounts(slots, input) ==
    {[group[1] EXCEPT !.items = ItemsOf(group), !.count = FoldLeft(LAMBDA n, s : n + s.count, 0, group)]
        : group \in BySlot(slots, input)}
MergeFirst(slots, input) == {group[1] : group \in BySlot(slots, input)}
MergeSlots(slots, input) ==
    {[group[1] EXCEPT !.items = ItemsOf(group)] : group \in BySlot(slots, input)}

(* How many of what: of a tag, or of the first item of a slot.               *)
SummaryKey(slot) == IF slot.tag # None THEN [tag |-> TRUE, loc |-> slot.tag] ELSE [tag |-> FALSE, loc |-> slot.items[1].id]
IngredientSummary(slots) ==
    LET shown == {s \in slots : s.items # <<>>}
        Total(key) == MapThenSumSet(LAMBDA s : s.count, {s \in shown : SummaryKey(s) = key})
    IN  {[key |-> key, count |-> Total(key)] : key \in {SummaryKey(s) : s \in shown}}

ResolveRecipe(db, recipe, names) ==
    LET Slots(ingredients) == [i \in DOMAIN ingredients |-> ResolveSlot(db, ingredients[i], names)]
        Display(inputs, outputs) ==
            [id |-> recipe.id, type |-> recipe.type[2], inputs |-> inputs, outputs |-> outputs,
             summary |-> [inputs |-> IngredientSummary(inputs), outputs |-> IngredientSummary(outputs)]]
        Merged(slots) == Display(MergeSlots(slots, TRUE), MergeSlots(slots, FALSE))
    IN  Merged(Slots(SelectSeq(recipe.ingredients, LAMBDA g : ~g.tag) \o SelectSeq(recipe.ingredients, LAMBDA g : g.tag)))
=============================================================================
