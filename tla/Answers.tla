------------------------------- MODULE Answers --------------------------------
(* What readers are shown: LocalProject (wiki-projects) answers from the     *)
(* copy of the active deployment and the rows of the last ingestion, the     *)
(* preview (wiki-wasm) from the files of the author.  The trees are in       *)
(* TreeAnswers.                                                              *)
EXTENDS LocalProject

CONSTANTS
    NamesOfOthers,      \* the names of the items of the other versions, by version and location
    SomeLocale          \* a locale that the project is translated to

ASSUME AnswersAssumption ==
    \A key \in DOMAIN NamesOfOthers : key[1] \in DOMAIN Others /\ key[2] \in OthersKnown.items

(* What LocalProject answers from a copy.                                    *)
Lang(locale) == OrElse(locale, "en")
DocsPagePath(fs, locale, slug) == Localized(fs, schemaVersion, locale, PagePath(schemaVersion, "docs", slug))
LocalItemName(fs, locale, loc) ==
    LET page == IF loc = Malformed THEN None ELSE GetProjectItemPageRef(Db, Modid, loc)
    IN  ItemName(fs, schemaVersion, locale, Lang(locale), loc, IF page = None THEN None ELSE page.slug)
InfoboxOf(fs, locale, path) ==
    LET frontmatter == ParseFrontmatter(fs[path])
        names == [i \in DOMAIN frontmatter.ids |-> LocalItemName(fs, locale, frontmatter.ids[i])]
    IN  MergeInfobox(DefaultInfobox(schemaVersion, [frontmatter EXCEPT !.title = PageTitle(fs[path], frontmatter)], names), frontmatter.infobox)

(* resolve_page_links: the database is asked for what the links need.        *)
LinkDataOf(requests) ==
    LET itemRefs == ResolveItemPagePaths(Db, Modid, requests.items)
        refSlugs == ResolvePageRefPaths(Db, Modid, requests.refs \cup Range(itemRefs))
        found == {l \in DOMAIN itemRefs : itemRefs[l] \in DOMAIN refSlugs}
    IN  [itemPages |-> [l \in found |-> [ref |-> itemRefs[l], slug |-> refSlugs[itemRefs[l]]]],
         refSlugs |-> refSlugs,
         vanillaNames |-> [l \in {k \in requests.vanilla : <<Builtin, k>> \in DOMAIN NamesOfOthers}
                            |-> NamesOfOthers[<<Builtin, l>>]]]
LinksOf(fs, locale, path) ==
    LET links == ParseLinks(fs[path].links)
        data == LinkDataOf(LinkRequests(links, Modid))
    IN  ResolveLinks(fs, schemaVersion, locale, Lang(locale), Modid, data, links)

(* The names of items in answers: other projects know their own.             *)
NamesIn(fs) ==
    [item \in (DOMAIN Db) \X dbKnown.items |->
        IF item[1] = Modid THEN LocalItemName(fs, None, item[2]) ELSE LookUp(item, NamesOfOthers)]
Resolved(fs, recipe) == ResolveRecipe(Db, recipe, NamesIn(fs))
WorkbenchesOf(fs, loc) == ResolveWorkbenches(Db, Modid, loc, NamesIn(fs))

(* recipe_type: that of the game, or a file of the copy.                     *)
RecipeTypeOf(fs, type) ==
    LET path == Path(DataOf(schemaVersion, type[2].ns, <<"recipe", "type">>) \o Front(type[2].path), Last(type[2].path), "json")
    IN  IF type[1] = Builtin THEN BuiltinRecipeType(type[2])
        ELSE IF path \notin DOMAIN fs \/ ~fs[path].json THEN None
        ELSE fs[path].slots

-----------------------------------------------------------------------------
(* What the preview makes of the author's files: it has no database and      *)
(* scans the pages itself.                                                   *)
LinkDataFromPages(fs) ==
    LET scan == ScanContentPages(fs, schemaVersion, Modid)
    IN  [itemPages |-> BestItemPages(Range(scan.pages)),
         refSlugs |-> [ref \in {p.ref : p \in Range(scan.pages)} |-> (CHOOSE p \in PagesByRef(scan) : p.ref = ref).slug],
         vanillaNames |-> <<>>]
PreviewLinks(fs, data, locale, path) ==
    ResolveLinks(fs, schemaVersion, locale, Lang(locale), Modid, data, ParseLinks(fs[path].links))
PreviewItemName(fs, data, locale, loc) ==
    LET page == LookUp(loc, data.itemPages)
    IN  ItemName(fs, schemaVersion, locale, Lang(locale), loc, IF page = None THEN None ELSE page.slug)
PreviewInfobox(fs, data, locale, path) ==
    LET frontmatter == ParseFrontmatter(fs[path])
        names == [i \in DOMAIN frontmatter.ids |-> PreviewItemName(fs, data, locale, frontmatter.ids[i])]
    IN  MergeInfobox(DefaultInfobox(schemaVersion, [frontmatter EXCEPT !.title = PageTitle(fs[path], frontmatter)], names), frontmatter.infobox)
-----------------------------------------------------------------------------
(* What is served is what was deployed: nobody deploys, and the rows are     *)
(* those of the active copy.                                                 *)
Settled == /\ job = None /\ reader = None /\ reports = {} /\ reads = 0
           /\ ActiveDeployment # None /\ ingested = ActiveDeployment
SomeLocales == {None, SomeLocale}
ServedFiles(fs, locale) == {ContentPagePath(fs, locale, p.slug) : p \in dbRows.pages}

(* The preview shows what the site will show: with the same files, unless    *)
(* two pages have the same reference, the infoboxes of the pages (with the   *)
(* names of their items) and the links between them are the same, though one *)
(* side scans the files and the other one asks the database.  The titles of  *)
(* links to items of the game are only known to the server.                  *)
Untitled(links) == {<<l[1], IF l[2].type = "vanilla" THEN [l[2] EXCEPT !.title = None] ELSE l[2]>> : l \in links}
Distinct(fs) == Len(ScanContentPages(fs, schemaVersion, Modid).pages) = Cardinality(dbRows.pages)
Previewed(fs) == Settled /\ checkout = deployments[ActiveDeployment].copy /\ fs = Contents(checkout) /\ Distinct(fs)
PreviewIsServed ==
    LET fs == Contents(checkout)
        data == LinkDataFromPages(fs)
    IN  Previewed(fs) => \A locale \in SomeLocales : \A path \in ServedFiles(fs, locale) :
            /\ PreviewInfobox(fs, data, locale, path) = InfoboxOf(fs, locale, path)
            /\ Untitled(PreviewLinks(fs, data, locale, path)) = Untitled(LinksOf(fs, locale, path))

(* Whatever is referred to opens: the targets of all links to pages and the  *)
(* items of a project, of its tags and workbenches lead to a page that can   *)
(* be read and names its items, unless the author's Markdown is malformed,   *)
(* which nobody checks before.                                               *)
Opens(fs, path) == ReadPageError(fs, path) \in {None, "malformed_markdown"}
ContentOpens(fs, locale, ref) ==
    LET slug == GetProjectPagePath(Db, Modid, ref)
        path == ContentPagePath(fs, locale, slug)
    IN  slug # None /\ Opens(fs, path) /\ fs[path].ids # <<>>
OwnPages(items) == {x.ref : x \in {y \in items : y.project = Modid /\ y.ref # None}}
ListedItems(fs) ==
    GetProjectItemsDev(Db, Modid) \cup (UNION {GetProjectTagItemsDev(Db, Modid, t) : t \in dbRows.tags})
    \cup (UNION {WorkbenchesOf(fs, loc) : loc \in dbRows.types})
ReferencesOpen ==
    Settled => LET fs == CopyOf(ActiveDeployment) IN \A locale \in SomeLocales :
        /\ \A path \in ServedFiles(fs, locale) : \A link \in LinksOf(fs, locale, path) :
              CASE link[2].type = "content" -> ContentOpens(fs, locale, link[2].ref)
                [] link[2].type = "docs" -> Opens(fs, DocsPagePath(fs, locale, link[2].ref))
                [] OTHER -> TRUE
        /\ \A ref \in OwnPages(ListedItems(fs)) : ContentOpens(fs, locale, ref)

(* What recipes show opens: the pages of the items in them; the type of      *)
(* every recipe can be shown.                                                *)
ShownOpens ==
    Settled =>
        LET fs == CopyOf(ActiveDeployment)
            Shown(recipe) == UNION {Range(s.items) : s \in recipe.inputs \cup recipe.outputs}
            shown == UNION {Shown(Resolved(fs, r)) : r \in dbRows.recipes}
        IN  /\ \A locale \in SomeLocales : \A ref \in OwnPages(shown) : ContentOpens(fs, locale, ref)
            /\ \A recipe \in dbRows.recipes : RecipeTypeOf(fs, recipe.type) # None

(* An item that can be obtained from those of a page has a page on which a   *)
(* recipe shows one of them: what obtainable_items_by promises on one page   *)
(* recipes_for_page keeps on the other.                                      *)
UsageIsShown ==
    Settled =>
        LET fs == CopyOf(ActiveDeployment)
            Shown(recipe) == UNION {{i.id : i \in Range(s.items)} : s \in Resolved(fs, recipe).inputs}
        IN  \A page \in dbRows.pages : \A made \in GetObtainableItemsForPage(Db, Modid, page.ref) :
                \E recipe \in GetRecipesForPageRef(Db, Modid, made.ref) :
                    made.loc \in Outputs(recipe) /\ Shown(recipe) \cap PageItems(Db, Modid, page.ref) # {}

(* The summary of a shaped recipe counts as many ingredients as its pattern  *)
(* has cells with a key, however many alternatives a cell has, if there is   *)
(* something to show for each.                                               *)
RecipeFile(id) == Path(DataOf(schemaVersion, Modid, <<"recipe">>) \o Front(id.path), Last(id.path), "json")
Cells(data) ==
    UNION {{<<r, c>> : c \in {d \in DOMAIN data.pattern[r] : data.pattern[r][d] \in DOMAIN data.key}} : r \in DOMAIN data.pattern}
SummaryCountsCells ==
    Settled =>
        LET fs == CopyOf(ActiveDeployment)
            Counts(recipe) ==
                LET shown == Resolved(fs, recipe)
                IN  (\A s \in shown.inputs : s.items # <<>>) =>
                        MapThenSumSet(LAMBDA x : x.count, shown.summary.inputs) = Cardinality(Cells(fs[RecipeFile(recipe.id)].recipe))
        IN  \A recipe \in {r \in dbRows.recipes : r.type[2] = Vanilla(<<"crafting", "shaped">>)} : Counts(recipe)

(* Recipes are shown: what they show opens, they are found from both sides,  *)
(* with all alternatives, and counted right (RecipeResolver).                *)
RecipesAreShown == ShownOpens /\ UsageIsShown /\ SummaryCountsCells
=============================================================================
