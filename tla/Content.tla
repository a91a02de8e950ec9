------------------------------ MODULE Content -------------------------------
(* What the crate wiki-content makes of the files of a project, on the       *)
(* server (format/mod.rs of wiki-storage) as in the preview of an author     *)
(* (wiki-wasm): where files are, which are pages, how pages are addressed,   *)
(* the titles and the links.  The trees are in Trees.                        *)
(*                                                                           *)
(* A file system is a function from paths to texts.  The name of a file or   *)
(* directory is the sequence of the words that "_" separates in it; a word   *)
(* "" at its start stands for a leading "_".  A slug is a sequence of names, *)
(* the reference of a page one name: slug.replace('/', "_") runs the names   *)
(* together, so that two slugs may give the same reference.                  *)
EXTENDS Naturals, Sequences, FiniteSets, SequencesExt

CONSTANTS
    WordRank,   \* the words and their order as strings
    Dotted,     \* the words that start with a dot
    None,       \* an absent value
    Malformed   \* a string that ResourceLocation::parse refuses

ASSUME ContentAssumption ==
    /\ WordRank \in [DOMAIN WordRank -> Nat] /\ "" \in DOMAIN WordRank
    /\ \A v, w \in DOMAIN WordRank : WordRank[v] = WordRank[w] => v = w
    /\ Dotted \subseteq DOMAIN WordRank
    /\ \A d \in Dotted, w \in DOMAIN WordRank \ Dotted : WordRank[d] < WordRank[w]
    /\ \A w \in DOMAIN WordRank \ (Dotted \cup {""}) : WordRank[""] < WordRank[w]
    /\ None \notin Seq(DOMAIN WordRank) \cup Seq(Seq(DOMAIN WordRank))

Location(ns, path) == [ns |-> ns, path |-> path]
Path(dir, name, ext) == [dir |-> dir, name |-> name, ext |-> ext]
Names == Seq(DOMAIN WordRank)
Paths == [dir : Seq(Names), name : Names, ext : STRING]
Locations == [ns : STRING, path : Seq(Names)]

(* The order of names as strings ("." comes before "_" and that before the   *)
(* letters).                                                                 *)
Before(m, n) ==
    \/ IsStrictPrefix(m, n)
    \/ \E i \in 1 .. Len(m) : /\ i <= Len(n) /\ SubSeq(m, 1, i - 1) = SubSeq(n, 1, i - 1)
                              /\ WordRank[m[i]] < WordRank[n[i]]

OrElse(value, other) == IF value = None THEN other ELSE value
-----------------------------------------------------------------------------
(* Layout: the directories of the two versions of the schema.                *)
Dir(schema, word) == IF schema = "legacy" THEN <<".", word>> ELSE <<word>>
SectionDir(schema, section) ==
    IF section = "content" THEN <<Dir(schema, "content")>>
    ELSE IF schema = "legacy" THEN <<>>
    ELSE <<<<"docs">>>>
TranslationsDir(schema) == <<Dir(schema, "translated")>>
DataDir(schema) == <<Dir(schema, "data")>>

PagePath(schema, section, slug) ==
    Path(SectionDir(schema, section) \o Front(slug), Last(slug), "mdx")
InLocale(schema, path, locale) ==
    [path EXCEPT !.dir = TranslationsDir(schema) \o <<<<locale>>>> \o @]
LanguageFilePath(schema, ns, lang) ==
    Path(<<Dir(schema, "assets"), <<ns>>, <<"lang">>>>, <<lang>>, "json")
ItemAsset(schema, loc) ==
    IF schema = "legacy" \/ loc = Malformed THEN loc ELSE [loc EXCEPT !.path = <<<<"item">>>> \o @]

Localized(fs, schema, locale, path) ==
    IF locale # None /\ InLocale(schema, path, locale) \in DOMAIN fs
    THEN InLocale(schema, path, locale) ELSE path

(* Of a directory: its entries, directories and files.                       *)
ReadDir(fs, dir) ==
    {[name |-> p.name, ext |-> p.ext] : p \in {q \in DOMAIN fs : q.dir = dir}}
    \cup {[name |-> p.dir[Len(dir) + 1], ext |-> "dir"] : p \in {q \in DOMAIN fs : IsStrictPrefix(dir, q.dir)}}
-----------------------------------------------------------------------------
(* Front matter.  A text says what its YAML holds and what its body is.      *)
IsText(text) == text.ids \in Seq(Locations \cup {Malformed}) /\ text.ref \in Names \cup {None, Malformed}
ValidFrontmatter(text) ==
    /\ text.yaml
    /\ Malformed \notin Range(text.ids) /\ text.icon # Malformed /\ text.ref # Malformed
    /\ text.infobox # None =>
          /\ ~(text.infobox.display # None /\ text.infobox.tabs # None)
          /\ \A field \in {"display", "inventory"} :
                text.infobox[field] # None => Malformed \notin Range(text.infobox[field])

(* A display of its own becomes the only tab.                                *)
ParsedInfobox(raw) ==
    IF raw = None THEN None
    ELSE [title |-> raw.title,
          tabs |-> IF raw.display # None THEN <<[name |-> <<>>, display |-> raw.display]>> ELSE raw.tabs,
          inventory |-> IF raw.inventory = None THEN None
                        ELSE [i \in DOMAIN raw.inventory |-> [id |-> None, name |-> None, asset |-> raw.inventory[i]]]]
ParseFrontmatter(text) ==
    IF ~ValidFrontmatter(text) THEN None
    ELSE [ids |-> text.ids, title |-> text.title, ref |-> text.ref, icon |-> text.icon,
          infobox |-> ParsedInfobox(text.infobox)]

(* The title of the front matter, or the first heading of a readable body.   *)
Heading(text) == IF text.body THEN text.h1 ELSE None
PageTitle(text, frontmatter) == OrElse(frontmatter.title, Heading(text))
PageTitleAt(fs, path) ==
    IF path \notin DOMAIN fs THEN None
    ELSE LET frontmatter == ParseFrontmatter(fs[path])
         IN  IF frontmatter = None THEN Heading(fs[path]) ELSE PageTitle(fs[path], frontmatter)
-----------------------------------------------------------------------------
(* References (PageRefs).                                                    *)
DeriveRef(existing, custom, ids, slug) ==
    LET primary == FlattenSeq(ids[1].path)
    IN  IF custom # None /\ custom \notin existing THEN custom
        ELSE IF Len(ids) = 1 /\ primary \notin existing THEN primary
        ELSE IF Last(slug) \notin existing THEN Last(slug)
        ELSE FlattenSeq(slug)

(* The pages of the content section in the order of collect_pages: that of   *)
(* the names, a directory before the file of the same name.                  *)
SlugBefore(s, t) ==
    \E i \in 1 .. Len(s) : /\ i <= Len(t) /\ SubSeq(s, 1, i - 1) = SubSeq(t, 1, i - 1)
                           /\ \/ Before(s[i], t[i])
                              \/ s[i] = t[i] /\ i < Len(s) /\ i = Len(t)
PagesIn(fs, root) == {p \in DOMAIN fs : IsPrefix(root, p.dir) /\ p.ext = "mdx" /\ p.name[1] \notin Dotted}
SlugsIn(fs, root) == {SubSeq(p.dir, Len(root) + 1, Len(p.dir)) \o <<p.name>> : p \in PagesIn(fs, root)}
ContentSlugs(fs, schema) ==
    LET slugs == SlugsIn(fs, SectionDir(schema, "content"))
        Earlier(slug) == {t \in slugs : SlugBefore(t, slug)}
    IN  [i \in 1 .. Cardinality(slugs) |-> CHOOSE slug \in slugs : Cardinality(Earlier(slug)) = i - 1]

(* What keeps a file from being a page.                                      *)
PageIssues == {"invalid_frontmatter", "missing_ids", "invalid_id", "no_page_title"}
PageIssue(text, modid) ==
    LET frontmatter == ParseFrontmatter(text)
    IN  IF frontmatter = None THEN "invalid_frontmatter"
        ELSE IF frontmatter.ids = <<>> THEN "missing_ids"
        ELSE IF \E i \in DOMAIN frontmatter.ids : frontmatter.ids[i].ns # modid THEN "invalid_id"
        ELSE IF PageTitle(text, frontmatter) = None THEN "no_page_title"
        ELSE None

ContentPage(ref, slug, ids) == [ref |-> ref, slug |-> slug, ids |-> ids]
AddPage(fs, schema, modid, scan, slug) ==
    LET path == PagePath(schema, "content", slug)
        issue == PageIssue(fs[path], modid)
        ref == DeriveRef({p.ref : p \in Range(scan.pages)}, fs[path].ref, fs[path].ids, slug)
    IN  IF issue # None THEN [scan EXCEPT !.issues = @ \cup {[kind |-> issue, path |-> path]}]
        ELSE [scan EXCEPT !.pages = Append(@, ContentPage(ref, slug, fs[path].ids))]
ScanContentPages(fs, schema, modid) ==
    LET slugs == ContentSlugs(fs, schema)
        scanned[n \in 0 .. Len(slugs)] ==
            IF n = 0 THEN [pages |-> <<>>, issues |-> {}] ELSE AddPage(fs, schema, modid, scanned[n - 1], slugs[n])
    IN  scanned[Len(slugs)]
-----------------------------------------------------------------------------
(* Names and links.                                                          *)

(* best_item_pages: of the pages of an item one that is about it alone, then *)
(* the one with the smallest reference.                                      *)
BetterPage(p, q) ==
    LET Dedicated(page) == Cardinality(Range(page.ids)) = 1
    IN  (Dedicated(p) /\ ~Dedicated(q)) \/ (Dedicated(p) = Dedicated(q) /\ Before(p.ref, q.ref))
BestItemPages(pages) ==
    LET locs == UNION {Range(p.ids) : p \in pages}
        Best(loc) == LET about == {p \in pages : loc \in Range(p.ids)}
                     IN  CHOOSE p \in about : \A q \in about : ~BetterPage(q, p)
    IN  [loc \in locs |-> [ref |-> Best(loc).ref, slug |-> Best(loc).slug]]

LangKey(fs, schema, lang, ns, key) ==
    LET path == LanguageFilePath(schema, ns, lang)
    IN  IF path \notin DOMAIN fs \/ ~fs[path].json \/ key \notin DOMAIN fs[path].entries THEN None
        ELSE fs[path].entries[key]

ContentPageTitle(fs, schema, locale, slug) ==
    PageTitleAt(fs, Localized(fs, schema, locale, PagePath(schema, "content", slug)))
ItemName(fs, schema, locale, lang, loc, slug) ==
    IF loc = Malformed THEN None
    ELSE LET Key(kind) == LangKey(fs, schema, lang, loc.ns, <<kind, loc>>)
         IN  OrElse(OrElse(Key("item"), Key("block")),
                    IF slug = None THEN None ELSE ContentPageTitle(fs, schema, locale, slug))

(* parse_link: $ a page of the documentation, @ an item, + a reference.      *)
ParseLink(raw) ==
    LET Target(type, what) == [original |-> raw, type |-> type, what |-> what, options |-> raw.anchor]
    IN  CASE raw.prefix = "$" -> Target("docs", raw.to)
          [] raw.prefix = "+" -> Target("ref", raw.to)
          [] raw.prefix = "@" /\ raw.to # Malformed ->
                Target(IF raw.to.ns = "minecraft" THEN "vanilla" ELSE "content", raw.to)
          [] OTHER -> None
ParseLinks(links) == {ParseLink(raw) : raw \in Range(links)} \ {None}

(* link_requests: what the server has to look up.                            *)
LinkRequests(links, modid) ==
    [items |-> {l.what : l \in {k \in links : k.type = "content" /\ k.what.ns = modid}},
     refs |-> {l.what : l \in {k \in links : k.type = "ref"}},
     vanilla |-> {l.what : l \in {k \in links : k.type = "vanilla"}}]

LookUp(key, f) == IF key \in DOMAIN f THEN f[key] ELSE None

(* data: the pages of items, the slugs of references, the names of the items *)
(* of the game.                                                              *)
DocsTarget(fs, schema, locale, link) == Localized(fs, schema, locale, PagePath(schema, "docs", link.what))
IsResolved(fs, schema, locale, modid, data, link) ==
    CASE link.type = "docs" -> DocsTarget(fs, schema, locale, link) \in DOMAIN fs
      [] link.type = "vanilla" -> TRUE
      [] link.type = "content" -> link.what.ns = modid /\ link.what \in DOMAIN data.itemPages
      [] link.type = "ref" -> link.what \in DOMAIN data.refSlugs
ResolveLink(fs, schema, locale, lang, data, link) ==
    LET Link(type, ref, title) == [type |-> type, ref |-> ref, title |-> title, options |-> link.options]
    IN  CASE link.type = "docs" -> Link("docs", link.what, PageTitleAt(fs, DocsTarget(fs, schema, locale, link)))
          [] link.type = "vanilla" -> Link("vanilla", link.what.path, LookUp(link.what, data.vanillaNames))
          [] link.type = "content" ->
                LET page == data.itemPages[link.what]
                IN  Link("content", page.ref, ItemName(fs, schema, locale, lang, link.what, page.slug))
          [] link.type = "ref" ->
                Link("content", link.what, ContentPageTitle(fs, schema, locale, data.refSlugs[link.what]))
ResolveLinks(fs, schema, locale, lang, modid, data, links) ==
    LET resolved == {link \in links : IsResolved(fs, schema, locale, modid, data, link)}
    IN  {<<link.original, ResolveLink(fs, schema, locale, lang, data, link)>> : link \in resolved}

(* default_infobox and merge_infobox: a tab and an item of the inventory per *)
(* identifier, unless the page brings its own.  infer_tab_names, which cuts  *)
(* what most names share, is left out: a tab has its item's name.            *)
DefaultInfobox(schema, frontmatter, names) ==
    LET ids == frontmatter.ids
        Shown(i) == IF Len(ids) = 1 /\ frontmatter.icon # None THEN frontmatter.icon ELSE ItemAsset(schema, ids[i])
    IN  [title |-> frontmatter.title,
         tabs |-> [i \in DOMAIN ids |-> [name |-> names[i], display |-> <<Shown(i)>>]],
         inventory |-> [i \in DOMAIN ids |-> [id |-> ids[i], name |-> names[i], asset |-> ItemAsset(schema, ids[i])]]]
MergeInfobox(default, user) ==
    IF user = None THEN default
    ELSE [field \in {"title", "tabs", "inventory"} |-> OrElse(user[field], default[field])]
=============================================================================
