--------------------------- MODULE MCLocalProject ----------------------------
(* A mod m with two content pages, a page of documentation, recipes and what *)
(* may happen to it: pages about several items, pages whose references meet, *)
(* translations with and without identifiers, Markdown, JSON, identifiers,   *)
(* tags and recipes that are wrong.                                          *)
EXTENDS TreeAnswers

MCWords ==
    <<".", "", "a", "aa", "ab", "assets", "b", "content", "data", "docs", "en", "four", "fr", "guide", "item", "lang", "m", "meta",
      "one", "press", "recipe", "sub", "t", "tags", "three", "translated", "two", "type", "workbenches">>
MCWordRank == [word \in Range(MCWords) |-> CHOOSE i \in DOMAIN MCWords : MCWords[i] = word]

N(word) == <<<<word>>>>
I(word) == Location("m", N(word))
Stick == Vanilla(<<"stick">>)

Blank == [yaml |-> TRUE, ids |-> <<>>, ref |-> None, title |-> None, icon |-> None, infobox |-> None, h1 |-> None,
          body |-> TRUE, links |-> <<>>, json |-> TRUE, entries |-> <<>>, recipe |-> Malformed, slots |-> None,
          values |-> None, benches |-> {}]
Link(prefix, to) == [prefix |-> prefix, to |-> to, anchor |-> None]
AllLinks == <<Link("@", I("b")), Link("@", I("a")), Link("+", <<"b">>), Link("$", N("guide")), Link("$", N("none")),
              Link("@", Stick), Link("@", Malformed)>>
Page(ids, title) == [Blank EXCEPT !.ids = ids, !.title = title]

String(hash, loc) == <<[form |-> "string", id |-> Text(hash, loc)]>>
OneOf(strings) == <<[form |-> "list", list |-> [i \in DOMAIN strings |-> i + 1]]>> \o FlattenSeq(strings)
MadeB == [id |-> Text(FALSE, I("b")), count |-> 1]
Shaped == [type |-> Vanilla(<<"crafting", "shaped">>), bare |-> FALSE, result |-> MadeB,
           pattern |-> <<<<"X", "blank">>, <<"Y", "X">>>>,
           key |-> [X |-> OneOf(<<String(FALSE, Stick), String(FALSE, I("a"))>>), Y |-> String(FALSE, Stick)]]
Shapeless(list) == [type |-> Vanilla(<<"crafting", "shapeless">>), bare |-> FALSE, ingredients |-> list, result |-> MadeB]
Press == [type |-> I("press"), bare |-> FALSE,
          input |-> <<[slot |-> "in", ids |-> <<Text(FALSE, Stick), Text(FALSE, I("a"))>>, count |-> 2]>>,
          output |-> <<[slot |-> "out", ids |-> <<Text(FALSE, I("b"))>>, count |-> 1]>>]
Recipe(data) == [Blank EXCEPT !.recipe = data]

File(path, text) == [path |-> path, text |-> text]
ContentFile(v, name) == PagePath(v, "content", N(name))
Translation(v, name) == InLocale(v, ContentFile(v, name), "fr")
InData(v, kind, name) == Path(DataOf(v, "m", kind), <<name>>, "json")
TagFile(v) == Path(DataOf(v, "m", <<"tags">>) \o N("item"), <<"t">>, "json")

Entry(word, form, name) == [key |-> [name |-> <<word>>, ext |-> "mdx"], form |-> form, name |-> name, icon |-> None]
Infobox == [title |-> "Box", display |-> <<I("ab")>>, tabs |-> None, inventory |-> None]
CatalogOf(v) == [
    a |-> File(ContentFile(v, "a"), [Page(<<I("a")>>, "A") EXCEPT !.links = AllLinks]),
    b |-> File(ContentFile(v, "b"), [Page(<<I("b")>>, None) EXCEPT !.h1 = "B"]),
    guide |-> File(PagePath(v, "docs", N("guide")), [Page(<<>>, "Guide") EXCEPT !.links = AllLinks]),
    shaped |-> File(InData(v, <<"recipe">>, "one"), Recipe(Shaped)),
    press |-> File(InData(v, <<"recipe">>, "two"), Recipe(Press)),
    type |-> File(InData(v, <<"recipe", "type">>, "press"), [Blank EXCEPT !.slots = {"in", "out"}]),
    benches |-> File(WorkbenchesPath(v, "m"), [Blank EXCEPT !.benches = {[type |-> I("press"), items |-> <<I("a")>>]}]),
    en |-> File(LanguageFilePath(v, "m", "en"), [Blank EXCEPT !.entries = (<<"item", I("a")>> :> "Item A")]),
    fr |-> File(LanguageFilePath(v, "m", "fr"), [Blank EXCEPT !.entries = (<<"block", I("b")>> :> "Bloc B")]),
    both |-> File(ContentFile(v, "aa"), [Page(<<I("a"), I("b")>>, "Both") EXCEPT !.infobox = Infobox]),
    other |-> File(PagePath(v, "content", <<<<"sub">>, <<"b">>>>), [Page(<<I("b")>>, "Other b") EXCEPT !.icon = Stick]),
    takesB |-> File(ContentFile(v, "ab"), [Page(<<I("ab")>>, "Takes b") EXCEPT !.ref = <<"b">>]),
    foreign |-> File(ContentFile(v, "ab"), Page(<<Location("other", N("ab"))>>, "Foreign")),
    malformed |-> File(ContentFile(v, "a"), [Page(<<I("a")>>, "A") EXCEPT !.body = FALSE]),
    frenchA |-> File(Translation(v, "a"), Page(<<>>, "A in French")),
    frenchB |-> File(Translation(v, "b"), Page(<<I("b"), I("ab")>>, "B in French")),
    folder |-> File(Path(SectionDir(v, "content"), <<"", "meta">>, "json"),
         [Blank EXCEPT !.entries = <<Entry("b", "string", "First"), Entry("a", "null_icon", None), Entry("ab", "other", None)>>]),
    tag |-> File(TagFile(v), [Blank EXCEPT !.values = {Text(FALSE, I("a")), Text(FALSE, Stick), Text(TRUE, I("deep"))}]),
    tagged |-> File(InData(v, <<"recipe">>, "three"), Recipe(Shapeless(<<String(TRUE, I("t"))>>))),
    repeated |-> File(InData(v, <<"recipe">>, "four"), Recipe(Shapeless(<<OneOf(<<String(FALSE, I("a")), String(FALSE, I("a"))>>)>>))),
    badJson |-> File(LanguageFilePath(v, "m", "fr"), [Blank EXCEPT !.json = FALSE])]
MCCatalog == ("legacy" :> CatalogOf("legacy")) @@ ("v1" :> CatalogOf("v1"))
MCFirstFiles == {"a", "b", "guide", "shaped", "press", "type", "benches", "en", "fr", "folder", "tag"}
MCMaxChanges == [legacy |-> 1, v1 |-> 2]

MCOthers == ("minecraft" :> [NoRows EXCEPT !.items = {Stick}, !.types = DOMAIN BuiltinRecipeTypes])
            @@ ("addon" :> [NoRows EXCEPT !.items = {I("a")}, !.tags = {I("deep")},
                                          !.tagItems = {[tag |-> I("deep"), item |-> <<"addon", I("a")>>]}])
MCOthersKnown == [items |-> {Stick, I("a")}, tags |-> {I("deep")}]
MCNamesOfOthers == (<<"minecraft", Stick>> :> "Stick")
MCSomeRequests == {<<<<"a">>, "fr">>}
=============================================================================
