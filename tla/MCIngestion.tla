---------------------------- MODULE MCIngestion -----------------------------
(* Two projects: b names the recipe type and the items of a.                 *)
EXTENDS Ingestion

CONSTANTS a, b

MCNamespace == ("ax" :> "a") @@ ("amix" :> "a") @@ ("at" :> "a") @@ ("bt" :> "b") @@ ("bu" :> "b") @@ ("bx" :> "b")
               @@ ("ra" :> "a") @@ ("rb" :> "b")
               @@ ("m" :> "minecraft") @@ ("n" :> "minecraft") @@ ("o" :> "minecraft")
MCRank == ("amix" :> 1) @@ ("at" :> 2) @@ ("ax" :> 3) @@ ("bt" :> 4) @@ ("bu" :> 5)
          @@ ("bx" :> 6) @@ ("m" :> 7) @@ ("n" :> 8) @@ ("o" :> 9) @@ ("ra" :> 10) @@ ("rb" :> 11) @@ ("?" :> 12)
MCModid == (a :> "a") @@ (b :> "b")

Empty == [pages |-> {}, tags |-> <<>>, types |-> {}, recipes |-> {}, benches |-> <<>>]
Item(l) == [loc |-> l, tag |-> FALSE]
Tag(l) == [loc |-> l, tag |-> TRUE]
Recipe(i, t, s) == [id |-> i, type |-> t, ingredients |-> s]

\* A page, a recipe of an own type with an item of the game, a workbench.
A1 == [Empty EXCEPT !.pages = {"ax"}, !.types = {"amix"},
        !.recipes = {Recipe("ra", "amix", <<Item("ax"), Item("m")>>)},
        !.benches = "amix" :> <<"m">>]
\* A tag of two items.
A2 == [Empty EXCEPT !.tags = "at" :> {Item("n"), Item("o")}]
\* What uses the type of a, with tags whose items come in the other order.
B1 == [Empty EXCEPT !.pages = {"bx"}, !.tags = ("bt" :> {Item("o")}) @@ ("bu" :> {Item("n")}),
        !.recipes = {Recipe("rb", "amix", <<Item("m")>>)}]
\* A repeated ingredient, and a workbench with no statement after it.
B2 == [Empty EXCEPT !.recipes = {Recipe("rb", "amix", <<Item("m"), Item("m")>>)}, !.benches = "amix" :> <<"m">>]
\* A cycle of tags, one with a value that is no location.
B3 == [Empty EXCEPT !.tags = ("bt" :> {Tag("bu")}) @@ ("bu" :> {Tag("bt"), Item("?")})]

MCFiles == ("A1" :> A1) @@ ("A2" :> A2) @@ ("B1" :> B1) @@ ("B2" :> B2) @@ ("B3" :> B3) @@ ("none" :> Empty)
MCJobs == (a :> {[default |-> "A1", named |-> "A2"]})
          @@ (b :> {[default |-> c, named |-> "none"] : c \in {"B1", "B2", "B3"}})
=============================================================================
