------------------------------- MODULE Recipes --------------------------------
(* What the ingestor makes of a recipe file (ingestor/recipes of             *)
(* wiki-storage): the parsers of the recipes of the game and of other mods,  *)
(* and the ingredients of the mod loaders.                                   *)
(*                                                                           *)
(* An identifier in a file is [hash, loc]: whether it starts with a hash,    *)
(* and what follows.  A field that a file does not have is None, and so is   *)
(* what cannot be parsed.                                                    *)
EXTENDS Content

Text(hash, loc) == [hash |-> hash, loc |-> loc]

(* VanillaIngredient: an item or a tag.                                      *)
Choice(text, tag) == [id |-> text, tag |-> tag]
Ingredient(choice, slot, count, input) ==
    [id |-> choice.id, tag |-> choice.tag, slot |-> slot, count |-> count, input |-> input]

(* VanillaIngredient::parse, and single of the custom parser.                *)
ParseChoice(text) == Choice(Text(FALSE, text.loc), text.hash)
-----------------------------------------------------------------------------
(* Ingredients of the loaders: what they do with their children.             *)
CustomIngredients ==
    ("neoforge:compound" :> "children") @@ ("neoforge:components" :> "items")
    @@ ("neoforge:difference" :> "base") @@ ("neoforge:intersection" :> "first child")
    @@ ("neoforge:block_tag" :> "tag") @@ ("neoforge:custom_display" :> "base")
    @@ ("fabric:any" :> "ingredients") @@ ("fabric:all" :> "first ingredient")
    @@ ("fabric:components" :> "base") @@ ("fabric:custom_data" :> "base") @@ ("fabric:difference" :> "base")

(* Of lists of choices, one of which may have failed.                        *)
Flattened(lists) == IF lists = None \/ None \in Range(lists) THEN None ELSE FlattenSeq(lists)
FirstOf(lists) == IF Flattened(lists) = None THEN None ELSE IF lists = <<>> THEN <<>> ELSE Head(lists)
NonEmpty(list) == IF list = <<>> THEN None ELSE list

(* VanillaIngredientList: an identifier, a list or an object.  The JSON is   *)
(* the sequence of its nodes, from the whole to the parts; a node names its  *)
(* parts by their positions.                                                 *)
IngredientList(json) ==
    LET parsed[n \in DOMAIN json] ==
            LET node == json[n]
                All(list) == IF list = None THEN None ELSE [i \in DOMAIN list |-> parsed[list[i]]]
                Nested(value) == IF value = None THEN None ELSE parsed[value]
                (* An object with a type of a loader, whatever else it has. *)
                Custom ==
                    CASE node.type \notin DOMAIN CustomIngredients -> None
                      [] CustomIngredients[node.type] = "children" -> NonEmpty(Flattened(All(OrElse(node.children, node.ingredients))))
                      [] CustomIngredients[node.type] = "ingredients" -> NonEmpty(Flattened(All(node.ingredients)))
                      [] CustomIngredients[node.type] = "first child" -> NonEmpty(FirstOf(All(node.children)))
                      [] CustomIngredients[node.type] = "first ingredient" -> NonEmpty(FirstOf(All(node.ingredients)))
                      [] CustomIngredients[node.type] = "items" -> Nested(node.items)
                      [] CustomIngredients[node.type] = "base" -> Nested(node.base)
                      [] CustomIngredients[node.type] = "tag" /\ node.tag # None -> <<Choice(Text(FALSE, node.tag.loc), TRUE)>>
                      [] OTHER -> None
            IN  CASE node.form = "string" -> <<ParseChoice(node.id)>>
                  [] node.form = "list" -> Flattened(All(node.list))
                  [] node.form = "object" /\ node.type # None -> Custom
                  [] node.form = "object" /\ node.item # None -> <<Choice(node.item, FALSE)>>
                  [] node.form = "object" /\ node.tag # None -> <<Choice(node.tag, TRUE)>>
                  [] OTHER -> None
    IN  parsed[1]
-----------------------------------------------------------------------------
(* The recipes of the game: the ingredients of a slot, the result.           *)
PushList(list, slot) == [i \in DOMAIN list |-> Ingredient(list[i], slot, 1, TRUE)]
PushResult(result) == <<Ingredient(Choice(result.id, FALSE), "1", result.count, FALSE)>>

(* Slots with what the file says of them, in their order, and the result.    *)
AssembledOf(slots, lists, result) ==
    IF result = None \/ None \in Range(lists) THEN None
    ELSE FlattenSeq([i \in DOMAIN slots |-> PushList(lists[i], slots[i].slot)]) \o PushResult(result)
Assembled(slots, result) ==
    LET ListOf(json) == IF json = None THEN None ELSE IngredientList(json)
    IN  IF slots = None THEN None ELSE AssembledOf(slots, [i \in DOMAIN slots |-> ListOf(slots[i].json)], result)

(* A pattern of three columns.  A cell is blank, a letter with a key or one  *)
(* without, which is skipped; every key has to parse.                        *)
SlotOf(row, col) == ToString((row - 1) * 3 + (col - 1) + 1)
ShapedSlots(data) ==
    LET Row(r) == [c \in DOMAIN data.pattern[r] |-> [cell |-> data.pattern[r][c], slot |-> SlotOf(r, c)]]
        Filled(cells) == SelectSeq(cells, LAMBDA x : x.cell # "blank" /\ x.cell \in DOMAIN data.key)
        Slots(cells) == [i \in DOMAIN cells |-> [slot |-> cells[i].slot, json |-> data.key[cells[i].cell]]]
    IN  IF data.pattern = None \/ data.key = None \/ \E k \in DOMAIN data.key : IngredientList(data.key[k]) = None THEN None
        ELSE Slots(Filled(FlattenSeq([r \in DOMAIN data.pattern |-> Row(r)])))
ShapelessSlots(data) ==
    IF data.ingredients = None THEN None
    ELSE [i \in DOMAIN data.ingredients |-> [slot |-> ToString(i), json |-> data.ingredients[i]]]
SingleSlots(data) == <<[slot |-> "1", json |-> data.ingredient]>>
SmithingTransformSlots(data) ==
    <<[slot |-> "0", json |-> data.template], [slot |-> "1", json |-> data.base], [slot |-> "2", json |-> data.addition]>>

(* The parsers by the type as it is written.                                 *)
Vanilla(name) == Location("minecraft", <<name>>)
Single == {Vanilla(n) : n \in {<<"smelting">>, <<"blasting">>, <<"campfire", "cooking">>, <<"smoking">>, <<"stonecutting">>}}
VanillaSlots(data) ==
    CASE data.bare -> None
      [] data.type = Vanilla(<<"crafting", "shaped">>) -> ShapedSlots(data)
      [] data.type = Vanilla(<<"crafting", "shapeless">>) -> ShapelessSlots(data)
      [] data.type \in Single -> SingleSlots(data)
      [] data.type = Vanilla(<<"smithing", "transform">>) -> SmithingTransformSlots(data)
      [] OTHER -> None
VanillaRecipe(data) == Assembled(VanillaSlots(data), data.result)

(* Recipes of other types: slots in their order with one identifier or more. *)
CustomRecipe(data) ==
    LET Slots(entries, input) ==
            FlattenSeq([i \in DOMAIN entries |->
                [j \in DOMAIN entries[i].ids |-> Ingredient(ParseChoice(entries[i].ids[j]), entries[i].slot, entries[i].count, input)]])
    IN  Slots(data.input, TRUE) \o Slots(data.output, FALSE)

(* parse_recipe.  bare: the type is written without its namespace.           *)
RecipeOf(id, type, ingredients) ==
    IF ingredients = None THEN None ELSE [id |-> id, type |-> type, ingredients |-> ingredients]
ParseRecipe(id, data) ==
    IF data = Malformed \/ data.type = None \/ data.type = Malformed THEN None
    ELSE RecipeOf(id, data.type, IF data.type.ns = "minecraft" THEN VanillaRecipe(data) ELSE CustomRecipe(data))
-----------------------------------------------------------------------------
(* get_builtin_recipe_type: the slots that a display of the game has.        *)
Nine == {ToString(i) : i \in 1 .. 9}
BuiltinRecipeTypes ==
    (Vanilla(<<"crafting", "shaped">>) :> Nine) @@ (Vanilla(<<"crafting", "shapeless">>) :> Nine)
    @@ [t \in Single |-> {"1"}] @@ (Vanilla(<<"smithing", "transform">>) :> {"1", "2", "3"})
BuiltinRecipeType(loc) ==
    IF loc \notin DOMAIN BuiltinRecipeTypes THEN None ELSE [inputs |-> BuiltinRecipeTypes[loc], outputs |-> {"1"}]
=============================================================================
