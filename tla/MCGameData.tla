----------------------------- MODULE MCGameData -----------------------------
(* Two versions of the game, before and after NeoForge, and their loaders.   *)
EXTENDS GameData, TLC

CONSTANTS stone, copper, barrier

MCGames == {<<1, 20, 1>>, <<1, 21>>}
MCItemsOf == [g \in MCGames |-> IF g = <<1, 21>> THEN {stone, barrier} ELSE {copper}]

Forge47 == [loader |-> "forge", game |-> <<1, 20, 1>>, number |-> <<47, 2>>, plain |-> TRUE]
Neo1 == [loader |-> "neoforge", game |-> <<>>, number |-> <<21, 0, 1>>, plain |-> TRUE]
Neo2Beta == [loader |-> "neoforge", game |-> <<>>, number |-> <<21, 0, 2>>, plain |-> FALSE]
MCReleases == {Forge47, Neo1, Neo2Beta}
MCFirstReleases == {Forge47}
ImportSymmetry == Permutations(Imports)
=============================================================================
