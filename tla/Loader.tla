------------------------------- MODULE Loader -------------------------------
(* The choice of a mod loader and of its release for a version of the game:  *)
(* wiki-system/src/loader.rs.  A version is the sequence of its numbers.     *)
EXTENDS Naturals, Sequences, SequencesExt

(* The order of slices: by the first number that differs, a prefix first.    *)
Less(a, b) == \/ IsStrictPrefix(a, b)
              \/ \E n \in 1 .. Len(a) : /\ n <= Len(b) /\ a[n] < b[n]
                                        /\ \A m \in 1 .. n - 1 : a[m] = b[m]

(* GameVersion.  A snapshot such as 24w14a has a single number.              *)
AtLeast(game, other) == ~Less(game, other)
IsNumbered(game) == Len(game) >= 2

(* loader_for, and what each ModLoader supports.                             *)
NeoForgeMin == <<1, 20, 2>>
LoaderFor(game) == IF AtLeast(game, NeoForgeMin) THEN "neoforge" ELSE "forge"

(* get_version_prefixes: what the numbers of a NeoForge release start with.  *)
Padded(numbers, n) == IF Len(numbers) = n THEN numbers \o <<0>> ELSE numbers
VersionPrefixes(game) == {Padded(game, 2)}
                  \cup IF game[1] = 1 THEN {Padded(Tail(game), 1)} ELSE {}

(* The releases of maven-metadata.xml.  game is what a Forge release names   *)
(* before the dash, <<>> for NeoForge; plain says that there is no suffix.   *)
Matches(release, game) ==
    /\ release.loader = LoaderFor(game)
    /\ IF release.loader = "forge" THEN release.game = game
       ELSE Front(release.number) \in VersionPrefixes(game)

(* A mutated form: the newest build, a beta or not.                          *)
BetterBuild(q, r) == Less(r.number, q.number)

(* The orders of select_version and select_neoforge_version: a NeoForge      *)
(* release without a suffix beats every beta, a Forge release on a branch    *)
(* only loses to the same build without one.                                 *)
Better(q, r) ==
    IF q.loader = "forge"
    THEN Less(r.number, q.number) \/ (q.number = r.number /\ q.plain /\ ~r.plain)
    ELSE \/ q.plain /\ ~r.plain
         \/ q.plain = r.plain /\ Last(q.number) > Last(r.number)

(* The releases that may be selected; several only if they compare equal.    *)
Selected(releases, game) ==
    LET candidates == {r \in releases : Matches(r, game)} IN
    {r \in candidates : \A q \in candidates : ~Better(q, r)}
=============================================================================
