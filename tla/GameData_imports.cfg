\* Two imports one after the other, a reader, and two failures or crashes.
CONSTANTS
    stone = stone
    copper = copper
    barrier = barrier
    Items = {stone, copper, barrier}
    Games <- MCGames
    ItemsOf <- MCItemsOf
    Named = {stone, copper}
    Tagged = {barrier}
    Releases <- MCReleases
    FirstReleases <- MCFirstReleases
    Imports = {i1, i2}
    Readers = {h1}
    None = None
    OneImportAtATime = TRUE
    MaxFaults = 2
SPECIFICATION Spec
SYMMETRY ImportSymmetry
INVARIANTS
    TypeOK
    SentinelIsTrue
    NamesSurvive
PROPERTIES
    CommitsItsItems
    LoaderNeverGoesBack
CHECK_DEADLOCK FALSE
