\* Two deployments whose reindex jobs overlap.
CONSTANTS
    MaxIds = 2
    Jobs = {j1, j2}
    Pages = {home}
    Home = home
    MayDelete = FALSE
    MaxFaults = 0
CHECK_DEADLOCK FALSE
SPECIFICATION Spec
INVARIANTS
    ActiveStaysIndexed
