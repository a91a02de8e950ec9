SPECIFICATION Spec
CONSTANTS
    MaxIds = 2
    Options = {latest, old}
    Keys = {tree}
    Lenient = {tree}
    Readers = {h1, h2}
    MaxSuppliers = 1
    MayFail = TRUE
    latest = latest
    old = old
    tree = tree
    info = info
    h1 = h1
    h2 = h2
SYMMETRY ReaderSymmetry
INVARIANTS TypeOK CachesAreFresh
CHECK_DEADLOCK FALSE
