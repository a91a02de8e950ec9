\* Two requests, every kind of fault, deletion of deployments, one crash.
CONSTANTS
    Requests = {r1, r2}
    Versions = {v1}
    Default = default
    Project = p
    None = None
    Faults = {"read", "insert", "dirs", "status", "clone", "revision", "copy", "commit", "platforms", "activate", "prune", "cleanup"}
    HasModid = TRUE
    MayDelete = TRUE
    MayRemove = FALSE
    MayRecreate = FALSE
    MaxCrashes = 1
SPECIFICATION Spec
INVARIANTS
    TypeOK
    OneAtATime
    ServedIsComplete
    OneGeneration
PROPERTIES
    ImplementsPublication
