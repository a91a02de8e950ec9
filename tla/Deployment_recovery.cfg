\* One deployment, one crash.
CONSTANTS
    Requests = {r1}
    Versions = {}
    Default = default
    Project = p
    None = None
    Faults = {}
    HasModid = TRUE
    MayDelete = FALSE
    MayRemove = FALSE
    MayRecreate = FALSE
    MaxCrashes = 1
SPECIFICATION Spec
INVARIANTS
    ActiveSurvivesRecovery
