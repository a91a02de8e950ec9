\* The faults after which a row is still brought to an end; the project is
\* deleted and registered again around its deployments; one crash.
CONSTANTS
    Requests = {r1, r2}
    Versions = {v1}
    Default = default
    Project = p
    None = None
    Faults = {"clone", "copy", "prune"}
    HasModid = TRUE
    MayDelete = FALSE
    MayRemove = TRUE
    MayRecreate = TRUE
    MaxCrashes = 1
SPECIFICATION FairSpec
INVARIANTS
    IndexNeverHit
PROPERTIES
    FailureKeepsPrevious
    EveryDeploymentEnds
