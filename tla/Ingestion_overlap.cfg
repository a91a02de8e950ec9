\* Two deployments of each of two projects, one failure.
CONSTANTS
    a = a
    b = b
    Projects = {a, b}
    Locs = {"ax", "amix", "at", "bt", "bu", "bx", "ra", "rb", "m", "n", "o", "?"}
    Valid = {"ax", "amix", "at", "bt", "bu", "bx", "ra", "rb", "m", "n", "o"}
    Storable = {"ax", "amix", "at", "bt", "bu", "bx", "ra", "rb", "m", "n", "o"}
    Namespace <- MCNamespace
    BuiltinNamespaces = {"minecraft"}
    Rank <- MCRank
    Modid <- MCModid
    Files <- MCFiles
    Jobs <- MCJobs
    NoVersion = "none"
    BuiltinTypes = {}
    MaxDeploys = 2
    MaxFaults = 1
SPECIFICATION Spec
INVARIANTS
    TypeOK
    
    
    
