\* Two requests of every kind, two ids, two sources; bob is an admin.
CONSTANTS
    Users = {ann, bob}
    Admins = {bob}
    Ids = {proj1, proj2}
    Repos = {repo1, repo2}
    Branches = {main}
    Platforms = {mod1}
    Requests = {req1, req2}
    Kinds = {"create", "update", "remove", "add", "leave"}
    MaxRows = 2
    OneRemovalAtATime = TRUE
    MayFail = TRUE
    MayCrash = TRUE
SPECIFICATION Spec
SYMMETRY RegistrationSymmetry
INVARIANTS
    TypeOK
    
PROPERTIES
    
    RoleIsKept
CHECK_DEADLOCK FALSE
