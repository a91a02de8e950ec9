\* Two deployments, three jobs that overlap at will, a failure or a crash.
CONSTANTS
    MaxIds = 2
    Jobs = {j1, j2, j3}
    Pages = {home, a}
    Home = home
    MayDelete = TRUE
    MaxFaults = 1
CHECK_DEADLOCK FALSE
SPECIFICATION FairSpec
INVARIANTS
    TypeOK
    

    
    
