\* Four calls for two ids; two of them come from handlers that may be dropped.
CONSTANTS
    Callers = {c1, c2, c3, c4}
    Keys = {k1, k2}
    Droppable = {c1, c2}
    None = None
SPECIFICATION FairSpec
INVARIANTS
    TypeOK
    SingleFlight
    ReturnedIsForgotten
PROPERTIES
    EveryCallAnswered
    ImplementsSharedRuns
