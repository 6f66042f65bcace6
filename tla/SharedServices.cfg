SPECIFICATION Spec
CONSTANTS
    Workers = {w1, w2}
    Pages = 2
    TTL = 2
    Delays = {1, 3}
    Nobody = Nobody
    MaxClears = 2
    MaxFaults = 2
INVARIANTS
    TypeOK
    ServedIsComplete
    ServedIsFresh
    ServedIsNotCleared
PROPERTIES
    RefreshIsShared
    DeadlineIsKept
    EveryLoadEnds
