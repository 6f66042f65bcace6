SPECIFICATION Spec
CONSTANTS
    d1 = d1
    d2 = d2
    i1 = i1
    i2 = i2
    Events = {1, 2, 3}
    ItemOf <- ThreeEvents
    Stored = {1, 3}
    Tried <- TriedOnce
    Requests = {d1, d2}
    EventOf <- SameEvent
    Workers = {w1, w2}
    MaxAttempts = 2
    Nobody = Nobody
INVARIANTS
    TypeOK
    AnswersAreTrue
    DeadlocksAreMixed
PROPERTIES
    EventsOnlyMoveForward
    EveryEventIsTakenIn
