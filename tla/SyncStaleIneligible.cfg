SPECIFICATION SyncSpec
CONSTANTS
    Items = {i1}
    Jobs = {1, 2, 3, 4}
    Workers = {w1, w2}
    Revisions = {r1, r2}
    Versions = {v1}
    MaxAttempts = 2
    NoIdentity = NoIdentity
    NoWorker = NoWorker
    Events = {e1, e2, e3}
    Inputs = {r1, r2, NoEmail}
    NoEmail = NoEmail
    Unread = Unread
    PublicationAllowed = TRUE
    MaxIntakeAttempts = 2
    MaxFaults = 0
    MaxCommands = 0
SYMMETRY SyncSymmetry
CHECK_DEADLOCK FALSE
INVARIANT InputNeverLost
