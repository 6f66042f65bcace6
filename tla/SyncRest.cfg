SPECIFICATION SyncSpec
CONSTANTS
    Items = {i1}
    Jobs = {1, 2, 3, 4, 5}
    Workers = {w1}
    Revisions = {r1, r2}
    Versions = {v1}
    MaxAttempts = 1
    NoIdentity = NoIdentity
    NoWorker = NoWorker
    Events = {e1, e2}
    Inputs = {r1, r2}
    NoEmail = NoEmail
    Unread = Unread
    PublicationAllowed = FALSE
    MaxIntakeAttempts = 2
    MaxFaults = 1
    MaxCommands = 1
CHECK_DEADLOCK FALSE
PROPERTIES
    ComesToRest
    CompletesWhatWasRead
