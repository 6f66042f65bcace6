SPECIFICATION Spec
CONSTANTS
    Items = {i1}
    Jobs = {1, 2, 3}
    Workers = {w1, w2}
    Revisions = {r1, r2}
    Versions = {v1}
    MaxAttempts = 2
    NoIdentity = NoIdentity
    NoWorker = NoWorker
SYMMETRY Symmetry
INVARIANTS
    TypeOK
    OneActiveJobPerItem
    LeaseOnlyWhileRunning
    AttemptBudget
    ResumableCheckpoint
    ItemStateIsTruthful
    SupersessionIsRecorded
PROPERTIES
    JobsOnlyMoveForward
    OnlyCurrentInputCompletes
    RefinesItemWork
