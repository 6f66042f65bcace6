SPECIFICATION Spec
CONSTANTS
    Workers = {w1, w2}
    LeaseTimeout = 3
    HeartbeatInterval = 2
    NoWorker = NoWorker
PROPERTY
    OnlySilentLeasesAreRecovered
