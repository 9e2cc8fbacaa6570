CONSTANTS
    Connections = {c1, c2}
    CheckInterval = 1
    IdleTimeout = 2
    MaxReads = 2
    MaxSilence = 6
    DRAIN_SECONDS = 2
    MaxPending = 1
SPECIFICATION WorkerSpec
INVARIANTS
    ReapedInTime
    WorkerTypeOK
    NothingLeftBehind
    GraceGiven
PROPERTIES
    ReapedOnlyWhenSilent
    Terminates
CHECK_DEADLOCK FALSE
