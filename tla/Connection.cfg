CONSTANTS
    QueueSlots = 2
    MaxEntries = 3
    ReadyMayFail = TRUE
    MaxRequests = 3
    MaxFailures = 1
    GATHER_MAX_RESP = 2
    GATHER_MAX_LEN = 3
    Sizes = {1, 2}
    Heads <- MCHeads
    Malformed = TRUE
    CoroCallMayRaise = TRUE
SPECIFICATION Spec
INVARIANTS
    TypeOK
    AnsweredOnceInOrder
    GatherConsistent
    CancelledWhenLost
CHECK_DEADLOCK FALSE
