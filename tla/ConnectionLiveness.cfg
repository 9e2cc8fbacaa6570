CONSTANTS
    QueueSlots = 2
    MaxEntries = 3
    ReadyMayFail = FALSE
    MaxRequests = 3
    MaxFailures = 1
    GATHER_MAX_RESP = 2
    GATHER_MAX_LEN = 2
    Sizes = {1}
    Heads <- KeepAliveOnly
    Malformed = FALSE
    CoroCallMayRaise = FALSE
SPECIFICATION Spec
PROPERTIES
    UsesPipeline
    EventuallyAnswered
    EventuallyReleased
CHECK_DEADLOCK FALSE
