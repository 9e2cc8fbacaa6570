CONSTANTS
    QueueSlots = 3
    MaxEntries = 4
    ReadyMayFail = FALSE
SPECIFICATION Spec
INVARIANTS
    ProtocolHeldWhileBusy
CHECK_DEADLOCK FALSE
