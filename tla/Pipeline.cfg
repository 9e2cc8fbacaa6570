CONSTANTS
    QueueSlots = 3
    MaxEntries = 5
    ReadyMayFail = TRUE
SPECIFICATION Spec
INVARIANTS
    TypeOK
    WrittenInOrder
    NoLostWakeup
    NeverDropped
PROPERTIES
    WaitingNeverOverwritten
    ImplementsFifo
\* assert() may stop the process
CHECK_DEADLOCK FALSE
