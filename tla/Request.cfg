CONSTANTS
    Objects = {1, 2}
    Static = 1
    InlineAt <- MCInlineAt
    HeapAt <- MCHeapAt
    ParserAt = 999
    REQUEST_INITIAL_BUFFER_LEN = 1024
    Heads <- MCHeads
    Matches <- MCMatches
    Bodies <- MCBodies
SPECIFICATION Spec
INVARIANTS
    TypeOK
    PointersFollow
    PartsFit
    DecodedOnce
    BlocksOwned
CHECK_DEADLOCK FALSE
