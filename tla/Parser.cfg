CONSTANTS
    PARSER_INITIAL_BUFFER_SIZE = 3
    MaxData = 60
    MaxLength = 3
    CallbackMayFail = TRUE
    Messages <- AllMessages
    MaxMessages = 2
SPECIFICATION Spec
INVARIANTS
    TypeOK
    WithinBuffer
    FramingExact
PROPERTIES
    CutReported
