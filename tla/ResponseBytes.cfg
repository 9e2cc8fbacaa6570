CONSTANTS
    Connections = {c1, c2}
    Responses <- MCResponses
    CACHE_LEN = 1
    CACHE_CUTOFF = 3
    GATHER_MAX_RESP = 2
    GATHER_MAX_LEN = 3
    MaxResponses = 4
    Objects = {1, 2, 3, 4, 5, 6}
SYMMETRY Clients
SPECIFICATION Spec
INVARIANTS
    TypeOK
    CountsAreHolders
    
CHECK_DEADLOCK FALSE
