SPECIFICATION Spec
CONSTANTS
    worker_num = 2
    MaxGenerations = 2
    MaxRequests = 2
INVARIANTS TypeOK NoWorkerLeft OnceIsGraceful
PROPERTIES TerminationHeeded 
\* The application ends.
CHECK_DEADLOCK FALSE
