SPECIFICATION Spec
CONSTANTS
    r1 = r1
    r2 = r2
    Requests <- MCRequests
    PoolSize = 1
INVARIANTS
    TypeOK
    ConnectionReturned
    SuccessBacked
PROPERTIES
    EveryRequestEnds
CHECK_DEADLOCK FALSE
