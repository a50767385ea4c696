SPECIFICATION Spec
CONSTANTS
    r1 = r1
    r2 = r2
    Requests <- MCRequests
    PoolSize = 1
INVARIANTS
    ConnectionAlwaysReturned
CHECK_DEADLOCK FALSE
