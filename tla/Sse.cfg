SPECIFICATION Spec
CONSTANTS
    d1 = d1
    d2 = d2
    Data <- MCData
    MaxLines = 4
INVARIANTS
    TypeOK
    EventsDelivered
    NoLineSkipped
PROPERTIES
    NothingLeftReading
    ClientNotLeftWaiting
CHECK_DEADLOCK FALSE
