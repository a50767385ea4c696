SPECIFICATION TurnSpec
CONSTANTS
    Fragment <- MCFragment
    JsonObjects <- MCJsonObjects
    NoName = NoName
    Null = Null
    n1 = n1
    n2 = n2
    Name = {n1, n2}
    Slot = {0, 1, 2}
    Part = {0, 1}
    Deltas = {}
    Bodies = {}
    Items = {}
    Terminals = {}
    Alphabet <- MCEvents
    MaxEvents = 30
    LateArguments = TRUE
    Gateways <- ConformingGateways
INVARIANTS
    ConformingNeverFails
    BufferedAgrees
    OneBlockOpen
    ReplayAccepted
    StopReasonHonest
PROPERTIES
    AnswerEventuallyDelivered
CHECK_DEADLOCK FALSE
