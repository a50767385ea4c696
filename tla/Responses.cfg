SPECIFICATION MCSpec
CONSTANTS
    Fragment <- MCFragment
    JsonObjects <- MCJsonObjects
    NoName = NoName
    Null = Null
    n1 = n1
    n2 = n2
    Name = {n1, n2}
    Slot = {0, 1}
    Part = {0, 1}
    Deltas <- AllDeltas
    Bodies <- AllBodies
    Items <- AllItems
    Terminals <- AllTerminals
    Alphabet <- MCEvents
    MaxEvents = 4
    LateArguments = FALSE
INVARIANTS
    TypeOK
    Bookkeeping
    MessageStopSealsEveryBlock
    FinalTextDelivered
    FinalArgumentsDelivered
    CompletedShowsOutput
PROPERTIES
    ClientContract
    UpstreamGetsClosed
CHECK_DEADLOCK FALSE
