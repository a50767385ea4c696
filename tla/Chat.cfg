SPECIFICATION FairSpec
CONSTANTS
    Fragment <- MCFragment
    JsonObjects <- MCJsonObjects
    NoId = NoId
    Null = Null
    i1 = i1
    i2 = i2
    Id = {i1, i2}
    Index = {0, 1}
    Chunks <- MCChunks
    MaxChunks = 4
INVARIANTS
    TypeOK
    Bookkeeping
    TextDelivered
    CallsDelivered
    IdentitiesDelivered
    OneBlockOpen
    StoppedToolsAreObjects
    ArgumentsStreamLive
    EndingHonest
PROPERTIES
    ClientContract
    UpstreamGetsClosed
CHECK_DEADLOCK FALSE
