SPECIFICATION SessionSpec
CONSTANTS
    m1 = m1
    m2 = m2
    m3 = m3
    a1 = a1
    a2 = a2
    p1 = p1
    p2 = p2
    p3 = p3
    t0 = t0
    t1 = t1
    t2 = t2
    Model = {m1, m2, m3}
    Alias = {a1, a2, p1, p2, p3}
    AutomaticAlias <- MCAutomaticAlias
    Null = Null
    NoId = NoId
    FallbackId <- MCFallbackId
    MaxBreakpoints = 2
    Catalogs <- MCCatalogs
    Limits = {1, 2}
    MaxRebuilds = 2
    Deployments <- MCDeployments
    Favourites = {a1, p2, m1}
    Clients <- MCClients
    Outputs <- MCOutputs
    MaxMessages = 5
INVARIANTS
    NoModelSkipped
    RoutedAsListed
    UpstreamSeesConversation
    RejectionsHaveCauses
    ResultsReachTheirCalls
    StateBoundToModel
CHECK_DEADLOCK FALSE
