SPECIFICATION FairSpec
CONSTANTS
    r1 = r1
    r2 = r2
    r3 = r3
    sA = sA
    sB = sB
    None = None
    Requests <- TwoRequests
    Sessions <- TwoSessions
    Routes <- AllRoutes
    Leavers <- OneRequest
    Failing <- OneRequest
    IoThreads = 2
    Workers = 2
    MaxToolCalls = 1
    MaxCallsPerReply = 1
    MaxCrashes = 1
    TrimThreshold = 4
    MaxContext = 2
INVARIANTS
    OneResponse
    SessionIsolation
PROPERTIES
    AcceptedIsAnswered
CHECK_DEADLOCK FALSE
