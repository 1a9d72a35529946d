SPECIFICATION Spec
CONSTANTS
    r1 = r1
    r2 = r2
    r3 = r3
    sA = sA
    sB = sB
    None = None
    Requests <- ThreeRequests
    Sessions <- TwoSessions
    Routes <- MemoryOnly
    Leavers <- NoRequest
    Failing <- ThreeRequests
    IoThreads = 1
    Workers = 2
    MaxToolCalls = 1
    MaxCallsPerReply = 2
    MaxCrashes = 1
    TrimThreshold = 4
    MaxContext = 2
INVARIANTS
    TypeOK
    OneTaskAtATime
    ToolGroupsWhole
    OwnKeyUsed
PROPERTIES
    SavesContinue
SYMMETRY Interchangeable
CHECK_DEADLOCK FALSE
