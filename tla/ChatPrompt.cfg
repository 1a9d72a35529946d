SPECIFICATION Spec
CONSTANTS
    r1 = r1
    r2 = r2
    r3 = r3
    sA = sA
    sB = sB
    None = None
    Requests <- TwoRequests
    Sessions <- TwoSessions
    Routes <- MemoryOnly
    Leavers <- NoRequest
    Failing <- NoRequest
    IoThreads = 1
    Workers = 2
    MaxToolCalls = 1
    MaxCallsPerReply = 2
    MaxCrashes = 0
    TrimThreshold = 4
    MaxContext = 2
PROPERTY
    PromptOfOwnMessage
CHECK_DEADLOCK FALSE
