SPECIFICATION EdgesSpec
CONSTANTS
    a1 = a1
    q1 = q1
    q2 = q2
    q3 = q3
    q4 = q4
    NoReq = NoReq
    Addresses <- OneAddress
    Requests <- AllRequests
    BodyLength <- Lengths
    Closers <- OneCloser
    Barred <- OneBarred
    Oversized <- OneOversized
    MaxAsked = 2
    c1 = c1
    c2 = c2
    m1 = m1
    m2 = m2
    m3 = m3
    k1 = k1
    k2 = k2
    None = None
    Callers <- TwoCallers
    Questions <- ThreeQuestions
    Keys <- TwoKeys
    CacheKey <- KeyOf
    MaxEntries = 1
    TTL = 2
    Rate = 1
    Cost = 2
    Burst = 2
    MaxTime = 3
    t1 = t1
    t2 = t2
    t3 = t3
    p1 = p1
    p2 = p2
    p3 = p3
    NoProvider = NoProvider
    Threads <- ThreeThreads
    Providers <- TwoProviders
    Enabled <- AllButOne
    Weight <- Preference
    FailureThreshold = 2
    RecoveryTimeout = 1
    HalfOpenMax = 1
INVARIANTS
    TypeOK
    AnsweredInOrder
    HandledWhole
    GatewayOK
    CacheBounded
    OwnAnswer
    RateKept
    RouterOK
    ClosedMeansHealthy
    HalfOpenHasProbe
PROPERTIES
    EachAnswered
    IsTokenBucket
    EachEnds
    Recovers
CHECK_DEADLOCK FALSE
