SPECIFICATION GatewaySpec
CONSTANTS
    c1 = c1
    c2 = c2
    m1 = m1
    m2 = m2
    m3 = m3
    k1 = k1
    k2 = k2
    None = None
    Callers <- OneCaller
    Questions <- ThreeQuestions
    Keys <- TwoKeys
    CacheKey <- KeyOf
    MaxEntries = 1
    TTL = 2
    Rate = 1
    Cost = 2
    Burst = 2
    MaxTime = 3
INVARIANT
    FinalAnswer
