SPECIFICATION Spec
CONSTANTS
    t1 = t1
    t2 = t2
    p1 = p1
    p2 = p2
    f1 = f1
    f2 = f2
    w1 = w1
    w2 = w2
    c1 = c1
    c2 = c2
    k1 = k1
    k2 = k2
    v1 = v1
    v2 = v2
    None = None
    Threads <- TwoThreads
    Phones <- TwoPhones
    Paths <- OnePath
    PathOf <- SameFile
    Passwords <- TwoPasswords
    Codes <- TwoCodes
    Tokens <- OneToken
    Fields <- OneField
    Values <- TwoValues
    Default = v1
    CodeLife = 0
    MaxCodes = 1
    MaxTime = 1
    MaxCrashes = 1
INVARIANTS
    TypeOK
    CodesSpentOnce
    AccountsEarned
    TornHasWriter
SYMMETRY Interchangeable
CHECK_DEADLOCK FALSE
