SPECIFICATION Spec
CONSTANTS
    a1 = a1
    q1 = q1
    q2 = q2
    q3 = q3
    q4 = q4
    NoReq = NoReq
    Addresses <- OneAddress
    Requests <- TwoRequests
    BodyLength <- Lengths
    Closers <- NoRequest
    Barred <- NoRequest
    Oversized <- NoRequest
    MaxAsked = 2
INVARIANT
    OwnBytesOnly
CHECK_DEADLOCK FALSE
