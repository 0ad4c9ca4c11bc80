SPECIFICATION FairSpec
CONSTANTS
    p1 = p1
    c1 = c1
    r1 = r1
    v1 = v1
    v2 = v2
    v3 = v3
    None = None
    PoolSize = 2
    Phone = {p1}
    Code = {c1}
    OtpReq = {r1}
    VerifyReq = {v1, v2, v3}
INVARIANTS
    NoCircularWait
PROPERTIES
    EveryCallEnds
