SPECIFICATION FairJourney
CONSTANTS
    p1 = p1
    c1 = c1
    c2 = c2
    r1 = r1
    r2 = r2
    r3 = r3
    r4 = r4
    r5 = r5
    r6 = r6
    r7 = r7
    v1 = v1
    v2 = v2
    v3 = v3
    v4 = v4
    v5 = v5
    None = None
    Phone <- MCPhone
    Code <- MCCode
    OtpReq <- MCOtpReq
    VerifyReq <- MCVerifyReq
    PoolSize = 1
    MaxFaults = 2
CHECK_DEADLOCK FALSE
INVARIANTS
    JourneyTypeOK
    HomeIsOwnAccount
    RefusalIsExplained
PROPERTIES
    ImplementsPromise
    UserGetsIn
