SPECIFICATION FairSpec
CONSTANTS
    t1 = t1
    t2 = t2
    t3 = t3
    u1 = u1
    u2 = u2
    a1 = a1
    a2 = a2
    l1 = l1
    Token = {t1, t2, t3}
    User = {u1, u2}
    Owner <- MCOwner
    Attempt = {a1, a2}
    Tap = {l1}
    Patient = FALSE
    StorageFails = FALSE
    MaxAsked = 1
    MaxRestarts = 1
    None = None
PROPERTIES
    GoodTokenIsKept
