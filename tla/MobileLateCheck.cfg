SPECIFICATION Spec
CONSTANTS
    t1 = t1
    t2 = t2
    t3 = t3
    u1 = u1
    u2 = u2
    a1 = a1
    l1 = l1
    Token = {t1, t2, t3}
    User = {u1, u2}
    Owner <- MCOwner
    Attempt = {a1}
    Tap = {l1}
    Patient = FALSE
    StorageFails = FALSE
    MaxAsked = 1
    MaxRestarts = 1
    None = None
INVARIANTS
    AuthMatchesStorage
