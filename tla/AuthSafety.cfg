SPECIFICATION Spec
CONSTANTS
    p1 = p1
    p2 = p2
    c1 = c1
    c2 = c2
    r1 = r1
    r2 = r2
    v1 = v1
    v2 = v2
    None = None
    PoolSize = 2
    Phone = {p1, p2}
    Code = {c1, c2}
    OtpReq = {r1, r2}
    VerifyReq = {v1, v2}
SYMMETRY Symmetry
INVARIANTS
    TypeOK
    TokenNamesCommittedUser
    AccountHasProvenance
    ConsumedIsGone
    OneRegistrationAtATime
PROPERTIES
    NoReregistration
    ImplementsLedger
