SPECIFICATION Spec
CONSTANTS
    p1 = p1
    c1 = c1
    r1 = r1
    v1 = v1
    v2 = v2
    None = None
    PoolSize = 2
    Phone = {p1}
    Code = {c1}
    OtpReq = {r1}
    VerifyReq = {v1, v2}
SYMMETRY Symmetry
INVARIANTS
    OtpSingleUse
