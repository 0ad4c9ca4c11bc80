SPECIFICATION FairSpec
CONSTANTS
    c1 = c1
    c2 = c2
    None = None
    Check = {c1, c2}
    StorageFails = TRUE
    MaxChanges = 3
    MaxCrashes = 1
INVARIANTS
    TypeOK
PROPERTIES
    ConnectedIsHonest
    DegradedIsHonest
    CheckEnds
    GatewayComesBack
CHECK_DEADLOCK FALSE
