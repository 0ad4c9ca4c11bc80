SPECIFICATION FairSpec
CONSTANTS
    q1 = q1
    q2 = q2
    Plus = Plus
    Mark = Mark
    Arabic = Arabic
    Surrogate = Surrogate
    None = None
    NoNumber = NoNumber
    Length = 2
    Foreign <- MCForeign
    Request <- MCRequest
    Body <- MCBody
    Unencodable <- MCUnencodable
    PoolSize = 1
    MaxFaults = 2
CHECK_DEADLOCK FALSE
INVARIANTS
    TypeOK
    AnswerEndsTransaction
    ConnectionsComeBack
    FailureNamesCause
    KeysAreCanonical
    EveryStartIsAccountedFor
PROPERTIES
    EveryRequestIsAnswered
