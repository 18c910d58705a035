SPECIFICATION Spec
CONSTANTS
    Says <- StartSays
    MaxSent = 5
    MaxAhead = 1
INVARIANTS
    AnyTypeOK
    Conserved
    LoggedIsCarried
    TlsAsAgreed
    NeverDisrupted
    ResultTells
PROPERTIES
    IsPipe
CHECK_DEADLOCK FALSE
