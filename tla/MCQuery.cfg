SPECIFICATION Spec
CONSTANTS
    Says <- QuerySays
    MaxSent = 11
    MaxAhead = 0
INVARIANTS
    LoggedIsCarried
    FrontendAnswers
CHECK_DEADLOCK FALSE
