SPECIFICATION Spec
CONSTANTS
    Says <- AuthSays
    MaxSent = 8
    MaxAhead = 0
INVARIANTS
    FrontendAnswers
    AuthenticatedFirst
CHECK_DEADLOCK FALSE
