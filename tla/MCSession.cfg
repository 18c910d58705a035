SPECIFICATION Spec
CONSTANTS
    MaxChatter = 1
    Ways = {}
INVARIANTS
    SessionTypeOK
    Understood
    Fitting
    Agreement
PROPERTIES
    Answered
    Ends
