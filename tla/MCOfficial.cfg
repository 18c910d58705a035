SPECIFICATION Spec
CONSTANTS
    MaxChatter = 1
    Ways = {"Sync", "Pipelining", "Parameters", "LateError"}
INVARIANTS
    RefusedForThat
    Fitting
    Agreement
PROPERTIES
    Answered
