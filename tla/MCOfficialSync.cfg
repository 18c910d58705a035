SPECIFICATION Spec
CONSTANTS
    MaxChatter = 0
    Ways = {"Sync"}
INVARIANTS
    Understood
