SPECIFICATION Spec
CONSTANTS
    MaxChatter = 1
    Ways = {"Parameters"}
INVARIANTS
    Understood
