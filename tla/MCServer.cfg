SPECIFICATION Spec
CONSTANTS
    Client = {c1, c2, c3}
    Hanging = {c3}
INVARIANTS
    ServerTypeOK
    DistinctIds
PROPERTIES
    Served
CHECK_DEADLOCK FALSE
