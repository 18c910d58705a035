SPECIFICATION Spec
CONSTANTS
    Client = {c1, c2}
    Hanging = {c2}
PROPERTIES
    SessionsEndByThemselves
CHECK_DEADLOCK FALSE
