SPECIFICATION Spec
CONSTANTS
    MaxU32 = 9
    MaxWire = 10
INVARIANTS
    FramingTypeOK
    Aligned
    CursorsInside
    Refused
    CutOnlyIfShort
PROPERTIES
    Returns
CHECK_DEADLOCK FALSE
