SPECIFICATION Spec
CONSTANTS
    Base = 4
    U16 = 1
    U32 = 1
    MagicMajor = 3
    CancelMinor = 1
    TlsMinor = 2
    StatusByte = {1, 3}
    FieldByte = {1, 2}
    Tried = {"Bind", "ErrorResponse", "Initial", "RowDescription"}
    Alphabet = {0, 1, 2, 3}
    MaxBytes = 8
INVARIANTS
    Exact
    Diagnosis
CHECK_DEADLOCK FALSE
