SPECIFICATION Spec
CONSTANTS
    Base = 4
    U16 = 1
    U32 = 2
    MagicMajor = 3
    CancelMinor = 1
    TlsMinor = 2
    StatusByte = {1, 3}
    FieldByte = {1, 2}
    Tried = {"Authentication", "BackendKeyData", "BindComplete", "CommandComplete", "DataRow",
             "EmptyQueryResponse", "ErrorResponse", "Execute", "GssResponse", "Initial",
             "NegotiateProtocolVersion", "NoticeResponse", "ParameterStatus", "Parse",
             "ParseComplete", "Password", "PortalSuspended", "Query", "ReadyForQuery",
             "SaslInitialResponse", "SaslResponse", "Sync", "Terminate"}
    Alphabet = {0, 1, 2, 3}
    MaxBytes = 6
INVARIANTS
    BodiesTypeOK
    Exact
    Diagnosis
CHECK_DEADLOCK FALSE
