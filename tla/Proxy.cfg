SPECIFICATION Spec
CONSTANTS
    PeekSize = 2
    HelloLimit = 2
    Payload = 2
    ServerBytes = 2
    MaxBytes = 6
    EarlyData = FALSE
INVARIANTS
    TransferIsWhole
    DecryptedInScope
PROPERTIES
    OpenedIsForwarded
    ConnectionEnds
CHECK_DEADLOCK FALSE
