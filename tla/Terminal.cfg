SPECIFICATION Spec
CONSTANTS
    ReplySlots = 1
    InCap = 1
    MaxChunks = 2
    MaxAsks = 2
    MaxInputs = 1
INVARIANTS
    NothingIsLost
PROPERTIES
    InterfaceGoesOn
    ClosingEnds
CHECK_DEADLOCK FALSE
