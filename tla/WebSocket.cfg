SPECIFICATION FairSpec
CONSTANTS
    Sends <- MCSends
    MaxInject = 1
    Kinds = {"whole", "ping", "close"}
CHECK_DEADLOCK FALSE
INVARIANTS
    FramesWhole
    DeliveredInOrder
    ReturnsFinished
PROPERTIES
    SessionEnds
