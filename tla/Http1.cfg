SPECIFICATION FairSpec
CONSTANT MaxInterim = 3
CHECK_DEADLOCK FALSE
INVARIANTS
    SentExchangeEnds
    RecordedAsRelayed
PROPERTIES
    RelayEnds
