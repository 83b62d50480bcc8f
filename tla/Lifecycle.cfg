SPECIFICATION FairSpec
CONSTANT MaxRuns = 3
CHECK_DEADLOCK FALSE
INVARIANTS
    RunsEndClean
    TargetIsCaptured
PROPERTIES
    SignalEnds
