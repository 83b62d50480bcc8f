SPECIFICATION StreamSpec
CONSTANT Messages = 2
CHECK_DEADLOCK FALSE
PROPERTIES
    FinishedStays
