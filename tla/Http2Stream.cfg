SPECIFICATION FairStreamSpec
CONSTANT Messages = 3
CHECK_DEADLOCK FALSE
INVARIANTS
    StreamIsRecorded
PROPERTIES
    ConversationEnds
