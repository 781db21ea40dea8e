SPECIFICATION FairSpec
CONSTANTS
    Messages = {a, b}
    Nothing = Nothing
    MaxLen = 2
    MaxCalls = 2
PROPERTIES
    ImplementsWholeSync
    QueueMoves
CHECK_DEADLOCK FALSE
