SPECIFICATION LiveSpec
CONSTANTS
    Sizes = {1, 3, 9}
    MaxSize = 2
    IntRange = 8
    Codes = {1000, 1005}
    MaxFrames = 2
    MaxCalls = 2
CHECK_DEADLOCK FALSE
INVARIANTS CloseHandshake HistoryConsistent MessagesBounded
PROPERTIES ClosingEnds
