SPECIFICATION Spec
CONSTANTS
    Bytes = 3
    Sizes = {1, 2}
    NoFile = NoFile
    NoStatus = NoStatus
    MaxRequests = 4
    MaxFaults = 1
CHECK_DEADLOCK FALSE
INVARIANTS FinalIsPrefix AnnouncedIsWhole MergedWhenAllThere
PROPERTY FinalIsKept
