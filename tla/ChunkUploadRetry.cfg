SPECIFICATION Spec
CONSTANTS
    Bytes = 2
    Sizes = {1}
    NoFile = NoFile
    NoStatus = NoStatus
    MaxRequests = 3
    MaxFaults = 0
CHECK_DEADLOCK FALSE
INVARIANTS RetriedIsWhole
