SPECIFICATION LiveSpec
CONSTANTS
    UploadIds = {u1}
    Data = {d1, d2}
    MaxParts = 2
    None = None
    Torn = Torn
    Cloud = TRUE
    Workers = {w1}
    RetryCount = 1
    Faults = {"provider", "source"}
    MaxFaults = 2
CHECK_DEADLOCK FALSE
PROPERTY UploadEnds
