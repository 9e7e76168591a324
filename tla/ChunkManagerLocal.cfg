SPECIFICATION Spec
CONSTANTS
    UploadIds = {u1}
    Data = {d1}
    MaxParts = 2
    None = None
    Torn = Torn
    Cloud = FALSE
    Workers = {w1, w2}
    RetryCount = 1
    Faults = {"provider", "torn", "source", "db", "crash"}
    MaxFaults = 3
SYMMETRY Symmetry
CHECK_DEADLOCK FALSE
INVARIANTS CompletedIsWhole
