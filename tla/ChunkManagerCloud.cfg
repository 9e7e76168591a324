SPECIFICATION Spec
CONSTANTS
    UploadIds = {u1}
    Data = {d1, d2}
    MaxParts = 2
    None = None
    Torn = Torn
    Cloud = TRUE
    Workers = {w1, w2}
    RetryCount = 1
    Faults = {"provider", "lost", "source", "db", "crash"}
    MaxFaults = 1
SYMMETRY Symmetry
CHECK_DEADLOCK FALSE
INVARIANTS TypeOK CompletedIsWhole OneCompletion ObjectOnlyRecorded
PROPERTY FinalObjectStable
