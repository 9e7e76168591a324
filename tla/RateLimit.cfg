SPECIFICATION Spec
CONSTANTS
    Workers = {w1, w2}
    Keys = {k1}
    Limits <- MCLimits
    Limit = 2
    Limiters = 1
    Window = 2
    MaxTime = 4
    MaxResets = 1
    MaxRequests = 6
    None = None
SYMMETRY Symmetry
INVARIANTS AdmittedBounded CountsDistinct
PROPERTY RejectedOnlyOverLimit
