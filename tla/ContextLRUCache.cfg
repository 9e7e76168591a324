SPECIFICATION Spec
CONSTANTS
    Keys = {k1, k2, k3, k4}
    Values = {v1, v2}
    Nodes = {n1, n2, n3}
    Nil = Nil
    None = None
    EmptyKey = EmptyKey
    Capacity = 3
    TTLs = {0, 1}
    Intervals = {1}
    MaxAge = 2
SYMMETRY Symmetry
INVARIANTS TypeOK ListWellFormed SizeBounded
PROPERTY ImplementsLRU
