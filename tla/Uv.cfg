SPECIFICATION MCSpec
CONSTANTS
    Nodes = {1, 2, 3, 4, 5, 6, 7, 8, 9, 10, 11}
    Key <- MCKey
    NULL = NULL
    Errnos = {0, 1, 64, 133}
    LoopNodes = {1, 2, 3, 4, 5, 6}
INVARIANTS SearchTree RedBlack ReadersAgree CodeIsUnique
PROPERTY ImplementsSet
