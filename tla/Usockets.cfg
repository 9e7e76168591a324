SPECIFICATION MCSpec
CONSTANTS
    Threads = {t1, t2}
    Fds = {f1, f2}
    Ports = {p1}
    Paths = {q1}
    Lists <- MCLists
    None = None
    LIBUS_UDP_MAX_NUM = 2
    LIBUS_UDP_MAX_SIZE = 2
    Payloads <- MCPayloads
    Hosts = {h1, h2}
    Tails = {e1}
    Tos = {5}
    Room = 3
    Headers <- MCHeaders
    Bodies <- MCBodies
    MaxBytes = 6
    Sockets = {s1, s2}
    PortNumbers = {80, 443}
    Kinds = {"plain", "stream", "upgrade"}
    OutRoom = 2
    MaxRequests = 2
    MaxPieces = 4
SYMMETRY Symmetry
CHECK_DEADLOCK FALSE
INVARIANTS NothingLeaks PortExclusive DatagramsWhole StreamWhole AddressIsOwn ResponsesInOrder StreamFramed
PROPERTY HeldSurvives
