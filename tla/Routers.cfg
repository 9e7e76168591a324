SPECIFICATION Spec
CONSTANTS
    Methods = {"GET", "POST"}
    Patterns <- ManyPatterns
    Paths <- ServedPaths
    FastModes = {TRUE, FALSE}
    Uncompilable <- Wild
    FastCapacity = 2
    LruCapacity = 2
    MaxRoutes = 2
    None = None
INVARIANTS CacheTransparent SimplestFirst MethodRespected
