SPECIFICATION Spec
CONSTANTS
    Apps = {root, sub, sub2}
    Root = root
    MountPoints <- EveryPrefix
    HandlerPaths <- MixedPaths
    RequestPaths <- AskedPaths
    Listeners = {"listen", "listen_usockets"}
    Nested = FALSE
    MaxMws = 2
    MaxHandlers = 2
    MaxMounts = 2
SYMMETRY Symmetry
INVARIANTS GuardsRun OuterFirst
