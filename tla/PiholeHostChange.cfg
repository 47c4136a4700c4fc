SPECIFICATION Spec
CONSTANTS
    Hosts = {h1,h2}
    MaxId = 1
    FetchLimit = 1
    MaxThreads = 2
    MaxFrames = 1
    MaxPuts = 1
    MaxSaves = 0
    MaxCrashes = 0
SYMMETRY HostSymmetry
CHECK_DEADLOCK FALSE
INVARIANTS CursorBelongsToHost
