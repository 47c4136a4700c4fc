SPECIFICATION Spec
CONSTANTS
    Hosts = {h1}
    MaxId = 1
    FetchLimit = 1
    MaxThreads = 2
    MaxFrames = 1
    MaxPuts = 0
    MaxSaves = 1
    MaxCrashes = 0
CHECK_DEADLOCK FALSE
INVARIANTS AtMostOnce
