SPECIFICATION QuietFairSpec
CONSTANTS
    Hosts = {h1}
    MaxId = 4
    FetchLimit = 2
    MaxThreads = 1
    MaxFrames = 1
    MaxPuts = 0
    MaxSaves = 0
    MaxCrashes = 2
CHECK_DEADLOCK FALSE
INVARIANTS AtMostOnce
PROPERTIES IngestSpec LaterQueriesReached
