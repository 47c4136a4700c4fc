SPECIFICATION FairSpec
CONSTANTS
    Hosts = {h1}
    MaxId = 1
    FetchLimit = 1
    MaxThreads = 2
    MaxFrames = 2
    MaxPuts = 1
    MaxSaves = 1
    MaxCrashes = 0
CHECK_DEADLOCK FALSE
INVARIANTS TypeOK CursorNamesStoredQuery
PROPERTIES ReloadStopsWhenOff
