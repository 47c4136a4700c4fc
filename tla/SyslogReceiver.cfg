SPECIFICATION FairSpec
CONSTANTS
    MaxMsgs = 3
    BatchSize = 2
    MaxReloads = 2
    MaxOutages = 1
CHECK_DEADLOCK FALSE
INVARIANTS Accounted StoredOncePerReload BadDataIsolated
PROPERTIES BatchDrains
