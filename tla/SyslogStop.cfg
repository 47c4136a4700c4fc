SPECIFICATION Spec
CONSTANTS
    MaxMsgs = 2
    BatchSize = 2
    MaxReloads = 1
    MaxOutages = 1
CHECK_DEADLOCK FALSE
INVARIANTS StopFlushes
