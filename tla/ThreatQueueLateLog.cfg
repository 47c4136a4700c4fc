SPECIFICATION Spec
CONSTANTS
    IPs = {a}
    MaxLogs = 1
    History = 0
    QueueBatch = 1
    DbFaults = {}
    MaxEvents = 1
CHECK_DEADLOCK FALSE
INVARIANTS UnscoredIsQueued
