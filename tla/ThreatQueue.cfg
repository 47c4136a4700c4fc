SPECIFICATION FairSpec
CONSTANTS
    IPs = {a, b}
    MaxLogs = 2
    History = 1
    QueueBatch = 2
    DbFaults = {"read", "upsert", "backdate", "enqueue", "patch", "detail", "delete", "fail"}
    MaxEvents = 2
CHECK_DEADLOCK FALSE
INVARIANTS ThreatsBackEverything
PROPERTIES KnowledgeKept BackoffKept QueuedLogsGetScored
