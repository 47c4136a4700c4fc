SPECIFICATION FairSpec
CONSTANTS
    Receiver = {udp, worker}
    Api = {manual}
    Limit = 1
    Window = 2
    Pauses = {1}
    ResetHeader = TRUE
    MaxFaults = 1
INVARIANTS TypeOK RejectionsBounded 
PROPERTIES RenewalComes
