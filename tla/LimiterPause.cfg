SPECIFICATION ActiveSpec
CONSTANTS
    Receiver = {udp}
    Api = {manual}
    Limit = 1
    Window = 2
    Pauses = {1, 2}
    ResetHeader = TRUE
    MaxFaults = 0
PROPERTIES PauseEnds
