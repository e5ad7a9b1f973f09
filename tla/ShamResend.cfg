CONSTANTS
    DataSize = 2
    WindowSize = 2
    MaxRetries = 1
    FileSize = 5
    SockBuf = 4
    Lossy = FALSE
    Duplicating = FALSE
    Reordering = FALSE
    Pace = "rtt"
    SimulatedLoss = TRUE
    ServerFaults = FALSE
SPECIFICATION Spec
CHECK_DEADLOCK FALSE
PROPERTIES ResendsUnacked
