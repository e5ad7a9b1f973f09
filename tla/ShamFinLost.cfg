CONSTANTS
    DataSize = 2
    WindowSize = 2
    MaxRetries = 1
    FileSize = 3
    SockBuf = 2
    Lossy = TRUE
    Duplicating = FALSE
    Reordering = FALSE
    Pace = "any"
    SimulatedLoss = FALSE
    ServerFaults = FALSE
SPECIFICATION FairSpec
CHECK_DEADLOCK FALSE
PROPERTIES ReportedIsWritten
