CONSTANTS
    DataSize = 2
    WindowSize = 2
    MaxRetries = 1
    FileSize = 5
    SockBuf = 3
    Lossy = TRUE
    Duplicating = TRUE
    Reordering = TRUE
    Pace = "any"
    SimulatedLoss = TRUE
    ServerFaults = TRUE
SPECIFICATION FairSpec
CHECK_DEADLOCK FALSE
INVARIANTS Integrity AckSound Coherent
PROPERTIES NeverTakenBack Implements ClientTerminates
