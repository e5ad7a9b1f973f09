CONSTANTS
    Pids = {1, 2, 3}
    MaxJobs = 2
    MaxJobId = 2
    Pipelines = TRUE
    ForkMayFail = TRUE
    Outside = TRUE
    Procs = {1, 2}
    Blocks = {1, 2, 3}
    Values = {0, 1}
    NoBuf = 9
    InitialDisk <- ZeroDisk
    MaxOpBlocks = 1
    LogBlocks = 2
    DataSize = 2
    WindowSize = 3
    MaxRetries = 1
    FileSize = 13
    SockBuf = 5
    Lossy = FALSE
    Duplicating = FALSE
    Reordering = FALSE
    Pace = "transfer"
    SimulatedLoss = FALSE
    ServerFaults = FALSE
SPECIFICATION WaitingSpec
CHECK_DEADLOCK FALSE
INVARIANTS JobTableSound WrongIsPending ForegroundIsWaited LogAdmits
PROPERTIES StopReturnsPrompt Transactional SleepersWake FileArrives
