CONSTANTS
    Policies = {"MLFQ"}
    NProc = 3
    Cpus = {1}
    QueueSlices <- MCQueueSlices
    BoostInterval = 2
    MaxTime = 0
    MaxProcs <- MCFullTable
    ShortLoop = TRUE
SPECIFICATION ClockSpec
CHECK_DEADLOCK FALSE
PROPERTY BoostPreventsStarvation
