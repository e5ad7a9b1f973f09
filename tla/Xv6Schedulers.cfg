CONSTANTS
    Policies = {"RR", "FCFS", "CFS", "MLFQ"}
    NProc = 3
    Cpus = {1, 2}
    QueueSlices <- MCQueueSlices
    BoostInterval = 2
    MaxTime = 1
    MaxProcs <- MCMaxProcs
    ShortLoop = FALSE
SPECIFICATION FairSpec
CHECK_DEADLOCK FALSE
INVARIANTS SwitchSound BestFirst
PROPERTIES ScanEnds RoundRobinRunsAll
