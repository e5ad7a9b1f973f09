CONSTANTS
    Pids = {1, 2}
    MaxJobs = 1
    MaxJobId = 1
    Pipelines = TRUE
    ForkMayFail = FALSE
    Outside = FALSE
SPECIFICATION FairSpec
CHECK_DEADLOCK FALSE
PROPERTY PipelineReturnsPrompt
