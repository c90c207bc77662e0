SPECIFICATION FairSpec
CONSTANTS
    FailureThreshold = 1
    WindowSeconds = 1
    HalfOpenAfter = 1
    N = 3
    FirstPicks = {1, 2}
    Retries = 1
    TimeoutSeconds = 0
    MonotonicWired = TRUE
    MaxClock = 2
    MaxJobs = 3
CHECK_DEADLOCK FALSE
INVARIANTS
    ChainFollowed
PROPERTIES
    JobsEnd
