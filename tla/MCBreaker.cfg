SPECIFICATION Spec
CONSTANTS
    FailureThreshold = 2
    WindowSeconds = 1
    HalfOpenAfter = 2
    N = 1
    FirstPicks = {1}
    Retries = 1
    TimeoutSeconds = 0
    MonotonicWired = TRUE
    MaxClock = 5
    MaxJobs = 5
CHECK_DEADLOCK FALSE
INVARIANTS
    TypeOK
    BreakerMatchesRecords
    SkipsFollowHistory
