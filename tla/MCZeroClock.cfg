SPECIFICATION Spec
CONSTANTS
    FailureThreshold = 1
    WindowSeconds = 1
    HalfOpenAfter = 1
    N = 1
    FirstPicks = {1}
    Retries = 1
    TimeoutSeconds = 0
    MonotonicWired = FALSE
    MaxClock = 2
    MaxJobs = 2
CHECK_DEADLOCK FALSE
INVARIANTS
    SkippedOnlyWhileCooling
