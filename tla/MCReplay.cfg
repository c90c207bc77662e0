SPECIFICATION ReplaySpec
CONSTANTS
    FailureThreshold = 2
    WindowSeconds = 1
    HalfOpenAfter = 1
    N = 2
    FirstPicks = {1, 2}
    Retries = 1
    TimeoutSeconds = 0
    MonotonicWired = TRUE
    MaxClock = 2
    MaxJobs = 4
CHECK_DEADLOCK FALSE
INVARIANTS
    ReplayAnswersAlike
    VerifiedExactly
