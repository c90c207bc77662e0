SPECIFICATION Spec
CONSTANTS
    Threads = {t1, t2}
    Events = {e1, e2, e3, c1}
    CompleteEvents = {e1, e2, e3}
    NoThread = NoThread
    NoEvent = NoEvent
    Cooldown = 2
    OtherCallers = {"manual"}
    MaxClock = 2
    MaxOtherRuns = 1
    MaxFaults = 1
SYMMETRY TriggerSymmetry
INVARIANTS
    TypeOK
    BatchFresh
    TriggeredNamesItsRun
    TriggeredSpaced
    BatchTakesAllBefore
    SequenceDense
    RunsPerEventBounded
    EventRunsSpaced
    LatestIsLastCommitted
PROPERTIES
    AnsweredIsDurable
    ImplementsContract
