SPECIFICATION FairSpec
CONSTANTS
    Threads = {t1, t2}
    Events = {e1, e2}
    CompleteEvents = {e1, e2}
    NoThread = NoThread
    NoEvent = NoEvent
    Cooldown = 1
    OtherCallers = {"manual", "scheduled"}
    MaxClock = 1
    MaxOtherRuns = 1
    MaxFaults = 1
PROPERTIES
    LocksReleased
