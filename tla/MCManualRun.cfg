SPECIFICATION Spec
CONSTANTS
    Threads = {t1, t2}
    Events = {e1}
    CompleteEvents = {e1}
    NoThread = NoThread
    NoEvent = NoEvent
    Cooldown = 2
    OtherCallers = {"manual"}
    MaxClock = 1
    MaxOtherRuns = 1
    MaxFaults = 0
SYMMETRY TriggerSymmetry
INVARIANTS
    OneEventRunPerCooldown
