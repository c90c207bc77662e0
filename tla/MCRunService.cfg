SPECIFICATION Spec
CONSTANTS
    N = 2
    RunIds = {r1, r2}
    NoRun = NoRun
    Replay = FALSE
    MaxExecutions = 3
SYMMETRY RunSymmetry
CHECK_DEADLOCK FALSE
INVARIANTS
    TypeOK
    PersistedTogether
    CallsAreTheRuns
    StatusMatchesCalls
PROPERTIES
    RetriggerIsNoop
