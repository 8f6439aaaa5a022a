SPECIFICATION Spec
CONSTANTS
    Cmd = {c1, c2}
    MaxTerm = 6
    MaxIndex = 9
    MaxBatch = 0
    GcLimit = 2
    GcDivisor = 2
    MaxCrash = 1
INVARIANTS
    NoPanic
    CrashKeepsTheLog
    CompactionKeepsWhatPeersNeed
PROPERTY
    ImplementsAppliedLog
CHECK_DEADLOCK FALSE
SYMMETRY Symmetry
