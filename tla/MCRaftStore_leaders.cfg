SPECIFICATION Spec
CONSTANTS
    Cmd = {c1, c2}
    MaxTerm = 7
    MaxIndex = 8
    MaxBatch = 1
    GcLimit = 10
    GcDivisor = 10
    MaxCrash = 1
INVARIANTS
    AnswersAreDecided
    StaleIsNotDecided
    PromisesAreDurable
    AppliedIsDecided
    NoPanic
CHECK_DEADLOCK FALSE
SYMMETRY Symmetry
