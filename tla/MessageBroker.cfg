SPECIFICATION FairSpec
CONSTANTS
    MaxPosition = 3
    MaxTime = 3
    RecvMax = 2
    EventLimit = 1
    Timeout = 2
    MaxRestarts = 1
INVARIANTS
    NoMissedJoin
    WaitingIsTracked
PROPERTIES
    TimeoutJustified
    AnsweredUnlessPanic
CHECK_DEADLOCK FALSE
