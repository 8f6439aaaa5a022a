SPECIFICATION FairSpec
CONSTANTS
    Stores = {s1, s2}
    QueueCap = 1
    SampleMask = 1
    MaxMessages = 2
    MaxBreaks = 2
INVARIANTS
    NoLostWakeup
    DeliveredInOrder
    DirtyIsCached
PROPERTY
    EveryMessageLeaves
CHECK_DEADLOCK FALSE
