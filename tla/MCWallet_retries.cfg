SPECIFICATION FairSpec
CONSTANTS
    a = a
    b = b
    c1 = c1
    c2 = c2
    c3 = c3
    c4 = c4
    c5 = c5
    r1 = r1
    NotANumber = NotANumber
    NoLimit = NoLimit
    AccountIds <- MCAccountIds
    CommandIds <- RetryCommandIds
    ReservationIds <- MCReservationIds
    Entries <- RetryEntries
    MaxIndex = 7
    BatchSize = 2
    RecvMax = 2
    GcEnabled = TRUE
    CountLimit = 8
    GcCount = 2
    GcBatchSize = 1
    MaxCrashes = 1
PROPERTIES
    ExecutedOnceWhileRetained
    PanicsOnlyByGc
    EventuallyFlushed
    GcKeepsUp
