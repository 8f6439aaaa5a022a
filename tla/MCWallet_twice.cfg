SPECIFICATION Spec
CONSTANTS
    a = a
    b = b
    c1 = c1
    c2 = c2
    c3 = c3
    c4 = c4
    c5 = c5
    r1 = r1
    NotANumber = NotANumber
    NoLimit = NoLimit
    AccountIds <- MCAccountIds
    CommandIds <- MCCommandIds
    ReservationIds <- MCReservationIds
    Entries <- TwiceEntries
    MaxIndex = 7
    BatchSize = 2
    RecvMax = 2
    GcEnabled = FALSE
    CountLimit = 8
    GcCount = 2
    GcBatchSize = 1
    MaxCrashes = 0
INVARIANT MoneyConserved
