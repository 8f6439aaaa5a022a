SPECIFICATION RSpec
CONSTANTS
    a = a
    NotANumber = NotANumber
    NoLimit = NoLimit
    AccountIds <- ReplicaAccountIds
    CommandIds <- ReplicaCommandIds
    ReservationIds <- ReplicaReservationIds
    Entries <- DeletingEntries
    MaxIndex = 8
    BatchSize = 2
    RecvMax = 2
    GcEnabled = FALSE
    CountLimit = 8
    GcCount = 2
    GcBatchSize = 2
    MaxCrashes = 0
INVARIANTS
    ReplicasAgree
