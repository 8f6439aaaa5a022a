SPECIFICATION QSpec
CONSTANTS
    a = a
    b = b
    NotANumber = NotANumber
    NoLimit = NoLimit
    AccountIds <- QueryAccountIds
    CommandIds <- QueryCommandIds
    ReservationIds <- QueryReservationIds
    Entries <- QueryEntries
    Requests <- QueryRequests
    MaxIndex = 8
    BatchSize = 2
    RecvMax = 1
    GcEnabled = TRUE
    CountLimit = 8
    GcCount = 2
    GcBatchSize = 2
    MaxCount = 2
    MaxQueries = 1
    MaxCrashes = 1
INVARIANTS
    EventLogContiguous
    DedupMatchesEvents
    MemoryMatchesBatch
    ServedEventsStable
    ResponsesComplete
    TruncatedOnlyByGc
    ReadsRepeatable
PROPERTIES
    BalanceChangesAllowed
