SPECIFICATION FairSpec
CONSTANTS
    Retained = 2
    Entries <- MCEntries
    ReadAhead = 2
    MultiGetCnt = 1
    BufferSize = 1
    MaxCrash = 1
INVARIANTS
    WalletFollowsTheLog
    StopsOnlyWhenLagging
PROPERTY
    AppliedReachesTheWallet
CHECK_DEADLOCK FALSE
