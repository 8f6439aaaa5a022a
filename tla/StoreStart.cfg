SPECIFICATION FairSpec
CONSTANTS
    ClusterId = 1
    StoreId = 1
    ClusterSize = 3
    MaxCrashes = 1
PROPERTY EventuallyRuns
CHECK_DEADLOCK FALSE
