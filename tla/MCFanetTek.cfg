SPECIFICATION FanetSpec
CONSTANTS
    NumClusters = 1
    UavsPerCluster = 2
    MaxVersion = 3
    MaxDataSeq = 0
    MaxRekeys = 1
    MaxHandovers = 0
    Lossy = FALSE
INVARIANT SyncedUavHasClusterTek
CHECK_DEADLOCK FALSE
