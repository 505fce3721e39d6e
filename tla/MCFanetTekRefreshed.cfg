SPECIFICATION FanetFairSpec
CONSTANTS
    NumClusters = 2
    UavsPerCluster = 1
    MaxVersion = 3
    MaxDataSeq = 0
    MaxRekeys = 1
    MaxHandovers = 1
    Lossy = FALSE
PROPERTY TekRefreshed
CHECK_DEADLOCK FALSE
