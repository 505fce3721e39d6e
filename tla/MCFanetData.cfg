SPECIFICATION DataSpec
CONSTANTS
    NumClusters = 2
    UavsPerCluster = 1
    MaxVersion = 3
    MaxDataSeq = 1
    MaxRekeys = 1
    MaxHandovers = 1
    Lossy = FALSE
PROPERTY TelemetryReachesLog
CHECK_DEADLOCK FALSE
