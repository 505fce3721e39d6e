SPECIFICATION ManagersSpec
CONSTANTS
    NumClusters = 2
    UavsPerCluster = 2
    MaxVersion = 4
INVARIANT EachSlaveInGroupDecrypts
CHECK_DEADLOCK FALSE
