SPECIFICATION ManagersSpec
CONSTANTS
    NumClusters = 2
    UavsPerCluster = 2
    MaxVersion = 4
PROPERTY HandoverMovesOneMember
CHECK_DEADLOCK FALSE
