SPECIFICATION ManagersSpec
CONSTANTS
    NumClusters = 2
    UavsPerCluster = 2
    MaxVersion = 4
INVARIANTS
    ManagersTypeOK
    SkdcHasManagerTek
    FirstTokenOpensForMembers
PROPERTIES
    LeaveRenewsTek
    FirstTokenImplementsWeights
CHECK_DEADLOCK FALSE
