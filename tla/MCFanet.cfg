SPECIFICATION FanetHandoverSpec
CONSTANTS
    NumClusters = 2
    UavsPerCluster = 1
    MaxVersion = 3
    MaxDataSeq = 0
    MaxRekeys = 0
    MaxHandovers = 2
    Lossy = TRUE
INVARIANTS
    FanetTypeOK
    OrphanOnlyByLoss
    PendingOnlyByLoss
PROPERTY AcceptedMtkDecrypts HandoverCompletes
CHECK_DEADLOCK FALSE
