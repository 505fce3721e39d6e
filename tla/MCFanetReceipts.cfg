SPECIFICATION ReceiptsFairSpec
CONSTANTS
    NumClusters = 1
    UavsPerCluster = 2
    MaxVersion = 3
    MaxDataSeq = 0
    MaxRekeys = 2
    MaxHandovers = 0
    Lossy = FALSE
PROPERTY OkRowMeansReceived MembersCatchUp
CHECK_DEADLOCK FALSE
