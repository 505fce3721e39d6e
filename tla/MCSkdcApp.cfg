SPECIFICATION SkdcFairSpec
CONSTANTS
    NumClusters = 1
    UavsPerCluster = 2
    MaxVersion = 3
INVARIANTS
    SkdcTypeOK
    EveryRekeyReportedOnce
    OpenRekeyHasTimer
    NoStrayAcks
PROPERTY ImplementsLedger AckedRekeyWaitsOnlyByLeave EveryRekeyEventuallyReported
CHECK_DEADLOCK FALSE
