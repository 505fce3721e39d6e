SPECIFICATION CrtSpec
CONSTANTS
    Pairs <- SmallPairs
    Exponents = {13, 17}
    Teks = {2, 3}
    MaxRekeys = 4
INVARIANTS
    CrtTypeOK
    RecoversIffCountedOnce
    UpdatesAreExact
PROPERTY ImplementsWeights
CHECK_DEADLOCK FALSE
