SPECIFICATION ReplaySpec
CONSTANTS
    Senders = {s1}
    Nonces = {n1}
    ZeroNonce = zero
    MaxSkew = 1
    Window = 2
    BitmapSize = 2
    RingSize = 2
    MaxAge = 2
    U64 = 5
    MaxNow = 4
INVARIANTS
    ReplayTypeOK
    ReplaysRejected
    OvertakenAccepted
    RecentNoncesRejected
