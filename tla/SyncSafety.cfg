SPECIFICATION Spec
CONSTANTS
    MaxHead = 2
    ChanCap = 1
    NullReplies = TRUE
    Other = Other
    Block <- MCBlock
    ZeroBlock <- MCZeroBlock
    Chain <- MCChain
    Gossip <- WithZero
INVARIANTS
    TypeOK
    Contiguous
    LatestIsHighest
    NotifiedExactlyOnce
    CatchUpNeverDefers
