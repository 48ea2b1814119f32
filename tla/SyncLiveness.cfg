SPECIFICATION FairSpec
CONSTANTS
    MaxHead = 2
    ChanCap = 1
    NullReplies = FALSE
    Other = Other
    Block <- MCBlock
    ZeroBlock <- MCZeroBlock
    Chain <- MCChain
    Gossip <- HonestAndForked
PROPERTIES
    NextInSequence
    GapsAreFilled
    StopTerminates
