SPECIFICATION HttpSpec
CONSTANTS
    MaxHead = 3
    Gossip <- Nothing
    Http = {h1}
    MaxRequests = 0
    MaxRestarts = 0
    NullReplies = FALSE
    ChanCap = 1
    Other = Other
    Torn = Torn
    NoClaim = NoClaim
    Local = Local
    MinStake = 2
    MaxXP = 40
    AttestationXP = 10
    UptimeBonusXP = 5
    SlashPenaltyXP = 15
    DecayPermille = 100
    Block <- MCBlock
    ZeroBlock <- MCZeroBlock
    Chain <- MCChain
    Root <- MCRoot
    Genesis <- MCGenesis
    NextRoot <- MCNextRoot
    HexToHash <- MCHexToHash
    ByteBase = 2
    WordLen = 2
    HashLen = 1
    AddrLen = 1
    GasData <- MCGasData
    LaneStats <- MCLaneStats
    GenuineReceipt <- MCGenuineReceipt
    ReceiptReply <- MCReceiptReply
INVARIANTS
    AttestsEachNewBlock
    SyncedAnswerIsSound
    ReceiptVerdictBinds
PROPERTIES
    EventuallyAttested
