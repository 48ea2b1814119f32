SPECIFICATION RestartSpec
CONSTANTS
    MaxHead = 2
    Gossip <- HonestOrFork
    Http = {}
    MaxRequests = 0
    MaxRestarts = 1
    NullReplies = FALSE
    ChanCap = 1
    Other = Other
    Torn = Torn
    NoClaim = NoClaim
    Local = Local
    MinStake = 2
    MaxXP = 40
    AttestationXP = 10
    UptimeBonusXP = 5
    SlashPenaltyXP = 15
    DecayPermille = 100
    Block <- MCBlock
    ZeroBlock <- MCZeroBlock
    Chain <- MCChain
    Root <- MCRoot
    Genesis <- MCGenesis
    NextRoot <- MCNextRoot
    HexToHash <- MCHexToHash
INVARIANT
    NoDoubleSigning
