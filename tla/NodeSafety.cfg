SPECIFICATION Spec
CONSTANTS
    MaxHead = 2
    Gossip <- Faulty
    Http = {h1}
    MaxRequests = 1
    MaxRestarts = 0
    NullReplies = FALSE
    ChanCap = 1
    Other = Other
    Torn = Torn
    NoClaim = NoClaim
    Local = Local
    MinStake = 2
    MaxXP = 40
    AttestationXP = 10
    UptimeBonusXP = 5
    SlashPenaltyXP = 15
    DecayPermille = 100
    Block <- MCBlock
    ZeroBlock <- MCZeroBlock
    Chain <- MCChain
    Root <- MCRoot
    Genesis <- MCGenesis
    NextRoot <- MCNextRoot
    HexToHash <- MCHexToHash
INVARIANTS
    NodeTypeOK
    NoEquivocation
    AttestsVerifiedBlocks
PROPERTY
    RefinesAttestedChain
