SPECIFICATION P2PSpec
CONSTANTS
    Inbound = {}
    Bootnode = {b1, b2}
    PeerID <- MCPeerID
    DialAttempts = 2
    Caller = {"p2p", "rpc"}
INVARIANTS
    P2PTypeOK
    ActiveMeansServed
    BroadcastsStayWhole
PROPERTIES
    ConnectedStaysActive
    BroadcastEnds
    StopEndsNetwork
CHECK_DEADLOCK FALSE
