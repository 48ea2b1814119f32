SPECIFICATION VSpec
SYMMETRY Symmetry
CONSTANTS
    Caller = {t1, t2, t3}
    Torn = Torn
    NoClaim = NoClaim
    Block <- MCBlock
    ZeroBlock <- MCZeroBlock
    Root <- MCRoot
    Genesis <- MCGenesis
    NextRoot <- MCNextRoot
INVARIANT
    VTypeOK
PROPERTY
    ValidClaimsExtendReached
