SPECIFICATION ConSpec
CONSTANTS
    ByteBase = 2
    HashLen = 2
    AddrLen = 1
    Validator <- MCValidator
    Local <- MCLocal
    Hash <- MCHash
    Number = {1, 2}
    Stakes = {2}
    SignOutcomes = {TRUE, FALSE}
    MaxFinalized = 1
    MaxXP = 3
    AttestationXP = 2
    UptimeBonusXP = 1
    SlashPenaltyXP = 2
    DecayPermille = 400
    Days = {400}
    Tastes = {150}
    MaxEvents = 3
    MaxGranted = 3
INVARIANTS
    RepTypeOK
    UptimeNeverOverstated
    XPWithinGrants
    ConTypeOK
    SignatureBindsAttestation
