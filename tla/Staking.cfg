SPECIFICATION SSpec
CONSTANTS
    Validator = {v1, v2}
    MinStake = 100
    Amounts <- MCAmounts
    Percentages = {10, 50, 100, 150}
    Rounding = 1
    MaxDelegations = 2
    MaxSlashes = 2
INVARIANTS
    STypeOK
    ActiveMeansFunded
    StakeIsConserved
PROPERTY
    InactiveIsFinal
