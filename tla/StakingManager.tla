--------------------------- MODULE StakingManager ---------------------------
(***************************************************************************)
(* The staking manager (internal/staking/manager.go).  Every operation     *)
(* holds the manager's mutex, so each is one action; one that returns an   *)
(* error changes nothing.  Amounts are whole units, percentages integers;  *)
(* Delegate checks neither the sign of an amount nor Slash the range of a  *)
(* percentage, so both may be any.                                         *)
(***************************************************************************)
EXTENDS Integers, Sequences, Functions

CONSTANTS
    Validator,       \* addresses
    MinStake,        \* Manager.minStake
    Amounts,         \* amounts registered and delegated
    Percentages,     \* percentages slashed
    Rounding,        \* bound: how far floating point is off the exact cut
    MaxDelegations,  \* bound: delegations per validator
    MaxSlashes       \* bound: slashes per validator

ASSUME StakingAssumption ==
    /\ MinStake \in Nat
    /\ Amounts \subseteq Int
    /\ Percentages \subseteq Int
    /\ Rounding \in Nat

VARIABLES
    stakes,          \* Manager.stakes, a partial function
    delegations,     \* Manager.delegations: amounts, by validator
    burned           \* history: what Slash took from each validator

svars == <<stakes, delegations, burned>>

SInit ==
    /\ stakes = [v \in {} |-> {}]
    /\ delegations = [v \in Validator |-> <<>>]
    /\ burned = [v \in Validator |-> 0]

-----------------------------------------------------------------------------

\* Register refuses too small a stake and a known validator.
Register(v, amount) ==
    /\ amount >= MinStake
    /\ v \notin DOMAIN stakes
    /\ stakes' = [u \in DOMAIN stakes \cup {v} |->
                     IF u = v
                        THEN [amount |-> amount, own |-> amount,
                              isActive |-> TRUE, slashCount |-> 0]
                        ELSE stakes[u]]
    /\ UNCHANGED <<delegations, burned>>

DelegateToAny(v) == v \in DOMAIN stakes   \* mutation: IsActive is not looked at

\* mutation: only IsActive is looked at, not whether the validator exists
DelegateToUnknown(v) == v \in DOMAIN stakes => stakes[v].isActive

AcceptsDelegations(v) == v \in DOMAIN stakes /\ stakes[v].isActive

NotAdded(stake, amount) == stake           \* mutation: the Add is missing

Backed(stake, amount) == stake + amount

\* Delegate records the delegation and adds it to the validator's stake.
Delegate(v, amount) ==
    /\ AcceptsDelegations(v)
    /\ Len(delegations[v]) < MaxDelegations
    /\ delegations' = [delegations EXCEPT ![v] = Append(@, amount)]
    /\ stakes' = [stakes EXCEPT ![v].amount = Backed(@, amount)]
    /\ UNCHANGED burned

\* big.Float.Int drops the fraction, towards zero.
Truncated(hundredths) ==
    IF hundredths >= 0 THEN hundredths \div 100 ELSE -((-hundredths) \div 100)

(***************************************************************************)
(* slashInt: stake * (percentage / 100.0) in floating point, truncated.    *)
(* The quotient is the float64 nearest to the fraction, on either side of  *)
(* it, so the product may be off, by up to Rounding units (the error grows *)
(* with the stake).  Whole multiples of the stake are exact, and as        *)
(* rounding is monotone a fraction of the stake is never more than it.     *)
(***************************************************************************)
SlashAmounts(amount, percentage) ==
    LET exact == Truncated(amount * percentage)
        near  == exact - Rounding .. exact + Rounding
    IN  {cut \in near :
           /\ percentage % 100 = 0 => cut = exact
           /\ percentage \in 0 .. 100 /\ amount >= 0 => cut \in 0 .. amount}

NeverDeactivate(active, amount) == active  \* mutation: the minimum is not checked

StaysActive(active, amount) == active /\ amount >= MinStake

\* A validator's record after cut was taken from its stake.
Slashed(stake, cut) ==
    [stake EXCEPT !.amount = @ - cut,
                  !.slashCount = @ + 1,
                  !.isActive = StaysActive(@, stake.amount - cut)]

\* Slash takes a share of the stake, and deactivates below the minimum.
Slash(v, percentage) ==
    /\ v \in DOMAIN stakes
    /\ stakes[v].slashCount < MaxSlashes
    /\ \E cut \in SlashAmounts(stakes[v].amount, percentage) :
          /\ stakes' = [stakes EXCEPT ![v] = Slashed(@, cut)]
          /\ burned' = [burned EXCEPT ![v] = @ + cut]
    /\ UNCHANGED delegations

\* Operations that return an error and change nothing.
RegisterRefused(v, amount) ==
    /\ amount < MinStake \/ v \in DOMAIN stakes
    /\ UNCHANGED svars

DelegateRefused(v) ==
    /\ ~AcceptsDelegations(v)
    /\ UNCHANGED svars

SlashRefused(v) ==
    /\ v \notin DOMAIN stakes
    /\ UNCHANGED svars

SNext ==
    \E v \in Validator :
        \/ \E a \in Amounts : Register(v, a) \/ RegisterRefused(v, a) \/ Delegate(v, a)
        \/ DelegateRefused(v)
        \/ \E p \in Percentages : Slash(v, p)
        \/ SlashRefused(v)

SSpec == SInit /\ [][SNext]_svars

-----------------------------------------------------------------------------

ActiveAmong(V) == {v \in V : stakes[v].isActive}

\* TotalStaked adds up the active stakes.
TotalStaked ==
    SumFunctionOnSet([v \in DOMAIN stakes |-> stakes[v].amount],
                     ActiveAmong(DOMAIN stakes))

SumOfSeq(s) == SumFunctionOnSet(s, 1 .. Len(s))

-----------------------------------------------------------------------------
(***************************************************************************)
(* Properties.                                                             *)
(***************************************************************************)

\* A stake is an integer, and not a natural number: a slash of more than all of
\* it, or a negative delegation, takes it below zero.  Nothing is delegated to or
\* taken from a validator that has not registered.
STypeOK ==
    /\ DOMAIN stakes \subseteq Validator
    /\ \A v \in DOMAIN stakes : stakes[v].amount \in Int /\ stakes[v].own \in Amounts
    /\ \A v \in Validator \ DOMAIN stakes : delegations[v] = <<>> /\ burned[v] = 0

\* Something negative was delegated to v, which Delegate does not refuse.
NegativelyBacked(v) == \E i \in DOMAIN delegations[v] : delegations[v][i] < 0

\* A validator that counts as active is funded: at least the minimum backs it,
\* through any sequence of delegations and slashes, of any percentage.  Only a
\* negative delegation gets an active validator below it, because Delegate, unlike
\* Slash, does not compare the new stake with the minimum.
ActiveMeansFunded ==
    \A v \in DOMAIN stakes :
        stakes[v].isActive => stakes[v].amount >= MinStake \/ NegativelyBacked(v)

\* What a validator registered and was delegated, less what Slash took.
Held(v) == stakes[v].own + SumOfSeq(delegations[v]) - burned[v]

\* Nothing is created or lost, rounding included: a validator's stake is what it
\* holds, and TotalStaked is what the active validators hold.
StakeIsConserved ==
    /\ \A v \in DOMAIN stakes : stakes[v].amount = Held(v)
    /\ TotalStaked = SumFunctionOnSet([v \in DOMAIN stakes |-> Held(v)],
                                      ActiveAmong(DOMAIN stakes))

\* A validator that Slash has deactivated is never active again and nothing is
\* delegated to it, although later slashes still change its stake.
InactiveIsFinal ==
    [][\A v \in DOMAIN stakes :
          ~stakes[v].isActive =>
              ~stakes'[v].isActive /\ delegations'[v] = delegations[v]]_svars

=============================================================================
