--------------------------- MODULE StakingProofs ----------------------------
(***************************************************************************)
(* Proofs about StakingManager, for every set of validators, amounts and   *)
(* percentages and any number of delegations and slashes.                  *)
(***************************************************************************)
EXTENDS StakingManager, DataTheorems

-----------------------------------------------------------------------------
(***************************************************************************)
(* Types.                                                                  *)
(***************************************************************************)

Stake == [amount : Int, own : Amounts, isActive : BOOLEAN, slashCount : Nat]

\* The inductive invariant: STypeOK with the shape of the records and of the maps
\* it says nothing of.
StakesInv ==
    /\ STypeOK
    /\ stakes \in [DOMAIN stakes -> Stake]
    /\ delegations \in [Validator -> Seq(Amounts)]
    /\ burned \in [Validator -> Int]

\* What a slash takes is an integer.
LEMMA SlashTyped ==
    ASSUME NEW amount \in Int, NEW percentage \in Percentages,
           NEW cut \in SlashAmounts(amount, percentage)
    PROVE  cut \in Int
<1>1. PICK t \in Int : t = amount * percentage
  BY StakingAssumption
<1>2. Truncated(t) \in Int
  BY DEF Truncated
<1> QED
  BY <1>1, <1>2, StakingAssumption DEF SlashAmounts

\* A slashed record is a record.
LEMMA SlashedTyped ==
    ASSUME NEW r \in Stake, NEW cut \in Int
    PROVE  Slashed(r, cut) \in Stake
<1> DEFINE b == StaysActive(r.isActive, r.amount - cut)
<1>1. r.amount \in Int /\ r.own \in Amounts /\ r.slashCount \in Nat
  BY DEF Stake
<1>2. b \in BOOLEAN
  BY Zenon DEF StaysActive
<1>3. r.amount - cut \in Int /\ r.slashCount + 1 \in Nat
  BY <1>1
<1> HIDE DEF b
<1>4. Slashed(r, cut) = [r EXCEPT !.amount = r.amount - cut,
                                 !.slashCount = r.slashCount + 1,
                                 !.isActive = b]
  BY DEF Slashed, b, Stake
<1> QED
  BY <1>1, <1>2, <1>3, <1>4 DEF Stake

\* A new record for a registered validator keeps the types.
LEMMA RecordTyped ==
    ASSUME StakesInv, NEW v \in DOMAIN stakes, NEW r \in Stake,
           stakes' = [stakes EXCEPT ![v] = r],
           NEW s \in Seq(Amounts), delegations' = [delegations EXCEPT ![v] = s],
           NEW n \in Int, burned' = [burned EXCEPT ![v] = n]
    PROVE  StakesInv'
<1>1. DOMAIN stakes' = DOMAIN stakes /\ stakes' \in [DOMAIN stakes' -> Stake]
  BY DEF StakesInv
<1>2. \A u \in DOMAIN stakes' : stakes'[u].amount \in Int /\ stakes'[u].own \in Amounts
  BY <1>1 DEF Stake
<1>3. \A u \in Validator \ DOMAIN stakes' : delegations'[u] = <<>> /\ burned'[u] = 0
  BY <1>1 DEF StakesInv, STypeOK
<1>4. /\ delegations' \in [Validator -> Seq(Amounts)]
      /\ burned' \in [Validator -> Int]
      /\ DOMAIN stakes' \subseteq Validator
  BY <1>1 DEF StakesInv, STypeOK
<1> QED
  BY <1>1, <1>2, <1>3, <1>4 DEF StakesInv, STypeOK

\* Every operation keeps the types.
LEMMA NextStakes == StakesInv /\ [SNext]_svars => StakesInv'
<1> SUFFICES ASSUME StakesInv, [SNext]_svars PROVE StakesInv'
  OBVIOUS
<1> USE StakingAssumption
<1>1. ASSUME NEW v \in Validator, NEW a \in Amounts, Register(v, a) PROVE StakesInv'
  BY <1>1 DEF Register, StakesInv, STypeOK, Stake
<1>2. ASSUME NEW v \in Validator, NEW a \in Amounts, Delegate(v, a) PROVE StakesInv'
  <2> DEFINE r == [stakes[v] EXCEPT !.amount = @ + a]
  <2>1. v \in DOMAIN stakes /\ stakes[v] \in Stake
    BY <1>2 DEF Delegate, AcceptsDelegations, StakesInv
  <2>2. r \in Stake
    BY <2>1 DEF Stake
  <2>3. stakes' = [stakes EXCEPT ![v] = r]
    BY <1>2 DEF Delegate, Backed
  <2>4. /\ delegations' = [delegations EXCEPT ![v] = Append(@, a)]
        /\ Append(delegations[v], a) \in Seq(Amounts)
    BY <1>2 DEF Delegate, StakesInv
  <2>5. burned' = [burned EXCEPT ![v] = burned[v]] /\ burned[v] \in Int
    BY <1>2 DEF Delegate, StakesInv
  <2> HIDE DEF r
  <2> QED
    BY <2>1, <2>2, <2>3, <2>4, <2>5, RecordTyped
<1>3. ASSUME NEW v \in Validator, NEW p \in Percentages, Slash(v, p) PROVE StakesInv'
  <2>1. PICK cut \in SlashAmounts(stakes[v].amount, p) :
           /\ stakes' = [stakes EXCEPT ![v] = Slashed(@, cut)]
           /\ burned' = [burned EXCEPT ![v] = @ + cut]
    BY <1>3 DEF Slash
  <2>2. v \in DOMAIN stakes /\ stakes[v] \in Stake
    BY <1>3 DEF Slash, StakesInv
  <2>3. cut \in Int
    BY <2>2, SlashTyped DEF Stake
  <2>4. Slashed(stakes[v], cut) \in Stake
    BY <2>2, <2>3, SlashedTyped
  <2>5. delegations' = [delegations EXCEPT ![v] = @] /\ delegations[v] \in Seq(Amounts)
    BY <1>3 DEF Slash, StakesInv
  <2>6. burned[v] + cut \in Int
    BY <2>2, <2>3 DEF StakesInv, Stake
  <2> QED
    BY <2>1, <2>2, <2>4, <2>5, <2>6, RecordTyped
<1>4. CASE UNCHANGED svars
  BY <1>4 DEF svars, StakesInv, STypeOK
<1> QED
  BY <1>1, <1>2, <1>3, <1>4 DEF SNext, RegisterRefused, DelegateRefused, SlashRefused

\* StakesInv holds in every reachable state.
LEMMA StakesInvariant == SSpec => []StakesInv
<1>1. SInit => StakesInv
  BY DEF SInit, StakesInv, STypeOK, Stake
<1> QED
  BY <1>1, NextStakes, PTL DEF SSpec

\* Whatever is registered, delegated and slashed, a stake is an integer and nothing
\* is delegated to or taken from a validator that has not registered.
THEOREM StakesTyped == SSpec => []STypeOK
<1>1. StakesInv => STypeOK
  BY DEF StakesInv
<1> QED
  BY <1>1, StakesInvariant, PTL

-----------------------------------------------------------------------------
(***************************************************************************)
(* Sensible inputs.                                                        *)
(***************************************************************************)

\* What a caller of Delegate and Slash has to respect, as they do not check it.
SensibleInputs == Amounts \subseteq Nat /\ Percentages \subseteq 0 .. 100

StakesNotNegative == \A v \in DOMAIN stakes : stakes[v].amount >= 0

\* Whatever floating point makes of the product, no more than the stake is taken.
LEMMA SlashWithinStake ==
    ASSUME SensibleInputs, NEW amount \in Nat, NEW percentage \in Percentages,
           NEW cut \in SlashAmounts(amount, percentage)
    PROVE  cut \in 0 .. amount
BY DEF SlashAmounts, SensibleInputs

\* A caller that delegates no negative amount and slashes at most 100 per cent never
\* makes a stake negative, however floating point rounds the cuts.
THEOREM StakesStayPositive ==
    ASSUME SensibleInputs
    PROVE  SSpec => []StakesNotNegative
<1>1. SInit => StakesNotNegative
  BY DEF SInit, StakesNotNegative
<1>2. StakesInv /\ StakesNotNegative /\ [SNext]_svars => StakesNotNegative'
  <2> SUFFICES ASSUME StakesInv, StakesNotNegative, [SNext]_svars
               PROVE  StakesNotNegative'
    OBVIOUS
  <2> USE StakingAssumption DEF StakesInv, STypeOK, Stake, StakesNotNegative
  <2>1. ASSUME NEW v \in Validator, NEW a \in Amounts, Register(v, a)
        PROVE  StakesNotNegative'
    BY <2>1 DEF Register
  <2>2. ASSUME NEW v \in Validator, NEW a \in Amounts, Delegate(v, a)
        PROVE  StakesNotNegative'
    BY <2>2 DEF Delegate, AcceptsDelegations, Backed, SensibleInputs
  <2>3. ASSUME NEW v \in Validator, NEW p \in Percentages, Slash(v, p)
        PROVE  StakesNotNegative'
    <3>1. PICK cut \in SlashAmounts(stakes[v].amount, p) :
             stakes' = [stakes EXCEPT ![v] = Slashed(@, cut)]
      BY <2>3 DEF Slash
    <3>2. v \in DOMAIN stakes /\ stakes[v].amount \in Nat
      BY <2>3 DEF Slash
    <3>3. cut \in 0 .. stakes[v].amount
      BY <3>2, SlashWithinStake
    <3> QED
      BY <3>1, <3>2, <3>3 DEF Slashed
  <2>4. CASE UNCHANGED svars
    BY <2>4 DEF svars
  <2> QED
    BY <2>1, <2>2, <2>3, <2>4 DEF SNext, RegisterRefused, DelegateRefused, SlashRefused
<1> QED
  BY <1>1, <1>2, StakesInvariant, PTL DEF SSpec

-----------------------------------------------------------------------------
(***************************************************************************)
(* Active validators.                                                      *)
(***************************************************************************)

\* A negative delegation stays on record.
LEMMA BackingStays ==
    ASSUME StakesInv, NEW v \in Validator, NEW a \in Amounts, Delegate(v, a),
           NEW u \in Validator, NegativelyBacked(u)
    PROVE  NegativelyBacked(u)'
<1>1. PICK i \in DOMAIN delegations[u] : delegations[u][i] < 0
  BY DEF NegativelyBacked
<1>2. delegations[u] \in Seq(Amounts)
  BY DEF StakesInv
<1>3. i \in DOMAIN delegations'[u] /\ delegations'[u][i] = delegations[u][i]
  <2>1. CASE u = v
    <3>1. delegations'[u] = Append(delegations[u], a)
      BY <2>1 DEF Delegate, StakesInv
    <3> QED
      BY <1>1, <1>2, <3>1
  <2>2. CASE u # v
    BY <1>1, <2>2 DEF Delegate, StakesInv
  <2> QED
    BY <2>1, <2>2
<1> QED
  BY <1>1, <1>3 DEF NegativelyBacked

\* A validator that counts as active is backed by the minimum at least, through
\* any sequence of delegations and slashes, unless something negative was delegated
\* to it.
THEOREM ActiveFunded == SSpec => []ActiveMeansFunded
<1>1. SInit => ActiveMeansFunded
  BY DEF SInit, ActiveMeansFunded
<1>2. StakesInv /\ ActiveMeansFunded /\ [SNext]_svars => ActiveMeansFunded'
  <2> SUFFICES ASSUME StakesInv, ActiveMeansFunded, [SNext]_svars
               PROVE  ActiveMeansFunded'
    OBVIOUS
  <2> USE StakingAssumption DEF StakesInv, STypeOK, Stake, ActiveMeansFunded
  <2>1. ASSUME NEW v \in Validator, NEW a \in Amounts, Register(v, a)
        PROVE  ActiveMeansFunded'
    BY <2>1 DEF Register, NegativelyBacked
  <2>2. ASSUME NEW v \in Validator, NEW a \in Amounts, Delegate(v, a)
        PROVE  ActiveMeansFunded'
    <3> SUFFICES ASSUME NEW u \in DOMAIN stakes', stakes'[u].isActive
                 PROVE  (stakes[u].amount >= MinStake \/ NegativelyBacked(u))'
      OBVIOUS
    <3>1. u \in DOMAIN stakes /\ stakes[u].isActive
      BY <2>2 DEF Delegate, AcceptsDelegations
    <3>2. CASE NegativelyBacked(u)
      BY <2>2, <3>1, <3>2, BackingStays
    <3>3. CASE stakes[u].amount >= MinStake /\ u # v
      BY <2>2, <3>1, <3>3 DEF Delegate
    <3>4. CASE stakes[u].amount >= MinStake /\ u = v
      <4>1. CASE a >= 0
        BY <2>2, <3>1, <3>4, <4>1 DEF Delegate, Backed
      <4>2. CASE a < 0
        <5>1. delegations'[u] = Append(delegations[u], a) /\ delegations[u] \in Seq(Amounts)
          BY <2>2, <3>1, <3>4 DEF Delegate
        <5> DEFINE n == Len(delegations[u]) + 1
        <5>2. n \in DOMAIN delegations'[u] /\ delegations'[u][n] = a
          BY <5>1
        <5> QED
          BY <4>2, <5>2 DEF NegativelyBacked
      <4> QED
        BY <4>1, <4>2
    <3> QED
      BY <3>1, <3>2, <3>3, <3>4
  <2>3. ASSUME NEW v \in Validator, NEW p \in Percentages, Slash(v, p)
        PROVE  ActiveMeansFunded'
    <3>1. PICK cut \in SlashAmounts(stakes[v].amount, p) :
             stakes' = [stakes EXCEPT ![v] = Slashed(@, cut)]
      BY <2>3 DEF Slash
    <3>2. DOMAIN stakes' = DOMAIN stakes /\ delegations' = delegations
      BY <2>3, <3>1 DEF Slash
    <3>3. ASSUME NEW u \in DOMAIN stakes, stakes'[u].isActive, ~NegativelyBacked(u)
          PROVE  stakes'[u].amount >= MinStake
      BY <3>1, <3>3 DEF Slashed, StaysActive
    <3> QED
      BY <3>2, <3>3 DEF NegativelyBacked
  <2>4. CASE UNCHANGED svars
    BY <2>4 DEF svars, NegativelyBacked
  <2> QED
    BY <2>1, <2>2, <2>3, <2>4 DEF SNext, RegisterRefused, DelegateRefused, SlashRefused
<1> QED
  BY <1>1, <1>2, StakesInvariant, PTL DEF SSpec

\* A validator that Slash has deactivated is never active again and nothing is
\* delegated to it, for any later slashes.
THEOREM InactiveFinal == SSpec => InactiveIsFinal
<1> DEFINE Final == \A v \in DOMAIN stakes :
              ~stakes[v].isActive =>
                  ~stakes'[v].isActive /\ delegations'[v] = delegations[v]
<1>1. StakesInv /\ [SNext]_svars => [Final]_svars
  <2> SUFFICES ASSUME StakesInv, SNext PROVE Final
    OBVIOUS
  <2> USE StakingAssumption DEF StakesInv, STypeOK, Stake
  <2>1. ASSUME NEW v \in Validator, NEW a \in Amounts, Register(v, a) PROVE Final
    BY <2>1 DEF Register
  <2>2. ASSUME NEW v \in Validator, NEW a \in Amounts, Delegate(v, a) PROVE Final
    BY <2>2 DEF Delegate, AcceptsDelegations
  <2>3. ASSUME NEW v \in Validator, NEW p \in Percentages, Slash(v, p) PROVE Final
    <3>1. PICK cut \in SlashAmounts(stakes[v].amount, p) :
             stakes' = [stakes EXCEPT ![v] = Slashed(@, cut)]
      BY <2>3 DEF Slash
    <3> QED
      BY <2>3, <3>1 DEF Slash, Slashed, StaysActive
  <2>4. CASE UNCHANGED svars
    BY <2>4 DEF svars
  <2> QED
    BY <2>1, <2>2, <2>3, <2>4 DEF SNext, RegisterRefused, DelegateRefused, SlashRefused
<1> QED
  BY <1>1, StakesInvariant, PTL DEF SSpec, InactiveIsFinal

-----------------------------------------------------------------------------
(***************************************************************************)
(* Conservation.                                                           *)
(***************************************************************************)

\* The sum of a sequence of amounts is an integer, and 0 for an empty one.
LEMMA SeqSumType ==
    ASSUME NEW s \in Seq(Amounts)
    PROVE  SumOfSeq(s) \in Int
<1>1. IsFiniteSet(1 .. Len(s))
  BY FS_Interval
<1>2. ASSUME NEW i \in 1 .. Len(s) PROVE s[i] \in Int
  <2>1. s[i] \in Amounts
    OBVIOUS
  <2> QED
    BY <2>1, StakingAssumption
<1> QED
  BY <1>1, <1>2, SumType DEF SumOfSeq

LEMMA SeqSumEmpty == SumOfSeq(<<>>) = 0
<1>1. 1 .. Len(<<>>) = {}
  OBVIOUS
<1> QED
  BY <1>1, SumEmpty DEF SumOfSeq

\* A delegation adds its amount to the sum.
LEMMA SeqSumAppend ==
    ASSUME NEW s \in Seq(Amounts), NEW a \in Amounts
    PROVE  SumOfSeq(Append(s, a)) = SumOfSeq(s) + a
<1> DEFINE t == Append(s, a)
           S == 1 .. Len(s)
           n == Len(s) + 1
<1>0. Len(s) \in Nat /\ Len(t) = Len(s) + 1
  OBVIOUS
<1>1. IsFiniteSet(S) /\ n \notin S /\ 1 .. Len(t) = S \cup {n}
  <2>1. IsFiniteSet(S)
    BY <1>0, FS_Interval
  <2>2. n \notin S
    BY <1>0
  <2>3. 1 .. Len(t) = S \cup {n}
    BY <1>0
  <2> QED
    BY <2>1, <2>2, <2>3
<1>2. t[n] = a /\ \A i \in S : t[i] = s[i]
  OBVIOUS
<1>3. ASSUME NEW i \in S \cup {n} PROVE t[i] \in Int
  <2>1. t[i] \in Amounts
    BY <1>2
  <2>2. Amounts \subseteq Int
    BY StakingAssumption
  <2> HIDE DEF t, S, n
  <2> QED
    BY <2>1, <2>2
<1> HIDE DEF t, S, n
<1>4. SumFunctionOnSet(t, S \cup {n}) = SumFunctionOnSet(t, S) + t[n]
  BY <1>1, <1>3, SumAddElement
<1>5. SumFunctionOnSet(t, S) = SumFunctionOnSet(s, S)
  BY <1>1, <1>2, SumAgree
<1>6. SumOfSeq(t) = SumFunctionOnSet(t, S \cup {n}) /\ SumOfSeq(s) = SumFunctionOnSet(s, S)
  BY <1>1 DEF SumOfSeq, S
<1> QED
  BY <1>2, <1>4, <1>5, <1>6 DEF t

\* Every validator's stake is what it holds.
Conserved == \A v \in DOMAIN stakes : stakes[v].amount = Held(v)

\* Every operation that changes a stake accounts for the change.
LEMMA NextConserved == StakesInv /\ Conserved /\ [SNext]_svars => Conserved'
<1> SUFFICES ASSUME StakesInv, Conserved, [SNext]_svars, NEW u \in DOMAIN stakes'
             PROVE  stakes'[u].amount = Held(u)'
  BY DEF Conserved
<1> USE StakingAssumption
<1>0. ASSUME u \in DOMAIN stakes
      PROVE  /\ stakes[u] \in Stake /\ u \in Validator
             /\ delegations[u] \in Seq(Amounts) /\ burned[u] \in Int
             /\ SumOfSeq(delegations[u]) \in Int
             /\ stakes[u].amount = stakes[u].own + SumOfSeq(delegations[u]) - burned[u]
  <2>1. u \in Validator /\ delegations[u] \in Seq(Amounts) /\ burned[u] \in Int
    BY <1>0 DEF StakesInv, STypeOK
  <2>2. SumOfSeq(delegations[u]) \in Int
    BY <2>1, SeqSumType
  <2> QED
    BY <1>0, <2>1, <2>2 DEF StakesInv, Conserved, Held
<1>1. ASSUME NEW v \in Validator, NEW a \in Amounts, Register(v, a)
      PROVE  stakes'[u].amount = Held(u)'
  <2>1. CASE u = v
    <3>1. /\ stakes'[u].amount = a /\ stakes'[u].own = a
          /\ delegations'[u] = <<>> /\ burned'[u] = 0
      BY <1>1, <2>1 DEF Register, StakesInv, STypeOK
    <3>2. a \in Int
      OBVIOUS
    <3> QED
      BY <3>1, <3>2, SeqSumEmpty DEF Held
  <2>2. CASE u # v
    BY <1>0, <1>1, <2>2 DEF Register, Held
  <2> QED
    BY <2>1, <2>2
<1>2. ASSUME NEW v \in Validator, NEW a \in Amounts, Delegate(v, a)
      PROVE  stakes'[u].amount = Held(u)'
  <2>1. u \in DOMAIN stakes
    BY <1>2 DEF Delegate
  <2>2. CASE u = v
    <3>1. /\ stakes'[u].amount = stakes[u].amount + a /\ stakes'[u].own = stakes[u].own
          /\ burned'[u] = burned[u]
      BY <1>2, <2>1, <2>2 DEF Delegate, Backed, StakesInv, Stake
    <3>2. delegations'[u] = Append(delegations[u], a)
      BY <1>2, <2>2 DEF Delegate, StakesInv
    <3>3. SumOfSeq(delegations'[u]) = SumOfSeq(delegations[u]) + a
      BY <1>0, <2>1, <3>2, SeqSumAppend
    <3>4. stakes[u].own \in Int /\ a \in Int
      BY <1>0, <2>1 DEF Stake
    <3> QED
      BY <1>0, <2>1, <3>1, <3>3, <3>4 DEF Held
  <2>3. CASE u # v
    BY <1>0, <1>2, <2>1, <2>3 DEF Delegate, Held, StakesInv
  <2> QED
    BY <2>2, <2>3
<1>3. ASSUME NEW v \in Validator, NEW p \in Percentages, Slash(v, p)
      PROVE  stakes'[u].amount = Held(u)'
  <2>1. PICK cut \in SlashAmounts(stakes[v].amount, p) :
           /\ stakes' = [stakes EXCEPT ![v] = Slashed(@, cut)]
           /\ burned' = [burned EXCEPT ![v] = @ + cut]
           /\ delegations' = delegations
    BY <1>3 DEF Slash
  <2>2. u \in DOMAIN stakes
    BY <2>1
  <2>3. CASE u = v
    <3>1. cut \in Int /\ stakes[u].own \in Int
      BY <1>0, <2>1, <2>2, <2>3, SlashTyped DEF Stake
    <3>2. stakes'[u] = Slashed(stakes[u], cut) /\ burned'[u] = burned[u] + cut
      BY <2>1, <2>2, <2>3 DEF StakesInv
    <3>3. /\ Slashed(stakes[u], cut).amount = stakes[u].amount - cut
          /\ Slashed(stakes[u], cut).own = stakes[u].own
      BY <1>0, <2>2 DEF Slashed, Stake
    <3>4. SumOfSeq(delegations'[u]) = SumOfSeq(delegations[u])
      BY <2>1
    <3> QED
      BY <1>0, <2>2, <3>1, <3>2, <3>3, <3>4 DEF Held
  <2>4. CASE u # v
    BY <1>0, <2>1, <2>2, <2>4 DEF Held, StakesInv
  <2> QED
    BY <2>3, <2>4
<1>4. CASE UNCHANGED svars
  BY <1>0, <1>4 DEF svars, Held
<1> QED
  BY <1>1, <1>2, <1>3, <1>4 DEF SNext, RegisterRefused, DelegateRefused, SlashRefused

\* Nothing is created or lost by any sequence of registrations, delegations and
\* slashes, rounding included, and TotalStaked is what the active validators hold.
THEOREM StakesConserved == SSpec => []StakeIsConserved
<1>1. SInit => Conserved
  BY DEF SInit, Conserved
<1>2. Conserved => StakeIsConserved
  <2> SUFFICES ASSUME Conserved PROVE StakeIsConserved
    OBVIOUS
  <2>1. [v \in DOMAIN stakes |-> stakes[v].amount] = [v \in DOMAIN stakes |-> Held(v)]
    BY DEF Conserved
  <2> QED
    BY <2>1 DEF Conserved, StakeIsConserved, TotalStaked
<1> QED
  BY <1>1, <1>2, NextConserved, StakesInvariant, PTL DEF SSpec

=============================================================================
