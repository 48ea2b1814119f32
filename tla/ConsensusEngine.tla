-------------------------- MODULE ConsensusEngine ---------------------------
(***************************************************************************)
(* The consensus engine (internal/consensus/engine.go): the validator set  *)
(* with its sovereignty-weighted voting power, the attestations this node  *)
(* makes, and the finality test.  RegisterValidator and AttestBlock hold   *)
(* the write lock from beginning to end, calls into the reputation manager *)
(* and the broadcast included, so each is one action.                      *)
(*                                                                         *)
(* Voting power is kept in twenty-thousandths: stake * (1 + 0.5 * s / 10^4)*)
(* becomes stake * (20000 + s).                                            *)
(***************************************************************************)
EXTENDS ReputationManager, Sequences, Functions

CONSTANTS
    Local,             \* the address of this node
    Number, Hash,      \* block numbers and hashes that can be attested
    Stakes,            \* stakes, in whole tokens
    SignOutcomes,      \* what crypto.Sign can do: TRUE a signature, FALSE an error
    MaxFinalized       \* bound: value of the BlocksFinalized counter

ASSUME ConsensusAssumption ==
    /\ Local \in Validator
    /\ Stakes \subseteq Nat
    /\ SignOutcomes \subseteq BOOLEAN
    /\ MaxFinalized \in Nat

VARIABLES
    validators,           \* Engine.validators, a partial function
    attestations,         \* Engine.attestations, numbers to sequences
    broadcasts,           \* history: the attestations handed to Network.Broadcast
    attestationsCreated,  \* counter metrics.AttestationsCreated
    blocksFinalized,      \* counter metrics.BlocksFinalized
    counting              \* Engine.metrics # nil

conVars == <<validators, attestations, broadcasts, attestationsCreated,
             blocksFinalized, counting>>

\* The reputation manager knows the local validator (main registers it first).
ConInit ==
    /\ validators = <<>>
    /\ attestations = <<>>
    /\ broadcasts = <<>>
    /\ attestationsCreated = 0
    /\ blocksFinalized = 0
    /\ counting = FALSE
    /\ reps = [v \in {Local} |-> NewRep]
    /\ granted = [v \in Validator |-> 0]

\* main wires the metrics after the engines have been started.
SetMetrics ==
    /\ ~counting
    /\ counting' = TRUE
    /\ UNCHANGED <<validators, attestations, broadcasts, attestationsCreated,
                   blocksFinalized, repVars>>

VotePower(stake, score) == stake * (20000 + score)

(***************************************************************************)
(* RegisterValidator: voting power is derived from the sovereignty score   *)
(* at this moment; an earlier entry is overwritten.                        *)
(***************************************************************************)
RegisterValidator(v, stake, days, taste) ==
    /\ ComputeSovereignty(v, days, taste)
    /\ validators' =
          [u \in DOMAIN validators \cup {v} |->
              IF u = v
                 THEN [stake |-> stake, taste |-> taste, isActive |-> TRUE,
                       votePower |-> VotePower(stake,
                                        SovereigntyOf(v, days, taste))]
                 ELSE validators[u]]
    /\ UNCHANGED <<attestations, broadcasts, attestationsCreated, blocksFinalized,
                   counting>>

AttestationsOf(n) == IF n \in DOMAIN attestations THEN attestations[n] ELSE <<>>

\* An attestation of this node; when crypto.Sign failed its signature is nil.
Attestation(n, h, signed) ==
    [number |-> n, hash |-> h, validator |-> Local, signed |-> signed]

NoCredit == UNCHANGED repVars   \* mutation: no XP is recorded

\* The attestation is credited to the local validator.
Credit == RecordAttestation(Local)

\* AttestBlock signs, records, grants XP, broadcasts and counts.  Nothing looks
\* at an earlier attestation of the same number; a failed signature is recorded,
\* credited and broadcast like any other, and Broadcast's error is ignored.
AttestBlock(n, h) ==
    /\ \E signed \in SignOutcomes :
          /\ attestations' = [m \in DOMAIN attestations \cup {n} |->
                                 IF m = n
                                    THEN Append(AttestationsOf(n), Attestation(n, h, signed))
                                    ELSE attestations[m]]
          /\ broadcasts' = Append(broadcasts, Attestation(n, h, signed))
    /\ Credit
    /\ attestationsCreated' = attestationsCreated + (IF counting THEN 1 ELSE 0)
    /\ UNCHANGED <<validators, blocksFinalized, counting>>

-----------------------------------------------------------------------------

ActivePower(v) ==
    IF v \in DOMAIN validators /\ validators[v].isActive
       THEN validators[v].votePower ELSE 0

PowerOf(V) == SumFunctionOnSet([v \in V |-> ActivePower(v)], V)

\* attestedPower: one summand per attestation.
AttestedPower(n) ==
    SumFunctionOnSet([i \in 1 .. Len(AttestationsOf(n)) |->
                         ActivePower(AttestationsOf(n)[i].validator)],
                     1 .. Len(AttestationsOf(n)))

\* The value IsFinalized returns.
Finalized(n) ==
    /\ AttestationsOf(n) # <<>>
    /\ PowerOf(DOMAIN validators) # 0
    /\ 3 * AttestedPower(n) > 2 * PowerOf(DOMAIN validators)

\* IsFinalized counts every positive answer.
IsFinalized(n) ==
    /\ Finalized(n)
    /\ counting
    /\ blocksFinalized < MaxFinalized
    /\ blocksFinalized' = blocksFinalized + 1
    /\ UNCHANGED <<validators, attestations, broadcasts, attestationsCreated,
                   counting, repVars>>

-----------------------------------------------------------------------------

\* The engine's callers, and those of the reputation manager, in any order.
ConNext ==
    \/ SetMetrics
    \/ \E v \in Validator, s \in Stakes, d \in Days, t \in Tastes :
          RegisterValidator(v, s, d, t)
    \/ \E n \in Number, h \in Hash :
          /\ WithinBounds(Local)
          /\ AttestBlock(n, h)
    \/ \E n \in Number : IsFinalized(n)
    \/ /\ ApplyDecay \/ RepStep(Local) \/ \E v \in Validator : Register(v)
       /\ UNCHANGED conVars

ConSpec == ConInit /\ [][ConNext]_<<conVars, repVars>>

-----------------------------------------------------------------------------
(***************************************************************************)
(* Properties.                                                             *)
(***************************************************************************)

\* Maps hold what their keys say, and what the node recorded, broadcast and was
\* credited for never come apart: each attestation is in all three places, and
\* counted at most once.
ConTypeOK ==
    /\ DOMAIN validators \subseteq Validator
    /\ \A v \in DOMAIN validators : validators[v].stake \in Stakes
    /\ DOMAIN attestations \subseteq Number
    /\ \A n \in DOMAIN attestations :
          \A i \in 1 .. Len(attestations[n]) :
             /\ attestations[n][i].number = n
             /\ \E j \in 1 .. Len(broadcasts) : broadcasts[j] = attestations[n][i]
    /\ attestationsCreated <= Len(broadcasts)
    /\ blocksFinalized \in 0 .. MaxFinalized
    /\ Local \in DOMAIN reps => reps[Local].attested = Len(broadcasts)
    /\ SumFunctionOnSet([n \in DOMAIN attestations |-> Len(attestations[n])],
                        DOMAIN attestations) = Len(broadcasts)

=============================================================================
