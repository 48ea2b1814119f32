------------------------- MODULE ReputationManager --------------------------
(***************************************************************************)
(* The XP reputation manager (internal/reputation/manager.go).  Every      *)
(* operation runs under the manager's mutex, so each is one action.  The   *)
(* consensus engine calls it (ConsensusEngine), and so does its owner.     *)
(*                                                                         *)
(* Fractions are integers: the decay rate in thousandths, TasteScore in    *)
(* hundredths, scores in ten-thousandths (rounded down where the code      *)
(* keeps a float64).                                                       *)
(***************************************************************************)
EXTENDS Naturals

CONSTANTS
    Validator,        \* validator addresses
    MaxXP,            \* XPConfig
    AttestationXP,
    UptimeBonusXP,
    SlashPenaltyXP,
    DecayPermille,
    Days,             \* ages of a record at which its score is computed
    Tastes,           \* TasteScores passed to ComputeSovereignty
    MaxEvents,        \* bound: attestations, misses and slashes per validator
    MaxGranted        \* bound: XP granted per validator

ASSUME ReputationAssumption ==
    /\ MaxXP \in Nat \ {0}
    /\ AttestationXP \in Nat
    /\ UptimeBonusXP \in Nat
    /\ SlashPenaltyXP \in Nat
    /\ DecayPermille \in Nat
    /\ Days \subseteq Nat
    /\ Tastes \subseteq Nat

VARIABLES
    reps,    \* Manager.reps, a partial function from addresses to records
    granted  \* history: the XP ever granted to each validator

repVars == <<reps, granted>>

NewRep == [xp |-> 0, uptimeBps |-> 10000, attested |-> 0, missed |-> 0,
           slashes |-> 0, score |-> 0, tier |-> 0]

\* Register keeps an existing record.
Register(v) ==
    /\ reps' = [u \in DOMAIN reps \cup {v} |->
                   IF u \in DOMAIN reps THEN reps[u] ELSE NewRep]
    /\ UNCHANGED granted

-----------------------------------------------------------------------------

AddXPUncapped(rep, amount) ==   \* mutation: the cap is dropped
    [rep EXCEPT !.xp = @ + amount]

AddXPTwice(rep, amount) ==      \* mutation: the bonus is added twice
    [rep EXCEPT !.xp = IF @ + 2 * amount > MaxXP THEN MaxXP ELSE @ + 2 * amount]

AddXP(rep, amount) ==
    [rep EXCEPT !.xp = IF @ + amount > MaxXP THEN MaxXP ELSE @ + amount]

RemoveXP(rep, amount) ==
    [rep EXCEPT !.xp = IF amount >= @ THEN 0 ELSE @ - amount]

UptimeIgnoresMissed(rep) ==     \* mutation: the new miss is not in the total
    [rep EXCEPT !.uptimeBps =
        IF rep.attested + rep.missed = 1
           THEN 10000
           ELSE (rep.attested * 10000) \div (rep.attested + rep.missed - 1)]

UpdateUptime(rep) ==
    [rep EXCEPT !.uptimeBps =
        IF rep.attested + rep.missed = 0
           THEN 10000
           ELSE (rep.attested * 10000) \div (rep.attested + rep.missed)]

\* Operations on an unregistered validator return without effect.
Update(v, rep) ==
    reps' = IF v \in DOMAIN reps THEN [reps EXCEPT ![v] = rep] ELSE reps

Grant(v, amount) ==
    granted' = IF v \in DOMAIN reps
                  THEN [granted EXCEPT ![v] = @ + amount]
                  ELSE granted

RecordAttestation(v) ==
    /\ Update(v, AddXP([reps[v] EXCEPT !.attested = @ + 1], AttestationXP))
    /\ Grant(v, AttestationXP)

\* The only operation that refreshes UptimeBps.
RecordMissedBlock(v) ==
    /\ Update(v, UpdateUptime([reps[v] EXCEPT !.missed = @ + 1]))
    /\ UNCHANGED granted

RecordSlash(v) ==
    /\ Update(v, RemoveXP([reps[v] EXCEPT !.slashes = @ + 1], SlashPenaltyXP))
    /\ UNCHANGED granted

RecordUptimeCheck(v) ==
    /\ Update(v, AddXP(reps[v], UptimeBonusXP))
    /\ Grant(v, UptimeBonusXP)

-----------------------------------------------------------------------------

AtMost(n, bound) == IF n > bound THEN bound ELSE n

\* The weighted sum of ComputeSovereignty for a record, the days since it was
\* created and the TasteScore passed in.
Score(rep, days, taste) ==
    (4000 * AtMost(rep.xp, MaxXP)) \div MaxXP
        + (3000 * rep.uptimeBps) \div 10000
        + (2000 * AtMost(days, 365)) \div 365
        + (1000 * AtMost(taste, 100)) \div 100

ScoreTier(score) ==
    CASE score >= 8500 -> 4
      [] score >= 6500 -> 3
      [] score >= 4000 -> 2
      [] score >= 1500 -> 1
      [] OTHER -> 0

\* What ComputeSovereignty returns: 0 for an unregistered validator.
SovereigntyOf(v, days, taste) ==
    IF v \in DOMAIN reps THEN Score(reps[v], days, taste) ELSE 0

ComputeSovereignty(v, days, taste) ==
    /\ Update(v, [reps[v] EXCEPT !.score = Score(reps[v], days, taste),
                                 !.tier = ScoreTier(Score(reps[v], days, taste))])
    /\ UNCHANGED granted

Decay(xp) == AtMost((xp * DecayPermille) \div 1000, xp)

ApplyDecay ==
    /\ reps' = [v \in DOMAIN reps |-> [reps[v] EXCEPT !.xp = @ - Decay(@)]]
    /\ UNCHANGED granted

WithinBounds(v) ==
    v \in DOMAIN reps =>
        /\ reps[v].attested + reps[v].missed + reps[v].slashes < MaxEvents
        /\ granted[v] < MaxGranted

\* What its owner records about v; attestations come from AttestBlock.
RepStep(v) ==
    \/ WithinBounds(v) /\ RecordMissedBlock(v)
    \/ WithinBounds(v) /\ RecordSlash(v)
    \/ WithinBounds(v) /\ RecordUptimeCheck(v)
    \/ \E days \in Days, taste \in Tastes : ComputeSovereignty(v, days, taste)

-----------------------------------------------------------------------------
(***************************************************************************)
(* Properties.                                                             *)
(***************************************************************************)

Bps == 0 .. 10000   \* ten-thousandths

\* XP stays within [0, MaxXP], uptime within basis points, the score within 1.0
\* and the tier is that of the score, whatever the order of grants, penalties
\* and decay.
RepTypeOK ==
    /\ DOMAIN reps \subseteq Validator
    /\ granted \in [Validator -> Nat]
    /\ \A v \in DOMAIN reps :
          /\ reps[v].xp \in 0 .. MaxXP
          /\ reps[v].uptimeBps \in Bps
          /\ reps[v].attested \in Nat
          /\ reps[v].missed \in Nat
          /\ reps[v].slashes \in Nat
          /\ reps[v].score \in Bps
          /\ reps[v].tier = ScoreTier(reps[v].score)

\* The uptime a validator is shown with never exceeds the share of blocks it
\* attested, although only RecordMissedBlock refreshes it.
UptimeNeverOverstated ==
    \A v \in DOMAIN reps :
        LET total == reps[v].attested + reps[v].missed
        IN total > 0 => reps[v].uptimeBps * total <= reps[v].attested * 10000

\* No order of grants, capped grants, slashes and decays leaves a validator with
\* more XP than it was ever granted.
XPWithinGrants == \A v \in DOMAIN reps : reps[v].xp <= granted[v]

=============================================================================
