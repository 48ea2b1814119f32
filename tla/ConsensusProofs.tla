-------------------------- MODULE ConsensusProofs ---------------------------
(***************************************************************************)
(* Proofs about ConsensusEngine, the ReputationManager it calls and the    *)
(* signatures of AttestationSigning, for every set of validators, stakes,  *)
(* blocks and every XP configuration.                                      *)
(***************************************************************************)
EXTENDS AttestationSigning, DataTheorems

-----------------------------------------------------------------------------
(***************************************************************************)
(* Arithmetic.                                                             *)
(***************************************************************************)

\* Multiplying by a natural number keeps the order.
LEMMA TimesMonotone ==
    ASSUME NEW a \in Nat, NEW b \in Nat, NEW k \in Nat, a <= b
    PROVE  k * a <= k * b
OBVIOUS

\* A quotient times its divisor is at most the dividend.
LEMMA QuotientBound ==
    ASSUME NEW n \in Nat, NEW d \in Nat \ {0}
    PROVE  n \div d \in Nat /\ (n \div d) * d <= n
OBVIOUS

\* A share of k is at most k.
LEMMA ShareBound ==
    ASSUME NEW k \in Nat, NEW d \in Nat \ {0}, NEW n \in 0 .. d
    PROVE  (k * n) \div d \in 0 .. k
<1> DEFINE q == (k * n) \div d
<1>1. k * n \in Nat /\ k * n <= k * d
  BY TimesMonotone
<1>2. q \in Nat /\ q * d <= k * n
  BY <1>1, QuotientBound
<1> HIDE DEF q
<1>3. ASSUME q > k PROVE FALSE
  <2>1. k + 1 \in Nat /\ k + 1 <= q
    BY <1>2, <1>3
  <2>2. d * (k + 1) <= d * q
    BY <1>2, <2>1, TimesMonotone
  <2>3. d * (k + 1) = k * d + d /\ d * q = q * d
    BY <1>2
  <2>4. k * d \in Nat /\ q * d \in Nat
    BY <1>2
  <2> QED
    BY <1>1, <1>2, <2>2, <2>3, <2>4
<1> QED
  BY <1>2, <1>3 DEF q

-----------------------------------------------------------------------------
(***************************************************************************)
(* One reputation record.                                                  *)
(***************************************************************************)

Rep == [xp : 0 .. MaxXP, uptimeBps : Bps, attested : Nat, missed : Nat,
        slashes : Nat, score : Bps, tier : Nat]

\* An uptime of u basis points does not exceed a attested of a + m blocks.
NotOverstated(u, a, m) == a + m > 0 => u * (a + m) <= a * 10000

\* What every operation keeps of a record whose owner was granted g XP.
RepOK(r, g) ==
    /\ r \in Rep
    /\ r.tier = ScoreTier(r.score)
    /\ NotOverstated(r.uptimeBps, r.attested, r.missed)
    /\ r.xp <= g

\* An attestation raises the share of attested blocks.
LEMMA AttestationRaises ==
    ASSUME NEW u \in Bps, NEW a \in Nat, NEW m \in Nat, NotOverstated(u, a, m)
    PROVE  NotOverstated(u, a + 1, m)
<1>1. u * ((a + 1) + m) = u * (a + m) + u
  BY DEF Bps
<1>2. u * (a + m) <= a * 10000
  <2>1. CASE a + m > 0
    BY <2>1 DEF NotOverstated
  <2>2. CASE a = 0 /\ m = 0
    BY <2>2 DEF Bps
  <2> QED
    BY <2>1, <2>2
<1>3. u * (a + m) \in Nat
  BY DEF Bps
<1> QED
  BY <1>1, <1>2, <1>3 DEF NotOverstated, Bps

\* The uptime that UpdateUptime computes.
UptimeOf(a, m) == (a * 10000) \div (a + m)

LEMMA UptimeExact ==
    ASSUME NEW a \in Nat, NEW m \in Nat \ {0}
    PROVE  UptimeOf(a, m) \in Bps /\ NotOverstated(UptimeOf(a, m), a, m)
<1>1. a + m \in Nat \ {0} /\ a \in 0 .. a + m /\ a * 10000 = 10000 * a
  OBVIOUS
<1>2. UptimeOf(a, m) \in Bps
  BY <1>1, ShareBound DEF Bps, UptimeOf
<1> DEFINE n == a * 10000
           t == a + m
<1>3. n \in Nat /\ t \in Nat \ {0}
  OBVIOUS
<1>4. (n \div t) * t <= n
  <2> HIDE DEF n, t
  <2> QED
    BY <1>3, QuotientBound
<1> QED
  BY <1>2, <1>4 DEF NotOverstated, UptimeOf

\* The score is a share of 1.0, with weights that add up to it.
LEMMA ScoreBound ==
    ASSUME NEW r \in Rep, NEW days \in Nat, NEW taste \in Nat
    PROVE  Score(r, days, taste) \in Bps
<1> DEFINE A == (4000 * AtMost(r.xp, MaxXP)) \div MaxXP
           B == (3000 * r.uptimeBps) \div 10000
           C == (2000 * AtMost(days, 365)) \div 365
           D == (1000 * AtMost(taste, 100)) \div 100
<1>1. MaxXP \in Nat \ {0} /\ AtMost(r.xp, MaxXP) \in 0 .. MaxXP
  BY ReputationAssumption DEF Rep, AtMost
<1>2. AtMost(days, 365) \in 0 .. 365 /\ AtMost(taste, 100) \in 0 .. 100
  BY DEF AtMost
<1>3. r.uptimeBps \in Bps
  BY DEF Rep
<1>4. A \in 0 .. 4000
  <2>1. PICK k \in Nat : k = 4000
    OBVIOUS
  <2>2. PICK n \in 0 .. MaxXP : n = AtMost(r.xp, MaxXP)
    BY <1>1
  <2>3. (k * n) \div MaxXP \in 0 .. k
    BY <1>1, ShareBound
  <2>4. A = (k * n) \div MaxXP
    BY <2>1, <2>2, SMTT(30)
  <2> HIDE DEF A
  <2> QED
    BY <2>1, <2>3, <2>4
<1>5. B \in 0 .. 3000
  <2>1. PICK u \in Bps : u = r.uptimeBps
    BY <1>3
  <2>2. (3000 * u) \div 10000 \in 0 .. 3000
    BY DEF Bps
  <2> QED
    BY <2>1, <2>2
<1>6. C \in 0 .. 2000
  BY <1>2
<1>7. D \in 0 .. 1000
  BY <1>2
<1>8. Score(r, days, taste) = A + B + C + D
  BY DEF Score
<1> HIDE DEF A, B, C, D
<1> QED
  BY <1>4, <1>5, <1>6, <1>7, <1>8 DEF Bps

LEMMA TierTyped == ASSUME NEW n \in Nat PROVE ScoreTier(n) \in Nat
BY DEF ScoreTier

\* A record stays sound when only its XP changes, within the bounds.
LEMMA NewXPOK ==
    ASSUME NEW g, NEW r, RepOK(r, g), NEW h, NEW n \in 0 .. MaxXP, n <= h
    PROVE  RepOK([r EXCEPT !.xp = n], h)
<1> DEFINE q == [r EXCEPT !.xp = n]
<1>1. r \in Rep
  BY DEF RepOK
<1>2. q \in Rep
  BY <1>1 DEF Rep
<1>3. /\ q.xp = n
      /\ q.uptimeBps = r.uptimeBps /\ q.attested = r.attested /\ q.missed = r.missed
      /\ q.score = r.score /\ q.tier = r.tier
  BY <1>1 DEF Rep
<1> HIDE DEF q
<1>4. RepOK(q, h)
  BY <1>2, <1>3, Zenon DEF RepOK
<1> QED
  BY <1>4 DEF q

\* Granting XP keeps a record, with the grant counted.
LEMMA AddXPOK ==
    ASSUME NEW g \in Nat, NEW r, RepOK(r, g), NEW x \in Nat
    PROVE  RepOK(AddXP(r, x), g + x)
<1> DEFINE n == IF r.xp + x > MaxXP THEN MaxXP ELSE r.xp + x
<1>1. r \in Rep
  BY DEF RepOK
<1>2. n \in 0 .. MaxXP /\ n <= g + x
  BY <1>1, ReputationAssumption DEF RepOK, Rep
<1>3. AddXP(r, x) = [r EXCEPT !.xp = n]
  BY DEF AddXP
<1> HIDE DEF n
<1> QED
  BY <1>2, <1>3, NewXPOK, Zenon

\* Taking XP away keeps a record.
LEMMA RemoveXPOK ==
    ASSUME NEW g \in Nat, NEW r, RepOK(r, g), NEW x \in Nat
    PROVE  RepOK(RemoveXP(r, x), g)
<1> DEFINE n == IF x >= r.xp THEN 0 ELSE r.xp - x
<1>1. r \in Rep
  BY DEF RepOK
<1>2. n \in 0 .. MaxXP /\ n <= g
  BY <1>1, ReputationAssumption DEF RepOK, Rep
<1>3. RemoveXP(r, x) = [r EXCEPT !.xp = n]
  BY DEF RemoveXP
<1> HIDE DEF n
<1> QED
  BY <1>2, <1>3, NewXPOK, Zenon

\* XP decay keeps a record.
LEMMA DecayOK ==
    ASSUME NEW g \in Nat, NEW r, RepOK(r, g)
    PROVE  RepOK([r EXCEPT !.xp = @ - Decay(@)], g)
<1>1. r.xp \in 0 .. MaxXP /\ r.xp <= g
  BY DEF RepOK, Rep
<1>2. PICK d \in Nat : d = (r.xp * DecayPermille) \div 1000
  <2>1. r.xp * DecayPermille \in Nat
    BY <1>1, ReputationAssumption
  <2> QED
    BY <2>1
<1>3. Decay(r.xp) \in 0 .. r.xp
  BY <1>1, <1>2 DEF Decay, AtMost
<1> DEFINE n == r.xp - Decay(r.xp)
<1>4. n \in 0 .. MaxXP /\ n <= g
  BY <1>1, <1>3, ReputationAssumption
<1> HIDE DEF n
<1>5. RepOK([r EXCEPT !.xp = n], g)
  BY <1>4, NewXPOK, Zenon
<1> QED
  BY <1>5 DEF n

\* Counting an attestation keeps a record.
LEMMA AttestedOK ==
    ASSUME NEW g, NEW r, RepOK(r, g)
    PROVE  RepOK([r EXCEPT !.attested = @ + 1], g)
<1> DEFINE n == r.attested + 1
           q == [r EXCEPT !.attested = n]
<1>1. r \in Rep
  BY DEF RepOK
<1>2. r.uptimeBps \in Bps /\ r.attested \in Nat /\ r.missed \in Nat
  BY <1>1 DEF Rep
<1>3. n \in Nat
  BY <1>2
<1>4. NotOverstated(r.uptimeBps, n, r.missed)
  BY <1>2, AttestationRaises, Zenon DEF RepOK
<1> HIDE DEF n
<1>5. q \in Rep
  BY <1>1, <1>3 DEF Rep
<1>6. /\ q.attested = n /\ q.uptimeBps = r.uptimeBps /\ q.missed = r.missed
      /\ q.xp = r.xp /\ q.score = r.score /\ q.tier = r.tier
  BY <1>1 DEF Rep
<1> HIDE DEF q
<1>7. RepOK(q, g)
  BY <1>4, <1>5, <1>6, Zenon DEF RepOK
<1> QED
  BY <1>7 DEF q, n

\* Counting a missed block and refreshing the uptime keeps a record.
LEMMA MissedOK ==
    ASSUME NEW g, NEW r, RepOK(r, g)
    PROVE  /\ RepOK(UpdateUptime([r EXCEPT !.missed = @ + 1]), g)
           /\ UpdateUptime([r EXCEPT !.missed = @ + 1]).attested = r.attested
<1> DEFINE n == r.missed + 1
           p == [r EXCEPT !.missed = n]
           u == UptimeOf(p.attested, p.missed)
           q == [p EXCEPT !.uptimeBps = u]
<1>1. r \in Rep
  BY DEF RepOK
<1>2. n \in Nat \ {0}
  BY <1>1 DEF Rep
<1> HIDE DEF n
<1>3. p \in Rep
  BY <1>1, <1>2 DEF Rep
<1>4. /\ p.missed = n /\ p.attested = r.attested
      /\ p.xp = r.xp /\ p.score = r.score /\ p.tier = r.tier
  BY <1>1 DEF Rep
<1>5. p.attested \in Nat /\ p.missed \in Nat \ {0}
  BY <1>1, <1>2, <1>4 DEF Rep
<1> HIDE DEF p
<1>6. u \in Bps /\ NotOverstated(u, p.attested, p.missed)
  BY <1>5, UptimeExact, Zenon
<1>7. UpdateUptime(p) = q
  BY <1>5 DEF UpdateUptime, UptimeOf
<1> HIDE DEF u
<1>8. q \in Rep
  BY <1>3, <1>6 DEF Rep
<1>9. /\ q.uptimeBps = u /\ q.missed = p.missed /\ q.attested = p.attested
      /\ q.xp = p.xp /\ q.score = p.score /\ q.tier = p.tier
  BY <1>3 DEF Rep
<1> HIDE DEF q
<1>10. NotOverstated(u, p.attested, p.missed)
  BY <1>6
<1>11. RepOK(q, g)
  BY <1>4, <1>8, <1>9, <1>10, Zenon DEF RepOK
<1> QED
  BY <1>4, <1>7, <1>9, <1>11 DEF p, n

\* Counting a slash keeps a record.
LEMMA SlashedOK ==
    ASSUME NEW g, NEW r, RepOK(r, g)
    PROVE  RepOK([r EXCEPT !.slashes = @ + 1], g)
<1> DEFINE n == r.slashes + 1
           q == [r EXCEPT !.slashes = n]
<1>1. r \in Rep
  BY DEF RepOK
<1>2. n \in Nat
  BY <1>1 DEF Rep
<1> HIDE DEF n
<1>3. q \in Rep
  BY <1>1, <1>2 DEF Rep
<1>4. /\ q.attested = r.attested /\ q.uptimeBps = r.uptimeBps /\ q.missed = r.missed
      /\ q.xp = r.xp /\ q.score = r.score /\ q.tier = r.tier
  BY <1>1 DEF Rep
<1> HIDE DEF q
<1>5. RepOK(q, g)
  BY <1>3, <1>4, Zenon DEF RepOK
<1> QED
  BY <1>5 DEF q, n

\* Storing a score with its tier keeps a record.
LEMMA ScoredOK ==
    ASSUME NEW g, NEW r, RepOK(r, g), NEW n, n \in Bps
    PROVE  RepOK([r EXCEPT !.score = n, !.tier = ScoreTier(n)], g)
<1> DEFINE t == ScoreTier(n)
           q == [r EXCEPT !.score = n, !.tier = t]
<1>1. r \in Rep
  BY DEF RepOK
<1>2. t \in Nat
  <2>1. n \in Nat
    BY DEF Bps
  <2> QED
    BY <2>1, TierTyped
<1> HIDE DEF t
<1>3. q \in Rep
  BY <1>1, <1>2 DEF Rep
<1>4. /\ q.attested = r.attested /\ q.uptimeBps = r.uptimeBps /\ q.missed = r.missed
      /\ q.xp = r.xp /\ q.score = n /\ q.tier = t
  BY <1>1 DEF Rep
<1>5. q.tier = ScoreTier(q.score)
  BY <1>4 DEF t
<1> HIDE DEF q
<1>6. /\ NotOverstated(q.uptimeBps, q.attested, q.missed)
      /\ q.xp <= g
  BY <1>4, RepOK(r, g) DEF RepOK
<1>7. RepOK(q, g)
  BY <1>3, <1>5, <1>6 DEF RepOK
<1> QED
  BY <1>7 DEF q, t

LEMMA NewRepOK == ASSUME NEW g \in Nat PROVE RepOK(NewRep, g)
<1>1. NewRep \in Rep
  BY ReputationAssumption DEF NewRep, Rep, Bps
<1>2. NewRep.tier = ScoreTier(NewRep.score)
  BY DEF NewRep, ScoreTier
<1>3. NotOverstated(NewRep.uptimeBps, NewRep.attested, NewRep.missed)
  BY DEF NewRep, NotOverstated
<1>4. NewRep.xp <= g
  BY DEF NewRep
<1> QED
  BY <1>1, <1>2, <1>3, <1>4, Zenon DEF RepOK

-----------------------------------------------------------------------------
(***************************************************************************)
(* The reputation manager.                                                 *)
(***************************************************************************)

\* The inductive invariant of the reputation manager.
RepsInv ==
    /\ DOMAIN reps \subseteq Validator
    /\ reps = [v \in DOMAIN reps |-> reps[v]]
    /\ granted \in [Validator -> Nat]
    /\ \A v \in DOMAIN reps : RepOK(reps[v], granted[v])

\* No record is lost and no count of attestations changes.
SameAttested ==
    \A u \in DOMAIN reps : u \in DOMAIN reps' /\ reps'[u].attested = reps[u].attested

\* An operation on one validator that keeps its record keeps the invariant.
LEMMA UpdateKeeps ==
    ASSUME RepsInv, NEW v \in Validator, NEW r, Update(v, r), NEW g \in Nat,
           granted' = IF v \in DOMAIN reps THEN [granted EXCEPT ![v] = g] ELSE granted,
           v \in DOMAIN reps => RepOK(r, g)
    PROVE  RepsInv'
<1>1. CASE v \notin DOMAIN reps
  <2>1. UNCHANGED <<reps, granted>>
    BY <1>1 DEF Update
  <2> QED
    BY <2>1 DEF RepsInv
<1>2. CASE v \in DOMAIN reps
  <2>1. reps' = [reps EXCEPT ![v] = r] /\ granted' = [granted EXCEPT ![v] = g]
    BY <1>2 DEF Update
  <2>2. DOMAIN reps' = DOMAIN reps
    BY <2>1 DEF RepsInv
  <2>3. granted' \in [Validator -> Nat]
    BY <2>1 DEF RepsInv
  <2>4. ASSUME NEW u \in DOMAIN reps' PROVE RepOK(reps'[u], granted'[u])
    <3>1. CASE u = v
      <4>1. reps'[u] = r /\ granted'[u] = g
        BY <1>2, <2>1, <3>1 DEF RepsInv
      <4> QED
        BY <1>2, <4>1
    <3>2. CASE u # v
      <4>1. reps'[u] = reps[u] /\ granted'[u] = granted[u]
        BY <2>1, <2>2, <3>2 DEF RepsInv
      <4> QED
        BY <2>2, <4>1 DEF RepsInv
    <3> QED
      BY <3>1, <3>2
  <2>5. reps' = [u \in DOMAIN reps' |-> reps'[u]]
    BY <2>1 DEF RepsInv
  <2> QED
    BY <2>2, <2>3, <2>4, <2>5 DEF RepsInv
<1> QED
  BY <1>1, <1>2

\* The same without a grant.
LEMMA UpdateKeepsGranted ==
    ASSUME RepsInv, NEW v \in Validator, NEW r, Update(v, r), UNCHANGED granted,
           v \in DOMAIN reps => RepOK(r, granted[v])
    PROVE  RepsInv'
<1>1. granted[v] \in Nat /\ granted = [granted EXCEPT ![v] = granted[v]]
  BY DEF RepsInv
<1> QED
  BY <1>1, UpdateKeeps

\* An update that keeps the count of attestations.
LEMMA UpdateSame ==
    ASSUME NEW v \in Validator, NEW r, Update(v, r),
           v \in DOMAIN reps => r.attested = reps[v].attested
    PROVE  SameAttested
BY DEF Update, SameAttested

\* Register keeps the invariant, and old records as they are.
LEMMA RegisterKeeps ==
    ASSUME RepsInv, NEW v \in Validator, Register(v)
    PROVE  RepsInv' /\ SameAttested
<1>1. /\ DOMAIN reps' = DOMAIN reps \cup {v}
      /\ \A u \in DOMAIN reps' : reps'[u] = IF u \in DOMAIN reps THEN reps[u] ELSE NewRep
      /\ reps' = [u \in DOMAIN reps' |-> reps'[u]]
      /\ granted' = granted
  BY DEF Register
<1>2. ASSUME NEW u \in DOMAIN reps' PROVE RepOK(reps'[u], granted'[u])
  <2>1. CASE u \in DOMAIN reps
    BY <1>1, <2>1 DEF RepsInv
  <2>2. CASE u \notin DOMAIN reps
    <3>1. granted[u] \in Nat /\ reps'[u] = NewRep
      BY <1>1, <2>2 DEF RepsInv
    <3> QED
      BY <1>1, <3>1, NewRepOK
  <2> QED
    BY <2>1, <2>2
<1> QED
  BY <1>1, <1>2 DEF RepsInv, SameAttested

\* Decay keeps the invariant.
LEMMA ApplyDecayKeeps ==
    ASSUME RepsInv, ApplyDecay
    PROVE  RepsInv' /\ SameAttested
<1>1. /\ DOMAIN reps' = DOMAIN reps
      /\ \A u \in DOMAIN reps' : reps'[u] = [reps[u] EXCEPT !.xp = @ - Decay(@)]
      /\ reps' = [u \in DOMAIN reps' |-> reps'[u]]
      /\ granted' = granted
  BY DEF ApplyDecay
<1>2. ASSUME NEW u \in DOMAIN reps'
      PROVE  RepOK(reps'[u], granted'[u]) /\ reps'[u].attested = reps[u].attested
  <2>1. RepOK(reps[u], granted[u]) /\ granted[u] \in Nat
    BY <1>1, <1>2 DEF RepsInv
  <2>2. RepOK([reps[u] EXCEPT !.xp = @ - Decay(@)], granted[u])
    BY <2>1, DecayOK
  <2>3. reps'[u].attested = reps[u].attested
    BY <1>1, <2>1 DEF RepOK, Rep
  <2> QED
    BY <1>1, <2>2, <2>3
<1> QED
  BY <1>1, <1>2 DEF RepsInv, SameAttested

\* Neither adding nor removing XP touches the count of attestations.
LEMMA XPKeepsAttested ==
    ASSUME NEW r \in Rep, NEW x
    PROVE  AddXP(r, x).attested = r.attested /\ RemoveXP(r, x).attested = r.attested
BY DEF AddXP, RemoveXP, Rep

\* Computing the sovereignty score keeps the invariant.
LEMMA SovereigntyKeeps ==
    ASSUME RepsInv, NEW v \in Validator, NEW days \in Days, NEW taste \in Tastes,
           ComputeSovereignty(v, days, taste)
    PROVE  RepsInv' /\ SameAttested
<1> DEFINE n == Score(reps[v], days, taste)
           r == [reps[v] EXCEPT !.score = n, !.tier = ScoreTier(n)]
<1>1. Update(v, r) /\ UNCHANGED granted
  BY DEF ComputeSovereignty
<1>2. ASSUME v \in DOMAIN reps
      PROVE  RepOK(r, granted[v]) /\ r.attested = reps[v].attested
  <2>1. RepOK(reps[v], granted[v]) /\ reps[v] \in Rep
    BY <1>2 DEF RepsInv, RepOK
  <2>2. days \in Nat /\ taste \in Nat
    BY ReputationAssumption
  <2>3. n \in Bps
    BY <2>1, <2>2, ScoreBound
  <2> HIDE DEF n
  <2>4. RepOK(r, granted[v])
    BY <2>1, <2>3, ScoredOK, Zenon
  <2>5. r.attested = reps[v].attested
    BY <2>1 DEF Rep
  <2> QED
    BY <2>4, <2>5
<1> HIDE DEF r
<1> QED
  BY <1>1, <1>2, UpdateKeepsGranted, UpdateSame

\* What the owner of the manager records keeps the invariant.
LEMMA RepStepKeeps ==
    ASSUME RepsInv, NEW v \in Validator, RepStep(v)
    PROVE  RepsInv' /\ SameAttested
<1>0. ASSUME v \in DOMAIN reps
      PROVE  RepOK(reps[v], granted[v]) /\ reps[v] \in Rep /\ granted[v] \in Nat
  BY <1>0 DEF RepsInv, RepOK
<1>1. CASE RecordMissedBlock(v)
  <2> DEFINE r == UpdateUptime([reps[v] EXCEPT !.missed = @ + 1])
  <2>1. Update(v, r) /\ UNCHANGED granted
    BY <1>1 DEF RecordMissedBlock
  <2>2. ASSUME v \in DOMAIN reps
        PROVE  RepOK(r, granted[v]) /\ r.attested = reps[v].attested
    BY <1>0, <2>2, MissedOK
  <2> HIDE DEF r
  <2> QED
    BY <2>1, <2>2, UpdateKeepsGranted, UpdateSame
<1>2. CASE RecordSlash(v)
  <2> DEFINE p == [reps[v] EXCEPT !.slashes = @ + 1]
             r == RemoveXP(p, SlashPenaltyXP)
  <2>1. Update(v, r) /\ UNCHANGED granted
    BY <1>2 DEF RecordSlash
  <2>2. ASSUME v \in DOMAIN reps
        PROVE  RepOK(r, granted[v]) /\ r.attested = reps[v].attested
    <3>1. RepOK(p, granted[v])
      BY <1>0, <2>2, SlashedOK
    <3>2. p.attested = reps[v].attested
      BY <1>0, <2>2 DEF Rep
    <3>3. p \in Rep
      BY <3>1 DEF RepOK
    <3> HIDE DEF p
    <3>4. SlashPenaltyXP \in Nat
      BY ReputationAssumption
    <3>5. RepOK(r, granted[v])
      BY <1>0, <2>2, <3>1, <3>4, RemoveXPOK
    <3>6. r.attested = p.attested
      BY <3>3, XPKeepsAttested
    <3> QED
      BY <3>2, <3>5, <3>6
  <2> HIDE DEF r
  <2> QED
    BY <2>1, <2>2, UpdateKeepsGranted, UpdateSame
<1>3. CASE RecordUptimeCheck(v)
  <2> DEFINE r == AddXP(reps[v], UptimeBonusXP)
             g == granted[v] + UptimeBonusXP
  <2>1. /\ Update(v, r)
        /\ granted' = IF v \in DOMAIN reps THEN [granted EXCEPT ![v] = g] ELSE granted
    BY <1>3 DEF RecordUptimeCheck, Grant
  <2>2. UptimeBonusXP \in Nat /\ g \in Nat
    BY ReputationAssumption DEF RepsInv
  <2>3. ASSUME v \in DOMAIN reps
        PROVE  RepOK(r, g) /\ r.attested = reps[v].attested
    BY <1>0, <2>2, <2>3, AddXPOK, XPKeepsAttested
  <2> HIDE DEF r, g
  <2>4. RepsInv'
    BY <2>1, <2>2, <2>3, UpdateKeeps
  <2>5. SameAttested
    BY <2>1, <2>3, UpdateSame
  <2> QED
    BY <2>4, <2>5
<1>4. CASE \E days \in Days, taste \in Tastes : ComputeSovereignty(v, days, taste)
  BY <1>4, SovereigntyKeeps
<1> QED
  BY <1>1, <1>2, <1>3, <1>4 DEF RepStep

\* Crediting an attestation counts it once.
LEMMA CreditKeeps ==
    ASSUME RepsInv, Local \in DOMAIN reps, Credit
    PROVE  /\ RepsInv'
           /\ Local \in DOMAIN reps'
           /\ reps'[Local].attested = reps[Local].attested + 1
<1> DEFINE p == [reps[Local] EXCEPT !.attested = @ + 1]
           r == AddXP(p, AttestationXP)
           g == granted[Local] + AttestationXP
<1>1. /\ Update(Local, r)
      /\ granted' = IF Local \in DOMAIN reps THEN [granted EXCEPT ![Local] = g] ELSE granted
  BY DEF Credit, RecordAttestation, Grant
<1>2. Local \in Validator /\ granted[Local] \in Nat /\ AttestationXP \in Nat
  BY ConsensusAssumption, ReputationAssumption DEF RepsInv
<1>3. g \in Nat
  BY <1>2
<1>4. RepOK(p, granted[Local])
  BY AttestedOK DEF RepsInv
<1>5. p.attested = reps[Local].attested + 1
  <2>1. reps[Local] \in Rep
    BY DEF RepsInv, RepOK
  <2> QED
    BY <2>1 DEF Rep
<1>6. p \in Rep
  BY <1>4 DEF RepOK
<1> HIDE DEF p
<1>7. RepOK(r, g)
  BY <1>2, <1>4, AddXPOK
<1>8. r.attested = p.attested
  BY <1>6, XPKeepsAttested
<1> HIDE DEF r, g
<1>9. RepsInv'
  BY <1>1, <1>2, <1>3, <1>7, UpdateKeeps
<1>10. Local \in DOMAIN reps' /\ reps'[Local] = r
  BY <1>1 DEF Update
<1> QED
  BY <1>5, <1>8, <1>9, <1>10

-----------------------------------------------------------------------------
(***************************************************************************)
(* The consensus engine.                                                   *)
(***************************************************************************)

\* What the node signs.
Signed == [number : Number, hash : Hash, validator : {Local}, signed : BOOLEAN]

\* The attestations of a number bear it and were broadcast.
Backing(n) ==
    /\ attestations[n] \in Seq(Signed)
    /\ \A i \in 1 .. Len(attestations[n]) :
          /\ attestations[n][i].number = n
          /\ \E j \in 1 .. Len(broadcasts) : broadcasts[j] = attestations[n][i]

\* How many attestations are recorded.
Recorded ==
    SumFunctionOnSet([n \in DOMAIN attestations |-> Len(attestations[n])],
                     DOMAIN attestations)

\* The validator set.
ValidatorsInv ==
    /\ DOMAIN validators \subseteq Validator
    /\ \A v \in DOMAIN validators :
          validators[v].stake \in Stakes /\ validators[v].votePower \in Nat

\* The attestations of the node.
AttestedInv ==
    /\ broadcasts \in Seq(Signed)
    /\ IsFiniteSet(DOMAIN attestations)
    /\ DOMAIN attestations \subseteq Number
    /\ \A n \in DOMAIN attestations : Backing(n)
    /\ Recorded = Len(broadcasts)

\* The counters, and the record of the local validator.
CountersInv ==
    /\ attestationsCreated \in Nat
    /\ attestationsCreated <= Len(broadcasts)
    /\ blocksFinalized \in 0 .. MaxFinalized
    /\ Local \in DOMAIN reps
    /\ reps[Local].attested = Len(broadcasts)

\* The inductive invariant of the consensus engine.
ConInv == RepsInv /\ ValidatorsInv /\ AttestedInv /\ CountersInv

\* Voting power is a natural number.
LEMMA VotePowerTyped ==
    ASSUME RepsInv, NEW v \in Validator, NEW stake \in Stakes,
           NEW days \in Days, NEW taste \in Tastes
    PROVE  VotePower(stake, SovereigntyOf(v, days, taste)) \in Nat
<1>1. SovereigntyOf(v, days, taste) \in Nat
  <2>1. days \in Nat /\ taste \in Nat
    BY ReputationAssumption
  <2>2. CASE v \in DOMAIN reps
    <3>1. reps[v] \in Rep
      BY <2>2 DEF RepsInv, RepOK
    <3>2. Score(reps[v], days, taste) \in Bps
      BY <2>1, <3>1, ScoreBound
    <3>3. Bps \subseteq Nat
      BY DEF Bps
    <3> QED
      BY <2>2, <3>2, <3>3 DEF SovereigntyOf
  <2>3. CASE v \notin DOMAIN reps
    BY <2>3 DEF SovereigntyOf
  <2> QED
    BY <2>2, <2>3
<1>2. stake \in Nat
  BY ConsensusAssumption
<1> HIDE DEF SovereigntyOf
<1> QED
  BY <1>1, <1>2 DEF VotePower

\* An attestation is appended to those of its number and broadcast, however many
\* the number has already.
LEMMA AttestKeeps ==
    ASSUME ConInv, NEW n \in Number, NEW h \in Hash, AttestBlock(n, h)
    PROVE  AttestedInv'
<1> DEFINE D == DOMAIN attestations
           old == AttestationsOf(n)
<1>1. PICK signed \in SignOutcomes :
         /\ attestations' = [m \in D \cup {n} |->
                                IF m = n THEN Append(old, Attestation(n, h, signed))
                                         ELSE attestations[m]]
         /\ broadcasts' = Append(broadcasts, Attestation(n, h, signed))
  BY DEF AttestBlock
<1> DEFINE b == Attestation(n, h, signed)
<1>2. b \in Signed /\ b.number = n
  BY ConsensusAssumption DEF Attestation, Signed
<1> HIDE DEF b
<1>3. /\ DOMAIN attestations' = D \cup {n}
      /\ \A m \in D \ {n} : attestations'[m] = attestations[m]
      /\ attestations'[n] = Append(old, b)
      /\ broadcasts' = Append(broadcasts, b)
      /\ broadcasts \in Seq(Signed)
  BY <1>1 DEF b, ConInv, AttestedInv
<1>4. /\ broadcasts' \in Seq(Signed) /\ Len(broadcasts') = Len(broadcasts) + 1
      /\ broadcasts'[Len(broadcasts) + 1] = b
      /\ \A j \in 1 .. Len(broadcasts) : broadcasts'[j] = broadcasts[j]
  BY <1>2, <1>3
<1>5. /\ old \in Seq(Signed)
      /\ \A i \in 1 .. Len(old) :
            old[i].number = n /\ \E j \in 1 .. Len(broadcasts) : broadcasts[j] = old[i]
  <2>1. CASE n \in D
    <3>1. old = attestations[n]
      BY <2>1 DEF AttestationsOf
    <3>2. Backing(n)
      BY <2>1 DEF ConInv, AttestedInv
    <3> QED
      BY <3>1, <3>2 DEF Backing
  <2>2. CASE n \notin D
    <3>1. old = <<>>
      BY <2>2 DEF AttestationsOf
    <3> QED
      BY <3>1
  <2> QED
    BY <2>1, <2>2
<1>6. PICK s \in Seq(Signed) : s = old
  BY <1>5
<1>7. /\ Append(s, b) \in Seq(Signed) /\ Len(Append(s, b)) = Len(s) + 1
      /\ Append(s, b)[Len(s) + 1] = b
      /\ \A i \in 1 .. Len(s) : Append(s, b)[i] = s[i]
  BY <1>2
<1> HIDE DEF old
<1>8. ASSUME NEW m \in D \cup {n} PROVE Backing(m)'
  <2>1. CASE m = n
    <3>1. ASSUME NEW i \in 1 .. Len(s) + 1
          PROVE  /\ Append(s, b)[i].number = n
                 /\ \E j \in 1 .. Len(broadcasts') : broadcasts'[j] = Append(s, b)[i]
      <4>1. CASE i = Len(s) + 1
        <5>1. Len(broadcasts) + 1 \in 1 .. Len(broadcasts')
          BY <1>3, <1>4
        <5> QED
          BY <4>1, <5>1, <1>2, <1>4, <1>7
      <4>2. CASE i \in 1 .. Len(s)
        <5>1. PICK j \in 1 .. Len(broadcasts) : broadcasts[j] = s[i]
          BY <4>2, <1>5, <1>6
        <5>2. j \in 1 .. Len(broadcasts') /\ broadcasts'[j] = s[i]
          BY <5>1, <1>3, <1>4
        <5> QED
          BY <4>2, <5>2, <1>5, <1>6, <1>7
      <4> QED
        BY <4>1, <4>2
    <3>2. attestations'[m] = Append(s, b)
      BY <1>3, <1>6, <2>1
    <3> QED
      BY <2>1, <3>1, <3>2, <1>7 DEF Backing
  <2>2. CASE m # n
    <3>1. m \in D /\ attestations'[m] = attestations[m]
      BY <1>3, <2>2
    <3>2. Backing(m)
      BY <3>1 DEF ConInv, AttestedInv
    <3>3. \A j \in 1 .. Len(broadcasts) : j \in 1 .. Len(broadcasts')
      BY <1>3, <1>4
    <3> QED
      BY <1>4, <3>1, <3>2, <3>3 DEF Backing
  <2> QED
    BY <2>1, <2>2
<1>9. Recorded' = Len(broadcasts')
  <2> DEFINE f == [m \in D |-> Len(attestations[m])]
             g == [m \in D \cup {n} |-> Len(attestations'[m])]
             E == D \ {n}
  <2>1. IsFiniteSet(D) /\ SumFunctionOnSet(f, D) = Len(broadcasts)
    BY DEF ConInv, AttestedInv, Recorded
  <2>2. IsFiniteSet(E) /\ n \notin E /\ E \subseteq D /\ E \cup {n} = D \cup {n}
    BY <2>1, FS_Subset
  <2>3. \A m \in E : f[m] = g[m]
    BY <1>3
  <2>4. \A m \in D : f[m] \in Int
    BY DEF ConInv, AttestedInv, Backing
  <2>5. g[n] = Len(s) + 1 /\ Len(s) \in Nat
    BY <1>3, <1>6, <1>7
  <2>6. (n \in D => f[n] = Len(s)) /\ (n \notin D => Len(s) = 0)
    BY <1>6 DEF old, AttestationsOf
  <2>7. Recorded' = SumFunctionOnSet(g, D \cup {n})
    BY <1>3 DEF Recorded
  <2> HIDE DEF f, g, D
  <2>8. \A m \in E \cup {n} : g[m] \in Int
    BY <2>2, <2>3, <2>4, <2>5
  <2> HIDE DEF E
  <2>9. SumFunctionOnSet(g, E \cup {n}) = SumFunctionOnSet(g, E) + g[n]
    BY <2>2, <2>8, SumAddElement
  <2>10. SumFunctionOnSet(f, E) = SumFunctionOnSet(g, E)
    BY <2>2, <2>3, SumAgree
  <2>11. SumFunctionOnSet(f, E) \in Int
    BY <2>2, <2>4, SumType
  <2>12. SumFunctionOnSet(f, D) = SumFunctionOnSet(f, E) + Len(s)
    <3>1. CASE n \in D
      <4>1. SumFunctionOnSet(f, E \cup {n}) = SumFunctionOnSet(f, E) + f[n]
        <5>1. \A m \in E \cup {n} : f[m] \in Int
          BY <2>2, <2>4, <3>1
        <5> QED
          BY <2>2, <5>1, SumAddElement
      <4>2. E \cup {n} = D
        BY <2>2, <3>1
      <4> QED
        BY <2>6, <3>1, <4>1, <4>2
    <3>2. CASE n \notin D
      <4>1. E = D
        BY <3>2 DEF E
      <4> QED
        BY <2>6, <2>11, <3>2, <4>1
    <3> QED
      BY <3>1, <3>2
  <2>13. PICK x \in Int, k \in Nat, len \in Nat :
            x = SumFunctionOnSet(f, E) /\ k = Len(s) /\ len = Len(broadcasts)
    BY <1>3, <2>5, <2>11
  <2>14. Recorded' = x + (k + 1)
    BY <2>2, <2>5, <2>7, <2>9, <2>10, <2>13
  <2>15. len = x + k
    BY <2>1, <2>12, <2>13
  <2>16. Len(broadcasts') = len + 1
    BY <1>4, <2>13
  <2> QED
    BY <2>13, <2>14, <2>15, <2>16
<1>10. IsFiniteSet(DOMAIN attestations')
  BY <1>3, FS_AddElement DEF ConInv, AttestedInv
<1>11. DOMAIN attestations' \subseteq Number
  BY <1>3 DEF ConInv, AttestedInv
<1> QED
  BY <1>3, <1>4, <1>8, <1>9, <1>10, <1>11 DEF AttestedInv

\* Steps that attest nothing.
LEMMA NothingAttested ==
    ASSUME AttestedInv, UNCHANGED <<attestations, broadcasts>>
    PROVE  AttestedInv'
<1>1. Recorded' = Recorded
  BY DEF Recorded
<1>2. ASSUME NEW n, Backing(n) PROVE Backing(n)'
  BY <1>2, Zenon DEF Backing
<1> QED
  BY <1>1, <1>2, Zenon DEF AttestedInv

\* The steps of the reputation manager's owner keep the counters.
LEMMA OwnerKeeps ==
    ASSUME ConInv, RepsInv', SameAttested, UNCHANGED conVars
    PROVE  ConInv'
<1>1. ValidatorsInv' /\ AttestedInv'
  BY NothingAttested DEF ConInv, conVars, ValidatorsInv
<1>2. CountersInv'
  BY DEF ConInv, conVars, CountersInv, SameAttested
<1> QED
  BY <1>1, <1>2 DEF ConInv

\* Every step of the engine, of its callers and of the reputation manager's owner
\* keeps the invariant.
LEMMA NextConInv == ConInv /\ [ConNext]_<<conVars, repVars>> => ConInv'
<1> SUFFICES ASSUME ConInv, [ConNext]_<<conVars, repVars>> PROVE ConInv'
  OBVIOUS
<1>0. RepsInv /\ ValidatorsInv /\ AttestedInv /\ CountersInv
  BY DEF ConInv
<1>1. CASE SetMetrics
  <2>1. UNCHANGED <<validators, attestations, broadcasts, attestationsCreated,
                    blocksFinalized, reps, granted>>
    BY <1>1 DEF SetMetrics, repVars
  <2>2. RepsInv' /\ ValidatorsInv'
    BY <1>0, <2>1 DEF RepsInv, ValidatorsInv
  <2>3. AttestedInv' /\ CountersInv'
    BY <1>0, <2>1, NothingAttested DEF CountersInv
  <2> QED
    BY <2>2, <2>3 DEF ConInv
<1>2. ASSUME NEW v \in Validator, NEW s \in Stakes, NEW d \in Days, NEW t \in Tastes,
             RegisterValidator(v, s, d, t)
      PROVE  ConInv'
  <2>1. RepsInv' /\ SameAttested
    BY <1>0, <1>2, SovereigntyKeeps DEF RegisterValidator
  <2> DEFINE pow == VotePower(s, SovereigntyOf(v, d, t))
  <2>2. pow \in Nat
    BY <1>0, VotePowerTyped
  <2>3. /\ DOMAIN validators' = DOMAIN validators \cup {v}
        /\ validators'[v] = [stake |-> s, taste |-> t, isActive |-> TRUE, votePower |-> pow]
        /\ \A u \in DOMAIN validators' : u # v => validators'[u] = validators[u]
    BY <1>2 DEF RegisterValidator
  <2> HIDE DEF pow
  <2>4. ValidatorsInv'
    BY <1>0, <2>2, <2>3 DEF ValidatorsInv
  <2>5. UNCHANGED <<attestations, broadcasts, attestationsCreated, blocksFinalized>>
    BY <1>2 DEF RegisterValidator
  <2>6. AttestedInv'
    BY <1>0, <2>5, NothingAttested
  <2>7. CountersInv'
    BY <1>0, <2>1, <2>5 DEF CountersInv, SameAttested
  <2> QED
    BY <2>1, <2>4, <2>6, <2>7 DEF ConInv
<1>3. ASSUME NEW n \in Number, NEW h \in Hash, AttestBlock(n, h)
      PROVE  ConInv'
  <2>1. AttestedInv'
    BY <1>3, AttestKeeps
  <2>2. /\ RepsInv'
        /\ Local \in DOMAIN reps'
        /\ reps'[Local].attested = reps[Local].attested + 1
    BY <1>0, <1>3, CreditKeeps DEF AttestBlock, CountersInv
  <2>3. ValidatorsInv'
    BY <1>0, <1>3 DEF AttestBlock, ValidatorsInv
  <2>4. broadcasts \in Seq(Signed) /\ Len(broadcasts') = Len(broadcasts) + 1
    BY <1>0, <1>3 DEF AttestBlock, AttestedInv
  <2>5. /\ attestationsCreated' \in {attestationsCreated, attestationsCreated + 1}
        /\ blocksFinalized' = blocksFinalized
    BY <1>0, <1>3 DEF AttestBlock, CountersInv
  <2>6. CountersInv'
    BY <1>0, <2>2, <2>4, <2>5 DEF CountersInv
  <2> QED
    BY <2>1, <2>2, <2>3, <2>6 DEF ConInv
<1>4. ASSUME NEW n \in Number, IsFinalized(n) PROVE ConInv'
  <2>1. /\ UNCHANGED <<validators, attestations, broadcasts, attestationsCreated, reps, granted>>
        /\ blocksFinalized < MaxFinalized /\ blocksFinalized' = blocksFinalized + 1
    BY <1>4 DEF IsFinalized, repVars
  <2>2. RepsInv' /\ ValidatorsInv'
    BY <1>0, <2>1 DEF RepsInv, ValidatorsInv
  <2>3. AttestedInv'
    BY <1>0, <2>1, NothingAttested
  <2>4. CountersInv'
    BY <1>0, <2>1, ConsensusAssumption DEF CountersInv
  <2> QED
    BY <2>2, <2>3, <2>4 DEF ConInv
<1>5. CASE (ApplyDecay \/ RepStep(Local) \/ \E v \in Validator : Register(v)) /\ UNCHANGED conVars
  <2>1. RepsInv' /\ SameAttested
    BY <1>0, <1>5, ApplyDecayKeeps, RepStepKeeps, RegisterKeeps, ConsensusAssumption
  <2> QED
    BY <1>5, <2>1, OwnerKeeps
<1>6. CASE UNCHANGED <<conVars, repVars>>
  <2>1. UNCHANGED conVars /\ UNCHANGED <<reps, granted>>
    BY <1>6 DEF repVars
  <2>2. RepsInv' /\ SameAttested
    BY <1>0, <2>1 DEF RepsInv, SameAttested
  <2> QED
    BY <2>1, <2>2, OwnerKeeps
<1> QED
  BY <1>1, <1>2, <1>3, <1>4, <1>5, <1>6 DEF ConNext

\* ConInv holds in every reachable state.
LEMMA ConInvariant == ConSpec => []ConInv
<1>1. ConInit => ConInv
  <2> SUFFICES ASSUME ConInit PROVE ConInv
    OBVIOUS
  <2>1. RepsInv
    BY NewRepOK, ConsensusAssumption DEF ConInit, RepsInv
  <2>2. ValidatorsInv
    BY DEF ConInit, ValidatorsInv
  <2>3. DOMAIN attestations = {} /\ broadcasts = <<>>
    BY DEF ConInit
  <2>4. AttestedInv
    BY <2>3, FS_EmptySet, SumEmpty DEF AttestedInv, Recorded
  <2>5. CountersInv
    BY ConsensusAssumption DEF ConInit, CountersInv, NewRep
  <2> QED
    BY <2>1, <2>2, <2>4, <2>5 DEF ConInv
<1> QED
  BY <1>1, NextConInv, PTL DEF ConSpec

-----------------------------------------------------------------------------
(***************************************************************************)
(* The properties.                                                         *)
(***************************************************************************)

\* XP, uptime, score and tier stay in their ranges and the tier is that of the
\* score, for every XP configuration and whatever the order of grants, penalties
\* and decay.
THEOREM ReputationTyped == ConSpec => []RepTypeOK
<1>1. ConInv => RepTypeOK
  <2> SUFFICES ASSUME ConInv PROVE RepTypeOK
    OBVIOUS
  <2>1. DOMAIN reps \subseteq Validator /\ granted \in [Validator -> Nat]
    BY DEF ConInv, RepsInv
  <2>2. ASSUME NEW v \in DOMAIN reps
        PROVE  reps[v] \in Rep /\ reps[v].tier = ScoreTier(reps[v].score)
    BY DEF ConInv, RepsInv, RepOK
  <2>3. ASSUME NEW v \in DOMAIN reps
        PROVE  /\ reps[v].xp \in 0 .. MaxXP
               /\ reps[v].uptimeBps \in Bps
               /\ reps[v].attested \in Nat
               /\ reps[v].missed \in Nat
               /\ reps[v].slashes \in Nat
               /\ reps[v].score \in Bps
    BY <2>2 DEF Rep
  <2> QED
    BY <2>1, <2>2, <2>3, Zenon DEF RepTypeOK
<1> QED
  BY <1>1, ConInvariant, PTL

\* The uptime shown is never above the share of blocks attested, although only
\* RecordMissedBlock refreshes it.
THEOREM UptimeSound == ConSpec => []UptimeNeverOverstated
<1>1. ConInv => UptimeNeverOverstated
  BY DEF ConInv, RepsInv, RepOK, NotOverstated, UptimeNeverOverstated
<1> QED
  BY <1>1, ConInvariant, PTL

\* A validator never has more XP than it was granted.
THEOREM XPSound == ConSpec => []XPWithinGrants
<1>1. ConInv => XPWithinGrants
  BY DEF ConInv, RepsInv, RepOK, XPWithinGrants
<1> QED
  BY <1>1, ConInvariant, PTL

\* What the node recorded, broadcast and was credited for never come apart.
THEOREM AttestationsAccounted == ConSpec => []ConTypeOK
<1>1. ConInv => ConTypeOK
  <2> SUFFICES ASSUME ConInv PROVE ConTypeOK
    OBVIOUS
  <2>0. ValidatorsInv /\ AttestedInv /\ CountersInv
    BY DEF ConInv
  <2>1. ASSUME NEW n \in DOMAIN attestations, NEW i \in 1 .. Len(attestations[n])
        PROVE  /\ attestations[n][i].number = n
               /\ \E j \in 1 .. Len(broadcasts) : broadcasts[j] = attestations[n][i]
    BY <2>0 DEF AttestedInv, Backing
  <2>2. SumFunctionOnSet([n \in DOMAIN attestations |-> Len(attestations[n])],
                         DOMAIN attestations) = Len(broadcasts)
    BY <2>0 DEF AttestedInv, Recorded
  <2> QED
    BY <2>0, <2>1, <2>2 DEF ValidatorsInv, AttestedInv, CountersInv, ConTypeOK
<1> QED
  BY <1>1, ConInvariant, PTL

-----------------------------------------------------------------------------
(***************************************************************************)
(* What a signature vouches for.                                           *)
(***************************************************************************)

\* The signed data determines the attestation, although the number in front of the
\* two fields of fixed width is not padded.
LEMMA DigestDetermines ==
    ASSUME NEW s \in [number : Nat, hash : Hash, validator : Validator, signed : BOOLEAN],
           NEW t \in [number : Nat, hash : Hash, validator : Validator, signed : BOOLEAN],
           AttestationHash(s) = AttestationHash(t)
    PROVE  s.number = t.number /\ s.hash = t.hash /\ s.validator = t.validator
<1>1. ASSUME NEW h \in Hash PROVE h \in Seq(Byte) /\ Len(h) = HashLen
  BY SigningAssumption
<1>2. ASSUME NEW v \in Validator PROVE v \in Seq(Byte) /\ Len(v) = AddrLen
  BY SigningAssumption
<1>3. PICK x \in Seq(Byte), y \in Seq(Byte) :
         x = BigBytes(s.number) /\ y = BigBytes(t.number)
  BY BigBytesType
<1>4. PICK a \in Seq(Byte), b \in Seq(Byte) : Joins(a, x, s.hash) /\ Joins(b, y, t.hash)
  BY <1>1, ConcatProperties DEF Joins
<1>5. /\ Joins(AttestationHash(s), a, s.validator)
      /\ Joins(AttestationHash(s), b, t.validator)
  BY <1>3, <1>4, Zenon DEF Joins, AttestationHash, HashBytes
<1>6. a = b /\ s.validator = t.validator
  BY <1>2, <1>5, JoinSplits
<1>7. x = y /\ s.hash = t.hash
  BY <1>1, <1>4, <1>6, JoinSplits
<1>8. s.number = t.number
  BY <1>3, <1>7, BigBytesInjective
<1> QED
  BY <1>6, <1>7, <1>8

\* VerifyAttestation takes a signature of this node only for the attestation it was
\* made for, and no nil signature, whatever the widths of hashes and addresses, and only once the node is
\* registered.
THEOREM SignaturesBind == ConSpec => []SignatureBindsAttestation
<1>1. ConInv => SignatureBindsAttestation
  <2> SUFFICES ASSUME ConInv,
                      NEW i \in 1 .. Len(broadcasts), NEW h \in Hash,
                      NEW v \in Validator, NEW n \in Nat,
                      VerifyAttestation([number |-> n, hash |-> h, validator |-> v,
                                         signed |-> TRUE],
                                        SignAttestation(Local, broadcasts[i]))
               PROVE  /\ [number |-> n, hash |-> h, validator |-> v, signed |-> TRUE]
                            = broadcasts[i]
                      /\ Local \in DOMAIN validators
    BY DEF SignatureBindsAttestation
  <2> DEFINE att == [number |-> n, hash |-> h, validator |-> v, signed |-> TRUE]
  <2>1. broadcasts[i] \in Signed
    BY DEF ConInv, AttestedInv
  <2>2. PICK m \in Number, k \in Hash, s \in BOOLEAN :
           broadcasts[i] = [number |-> m, hash |-> k, validator |-> Local, signed |-> s]
    BY <2>1 DEF Signed
  <2>3. v # <<>>
    BY SigningAssumption
  <2>4. /\ SignAttestation(Local, broadcasts[i]) # NilSignature
        /\ Recovered(AttestationHash(att), SignAttestation(Local, broadcasts[i])) = v
        /\ v \in DOMAIN validators
    BY DEF VerifyAttestation
  <2>5. /\ broadcasts[i].signed
        /\ SignAttestation(Local, broadcasts[i])
              = [signer |-> Local, digest |-> AttestationHash(broadcasts[i])]
    BY <2>4 DEF SignAttestation
  <2>6. AttestationHash(att) = AttestationHash(broadcasts[i]) /\ v = Local
    BY <2>3, <2>4, <2>5 DEF Recovered
  <2>7. n = m /\ h = k
    <3> DEFINE Form == [number : Nat, hash : Hash, validator : Validator, signed : BOOLEAN]
               sent == [number |-> m, hash |-> k, validator |-> Local, signed |-> s]
    <3>1. att \in Form /\ sent \in Form
      BY SigningAssumption, ConsensusAssumption
    <3>2. AttestationHash(att) = AttestationHash(sent)
      BY <2>2, <2>6
    <3> HIDE DEF att, sent
    <3>3. att.number = sent.number /\ att.hash = sent.hash
      BY <3>1, <3>2, DigestDetermines
    <3> QED
      BY <3>3 DEF att, sent
  <2>8. s = TRUE
    BY <2>2, <2>5
  <2> QED
    BY <2>2, <2>4, <2>6, <2>7, <2>8
<1> QED
  BY <1>1, ConInvariant, PTL

=============================================================================
