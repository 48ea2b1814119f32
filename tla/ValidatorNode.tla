--------------------------- MODULE ValidatorNode ----------------------------
(***************************************************************************)
(* The validator as cmd/validator/main.go puts it together: the sync       *)
(* engine runs the onNewBlock callback on its own goroutines, and the      *)
(* callback verifies the block's state root and attests the block.  HTTP   *)
(* handlers of inso_verifyBlock call the same verification engine.  The    *)
(* process may crash and be started again: nothing is kept on disk.        *)
(***************************************************************************)
EXTENDS Naturals, Sequences

CONSTANTS
    \* SyncEngine
    Block, ZeroBlock, MaxHead, Chain, Gossip, Other, ChanCap, NullReplies,
    \* VerificationEngine
    Root, Genesis, Torn, NoClaim, NextRoot,
    \* ConsensusEngine and ReputationManager
    Local, MinStake, MaxXP, AttestationXP, UptimeBonusXP, SlashPenaltyXP,
    DecayPermille,
    HexToHash,       \* HexToHash[h]: common.HexToHash of a block's hash string
    Http,            \* HTTP handler goroutines
    MaxRequests,     \* bound: inso_verifyBlock requests
    MaxRestarts      \* bound: crashes of the process

\* What SyncEngine and VerificationEngine assume, and the bounds.
ASSUME NodeAssumption ==
    /\ MaxHead \in Nat
    /\ ChanCap \in Nat
    /\ MaxRequests \in Nat
    /\ MaxRestarts \in Nat
    /\ \A b \in Block : b.number \in Nat /\ b.stateRoot \in Root \cup {NoClaim}
    /\ ZeroBlock \in Block
    /\ ZeroBlock.number = 0
    /\ Chain \in [1 .. MaxHead -> Block]
    /\ \A n \in 1 .. MaxHead : Chain[n].number = n
    /\ Gossip \subseteq Block
    /\ Other \notin Block
    /\ NullReplies \in BOOLEAN
    /\ Genesis \in Root
    /\ Torn \in Root
    /\ NoClaim \notin Root
    /\ NextRoot \in [Root -> [Block -> Root]]
    /\ {"p2p", "rpc"} \cap Http = {}

VARIABLES
    \* SyncEngine
    head, msgCh, latestBlock, blocks, metricsOn, stopped, pc, cur, probe,
    caughtUp, num, remoteLatest, syncedBlock, isSynced, delivered,
    \* VerificationEngine
    rootLo, rootHi, vpc, vblk, expected, verified,
    \* ConsensusEngine and ReputationManager
    validators, attestations, broadcasts, attestationsCreated, blocksFinalized,
    counting, reps, granted,
    requests,        \* inso_verifyBlock requests so far
    restarts,        \* crashes so far
    past             \* history: attestations broadcast before the last crash

Goroutine == {"p2p", "rpc"}

Caller == Goroutine \cup Http

Sync == INSTANCE SyncEngine

Ver == INSTANCE VerificationEngine

Con == INSTANCE ConsensusEngine WITH
    Validator <- {Local},
    Number <- {b.number : b \in Block},
    Hash <- {HexToHash[b.hash] : b \in Block},
    Stakes <- {MinStake},
    SignOutcomes <- {TRUE},   \* main gives the engine a key that crypto.Sign takes
    MaxFinalized <- 0,
    Days <- {0},
    Tastes <- {80},
    MaxEvents <- 0,
    MaxGranted <- 0

syncVars == <<head, msgCh, latestBlock, blocks, metricsOn, stopped, pc, cur,
              probe, caughtUp, num, remoteLatest, syncedBlock, isSynced,
              delivered>>

verVars == <<rootLo, rootHi, vpc, vblk, expected, verified>>

conVars == <<validators, attestations, broadcasts, attestationsCreated,
             blocksFinalized, counting, reps, granted>>

nodeVars == <<requests, restarts, past>>

vars == <<syncVars, verVars, conVars, nodeVars>>

-----------------------------------------------------------------------------

\* The local validator as main registers it: reputation first, then consensus
\* with a TasteScore of 0.8.
LocalRep ==
    LET rep == Con!NewRep
    IN [rep EXCEPT !.score = Con!Score(rep, 0, 80),
                   !.tier = Con!ScoreTier(Con!Score(rep, 0, 80))]

LocalValidator ==
    [stake |-> MinStake, taste |-> 80, isActive |-> TRUE,
     votePower |-> Con!VotePower(MinStake, LocalRep.score)]

Init ==
    /\ Sync!Init
    /\ Ver!VInit
    /\ validators = [v \in {Local} |-> LocalValidator]
    /\ attestations = <<>>
    /\ broadcasts = <<>>
    /\ attestationsCreated = 0
    /\ blocksFinalized = 0
    /\ counting = FALSE
    /\ reps = [v \in {Local} |-> LocalRep]
    /\ granted = [v \in {Local} |-> 0]
    /\ requests = 0
    /\ restarts = 0
    /\ past = <<>>

-----------------------------------------------------------------------------
(***************************************************************************)
(* Steps of the sync engine that touch no other engine.  The gauges are    *)
(* written and never read by the engines, so the node leaves the metrics   *)
(* unwired; SyncEngine and ConsensusEngine have them.                      *)
(***************************************************************************)
SyncStep ==
    /\ \/ Sync!Produce
       \/ \E m \in Gossip \cup {Other} : Sync!Deliver(m)
       \/ Sync!ConsensusReceive
       \/ Sync!Stop
       \/ Sync!Loops
       \/ \E g \in Goroutine : Sync!ProcessBlock(g)
    /\ UNCHANGED <<verVars, conVars, nodeVars>>

(***************************************************************************)
(* The onNewBlock callback of main, on the goroutine of the sync engine.   *)
(***************************************************************************)
EngineLatest(g) ==     \* mutation: the engine's latest block, not the new one
    blocks[latestBlock]

\* The block passed to the callback.
NewBlock(g) == cur[g]

CallbackVerify(g) ==
    /\ pc[g] = "callback"
    /\ Ver!VerifyBlock(g, NewBlock(g))
    /\ UNCHANGED <<syncVars, conVars, nodeVars>>

\* The hash that is attested.
BlockHash(g) == HexToHash[cur[g].hash]

AttestAndStay(g) ==    \* mutation: the callback attests and runs again
    /\ vpc[g] = "valid"
    /\ Con!AttestBlock(cur[g].number, BlockHash(g))
    /\ UNCHANGED <<syncVars, verVars, nodeVars>>

\* The verdict is Valid: VerifyAdaptiveBlock only logs, then the block is
\* attested and the callback returns.
CallbackAttest(g) ==
    /\ vpc[g] = "valid"
    /\ Con!AttestBlock(cur[g].number, BlockHash(g))
    /\ Ver!TakeResult(g)
    /\ Sync!CallbackReturn(g)
    /\ UNCHANGED nodeVars

AttestAnyway(g) ==     \* mutation: the early return on an invalid block is lost
    /\ vpc[g] = "invalid"
    /\ Con!AttestBlock(cur[g].number, BlockHash(g))
    /\ Ver!TakeResult(g)
    /\ Sync!CallbackReturn(g)
    /\ UNCHANGED nodeVars

\* The verdict is not Valid: the callback returns.
CallbackReject(g) ==
    /\ vpc[g] = "invalid"
    /\ Ver!TakeResult(g)
    /\ Sync!CallbackReturn(g)
    /\ UNCHANGED <<conVars, nodeVars>>

\* VerifyBlock runs, for a callback or for a request.
VerifyStep(t) ==
    /\ Ver!VerifyStep(t)
    /\ UNCHANGED <<syncVars, conVars, nodeVars>>

\* inso_verifyBlock looks the block up and calls VerifyBlock.
VerifyRequest(t) ==
    /\ requests < MaxRequests
    /\ requests' = requests + 1
    /\ \E n \in DOMAIN blocks : Ver!VerifyBlock(t, blocks[n])
    /\ UNCHANGED <<syncVars, conVars, restarts, past>>

VerifyResponse(t) ==
    /\ Ver!TakeResult(t)
    /\ UNCHANGED <<syncVars, conVars, nodeVars>>

\* The process dies and main runs again; only what went out on the network stays.
Restart ==
    /\ restarts < MaxRestarts
    /\ restarts' = restarts + 1
    /\ past' = past \o broadcasts
    /\ msgCh' = <<>>
    /\ latestBlock' = 0
    /\ blocks' = <<>>
    /\ metricsOn' = FALSE
    /\ stopped' = FALSE
    /\ pc' = [g \in Goroutine |-> "idle"]
    /\ cur' = [g \in Goroutine |-> ZeroBlock]
    /\ probe' = [g \in Goroutine |-> 0]
    /\ caughtUp' = [g \in Goroutine |-> FALSE]
    /\ num' = 0
    /\ remoteLatest' = 0
    /\ syncedBlock' = 0
    /\ isSynced' = FALSE
    /\ delivered' = <<>>
    /\ rootLo' = Genesis
    /\ rootHi' = Genesis
    /\ vpc' = [t \in Caller |-> "idle"]
    /\ vblk' = [t \in Caller |-> ZeroBlock]
    /\ expected' = [t \in Caller |-> Genesis]
    /\ verified' = {}
    /\ validators' = [v \in {Local} |-> LocalValidator]
    /\ attestations' = <<>>
    /\ broadcasts' = <<>>
    /\ attestationsCreated' = 0
    /\ blocksFinalized' = 0
    /\ counting' = FALSE
    /\ reps' = [v \in {Local} |-> LocalRep]
    /\ granted' = [v \in {Local} |-> 0]
    /\ UNCHANGED <<head, requests>>

-----------------------------------------------------------------------------

Callback(g) == CallbackVerify(g) \/ CallbackAttest(g) \/ CallbackReject(g)

Request(t) == VerifyRequest(t) \/ VerifyResponse(t)

Next ==
    \/ SyncStep
    \/ \E g \in Goroutine : Callback(g)
    \/ \E t \in Caller : VerifyStep(t)
    \/ \E t \in Http : Request(t)

Spec == Init /\ [][Next]_vars

RestartSpec == Init /\ [][Next \/ Restart]_vars

(***************************************************************************)
(* Fairness: as in SyncEngine, and VerifyBlock and the callback are        *)
(* straight-line code.  Nothing is assumed of peers and HTTP clients.      *)
(***************************************************************************)
SyncOnly(A) == A /\ UNCHANGED <<verVars, conVars, nodeVars>>

Fairness ==
    /\ \A g \in Goroutine :
          /\ WF_vars(SyncOnly(Sync!ProcessBlock(g)))
          /\ WF_vars(VerifyStep(g))
          /\ WF_vars(Callback(g))
    /\ WF_vars(SyncOnly(Sync!ListenerReceive))
    /\ WF_vars(SyncOnly(Sync!Tick))
    /\ WF_vars(SyncOnly(Sync!ReadLocal))
    /\ \A n \in 1 .. MaxHead : SF_vars(SyncOnly(num = n /\ Sync!FetchBlock))

FairSpec == Spec /\ Fairness

-----------------------------------------------------------------------------
(***************************************************************************)
(* Properties.                                                             *)
(***************************************************************************)

\* The engines keep their types when they are put together, and a goroutine
\* inside VerifyBlock is inside the callback, verifying the block it synced.
NodeTypeOK ==
    /\ Sync!TypeOK
    /\ Ver!VTypeOK
    /\ \A g \in Goroutine :
          vpc[g] # "idle" => pc[g] = "callback" /\ vblk[g] = cur[g]
    /\ requests \in 0 .. MaxRequests
    /\ restarts \in 0 .. MaxRestarts

\* The heights signed in this run of the process.
AttestedNumbers == {broadcasts[i].number : i \in 1 .. Len(broadcasts)}

\* In one run of the process the node signs each height at most once, although
\* AttestBlock itself accepts any number any number of times.
NoEquivocation ==
    \A i, j \in 1 .. Len(broadcasts) :
        broadcasts[i].number = broadcasts[j].number => i = j

\* The roots stateRoot was given for blocks the node has stored, and the first one.
StoredRoots ==
    {Genesis} \cup {e.root : e \in {x \in verified : \E m \in DOMAIN blocks : x.block = blocks[m]}}

\* What the node signs is the block it has stored at that height, the verification
\* engine has found that very block valid, and a root it claims is derived from
\* the genesis root or from that of a stored block found valid, whoever asked for
\* the verifications and in whatever order.  (The blocks below need not be valid:
\* a block that claims no root, or one derived from the genesis root, passes above
\* one that failed.)
AttestsVerifiedBlocks ==
    \A i \in 1 .. Len(broadcasts) :
        LET n == broadcasts[i].number
        IN /\ n \in DOMAIN blocks \ {0}
           /\ broadcasts[i].hash = HexToHash[blocks[n].hash]
           /\ \E e \in verified : e.block = blocks[n]
           /\ blocks[n].stateRoot # NoClaim =>
                 \E r \in StoredRoots : NextRoot[r][blocks[n]] = blocks[n].stateRoot

\* "Wire up: verify + attest each new block from sync" (main): once the callback
\* for a block has returned, the block is attested.
AttestsEachNewBlock ==
    \A n \in Sync!Notified :
        \/ n \in AttestedNumbers
        \/ \E g \in Goroutine : pc[g] = "callback" /\ cur[g].number = n

\* Every block of the sequencer is eventually signed, or the node is stopped.
EventuallyAttested ==
    \A n \in 1 .. MaxHead : head >= n ~> (n \in AttestedNumbers \/ stopped)

\* "Slashing Protection - Double-signing detection": over the life of the
\* validator, crashes included, no height is signed for two different blocks.
NoDoubleSigning ==
    LET all == past \o broadcasts
    IN \A i, j \in 1 .. Len(all) :
          all[i].number = all[j].number => all[i].hash = all[j].hash

\* The chain the node follows, and the signatures it has sent, as the network
\* sees them.
FollowedChain == [n \in DOMAIN blocks \ {0} |-> blocks[n]]

Signatures ==
    [i \in 1 .. Len(broadcasts) |->
        [number |-> broadcasts[i].number, hash |-> broadcasts[i].hash]]

Abstract == INSTANCE AttestedChain WITH
    Digest <- HexToHash, chain <- FollowedChain, signed <- Signatures

\* The node implements AttestedChain.
RefinesAttestedChain == Abstract!ASpec

=============================================================================
