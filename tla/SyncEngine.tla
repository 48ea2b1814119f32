----------------------------- MODULE SyncEngine -----------------------------
(***************************************************************************)
(* The block sync engine of the validator (internal/sync/engine.go).       *)
(*                                                                         *)
(* Two goroutines feed processBlock: "p2p", the p2pBlockListener that      *)
(* takes announcements off the channel of the P2P network, and "rpc", the  *)
(* rpcSyncLoop that polls the sequencer.  processBlock stores the block    *)
(* under the mutex and does the rest (gauges, onNewBlock callback) after   *)
(* the unlock, so the two goroutines interleave there.                     *)
(*                                                                         *)
(* The sequencer, the peers and the second consumer of the message channel *)
(* (consensus.processMessages) are the environment.                        *)
(***************************************************************************)
EXTENDS Naturals, Sequences

CONSTANTS
    Block,        \* every L2Block the program can hold
    ZeroBlock,    \* the zero L2Block, which a null reply decodes to
    MaxHead,      \* bound: the sequencer produces blocks 1..MaxHead
    Chain,        \* Chain[n] is the sequencer's block n
    Gossip,       \* the blocks that peers announce (right, wrong or repeated)
    Other,        \* a message that carries no block announcement
    ChanCap,      \* capacity of the message channel (4096 in the code)
    NullReplies   \* may the sequencer answer "result": null?

ASSUME SyncAssumption ==
    /\ MaxHead \in Nat
    /\ ChanCap \in Nat
    /\ \A b \in Block : b.number \in Nat
    /\ ZeroBlock \in Block
    /\ ZeroBlock.number = 0
    /\ Chain \in [1 .. MaxHead -> Block]
    /\ \A n \in 1 .. MaxHead : Chain[n].number = n
    /\ Gossip \subseteq Block
    /\ Other \notin Block
    /\ NullReplies \in BOOLEAN

VARIABLES
    head,         \* the sequencer's latest block number
    msgCh,        \* network.msgCh, shared by all of its readers
    latestBlock,  \* Engine.latestBlock
    blocks,       \* Engine.blocks, a partial function from numbers to blocks
    metricsOn,    \* Engine.metrics # nil
    stopped,      \* the context of Start is cancelled
    pc,           \* control point of each goroutine
    cur,          \* the block each goroutine is processing
    probe,        \* IsSynced: the sequencer's head as each goroutine read it
    caughtUp,     \* IsSynced: the verdict each goroutine is about to publish
    num,          \* syncFromRPC: the loop variable
    remoteLatest, \* syncFromRPC: the loop bound
    syncedBlock,  \* gauge metrics.SyncedBlock
    isSynced,     \* gauge metrics.IsSynced
    delivered     \* history: the blocks onNewBlock was called with, in order

engineVars == <<latestBlock, blocks>>
loopVars   == <<num, remoteLatest>>
probeVars  == <<probe, caughtUp>>
gaugeVars  == <<syncedBlock, isSynced>>
envVars    == <<head, metricsOn, stopped>>

vars == <<head, msgCh, latestBlock, blocks, metricsOn, stopped, pc, cur,
          probe, caughtUp, num, remoteLatest, syncedBlock, isSynced, delivered>>

Goroutine == {"p2p", "rpc"}

PC == {"idle", "local", "fetch", "process", "metrics", "probe", "compare",
       "gauge", "notify", "callback", "done"}

\* Control points between the unlock in processBlock and the callback.
Pending == {"metrics", "probe", "compare", "gauge", "notify"}

-----------------------------------------------------------------------------

\* NewEngine and Start: both goroutines wait in their select.
Init ==
    /\ head = 0
    /\ msgCh = <<>>
    /\ latestBlock = 0
    /\ blocks = <<>>
    /\ metricsOn = FALSE
    /\ stopped = FALSE
    /\ pc = [g \in Goroutine |-> "idle"]
    /\ cur = [g \in Goroutine |-> ZeroBlock]
    /\ probe = [g \in Goroutine |-> 0]
    /\ caughtUp = [g \in Goroutine |-> FALSE]
    /\ num = 0
    /\ remoteLatest = 0
    /\ syncedBlock = 0
    /\ isSynced = FALSE
    /\ delivered = <<>>

Goto(g, l) == pc' = [pc EXCEPT ![g] = l]

\* The goroutine's local variables go out of scope.
DropLocals(g) ==
    /\ cur' = [cur EXCEPT ![g] = ZeroBlock]
    /\ probe' = [probe EXCEPT ![g] = 0]
    /\ caughtUp' = [caughtUp EXCEPT ![g] = FALSE]

\* syncFromRPC returns.
EndRound ==
    /\ Goto("rpc", "idle")
    /\ num' = 0
    /\ remoteLatest' = 0

OneTooMany(n) == n <= remoteLatest + 1   \* mutation: the loop bound is off by one

MoreToFetch(n) == n <= remoteLatest

\* The for statement of syncFromRPC, with num = n.
LoopFrom(n) ==
    \/ /\ MoreToFetch(n)
       /\ num' = n
       /\ Goto("rpc", "fetch")
       /\ UNCHANGED remoteLatest
    \/ /\ ~MoreToFetch(n)
       /\ EndRound

(***************************************************************************)
(* processBlock returns to its caller: the listener waits for the next     *)
(* message, the sync loop moves to the next number.                        *)
(***************************************************************************)
Return(g) ==
    /\ DropLocals(g)
    /\ \/ /\ g = "p2p"
          /\ Goto(g, "idle")
          /\ UNCHANGED loopVars
       \/ /\ g = "rpc"
          /\ LoopFrom(num + 1)

-----------------------------------------------------------------------------
(***************************************************************************)
(* Environment.                                                            *)
(***************************************************************************)

\* External: the sequencer produces the next block.
Produce ==
    /\ head < MaxHead
    /\ head' = head + 1
    /\ UNCHANGED <<msgCh, engineVars, metricsOn, stopped, pc, cur, probeVars,
                   loopVars, gaugeVars, delivered>>

\* readLoop hands a peer's message to the channel, or drops it when it is full.
Deliver(m) ==
    /\ msgCh' = IF Len(msgCh) < ChanCap THEN Append(msgCh, m) ELSE msgCh
    /\ UNCHANGED <<envVars, engineVars, pc, cur, probeVars, loopVars,
                   gaugeVars, delivered>>

\* The consensus engine's processMessages reads the same channel; its handlers
\* only log.
ConsensusReceive ==
    /\ msgCh # <<>>
    /\ msgCh' = Tail(msgCh)
    /\ UNCHANGED <<envVars, engineVars, pc, cur, probeVars, loopVars,
                   gaugeVars, delivered>>

\* main wires the metrics after the engine has been started.
SetMetrics ==
    /\ ~metricsOn
    /\ metricsOn' = TRUE
    /\ UNCHANGED <<head, stopped, msgCh, engineVars, pc, cur, probeVars,
                   loopVars, gaugeVars, delivered>>

\* Stop cancels the context and returns without waiting for the goroutines.
Stop ==
    /\ ~stopped
    /\ stopped' = TRUE
    /\ UNCHANGED <<head, metricsOn, msgCh, engineVars, pc, cur, probeVars,
                   loopVars, gaugeVars, delivered>>

-----------------------------------------------------------------------------
(***************************************************************************)
(* The two loops.                                                          *)
(***************************************************************************)

ListenerDeaf(g) ==            \* mutation: the listener ignores the context
    stopped /\ g = "rpc"

CtxDone(g) == stopped

\* A goroutine's select takes the ctx.Done branch.
Exit(g) ==
    /\ CtxDone(g)
    /\ pc[g] = "idle"
    /\ Goto(g, "done")
    /\ UNCHANGED <<envVars, msgCh, engineVars, cur, probeVars, loopVars,
                   gaugeVars, delivered>>

\* p2pBlockListener takes a message; handleP2PBlock passes announcements on.
ListenerReceive ==
    /\ pc["p2p"] = "idle"
    /\ msgCh # <<>>
    /\ msgCh' = Tail(msgCh)
    /\ IF Head(msgCh) = Other
          THEN UNCHANGED <<pc, cur>>
          ELSE /\ cur' = [cur EXCEPT !["p2p"] = Head(msgCh)]
               /\ Goto("p2p", "process")
    /\ UNCHANGED <<envVars, engineVars, probeVars, loopVars, gaugeVars,
                   delivered>>

(***************************************************************************)
(* The ticker fires and fetchLatestBlockNumber succeeds.  When it fails    *)
(* syncFromRPC returns at once; a null reply decodes to 0, which is never  *)
(* above the local height, and returns as well: both leave no trace.       *)
(***************************************************************************)
Tick ==
    /\ pc["rpc"] = "idle"
    /\ remoteLatest' = head
    /\ Goto("rpc", "local")
    /\ UNCHANGED <<envVars, msgCh, engineVars, cur, probeVars, num, gaugeVars,
                   delivered>>

NothingNew == remoteLatest <= latestBlock

\* syncFromRPC compares with LatestBlock() and enters its loop.
ReadLocal ==
    /\ pc["rpc"] = "local"
    /\ \/ NothingNew /\ EndRound
       \/ ~NothingNew /\ LoopFrom(latestBlock + 1)
    /\ UNCHANGED <<envVars, msgCh, engineVars, cur, probeVars, gaugeVars,
                   delivered>>

\* fetchBlock returns without an error: the block asked for, or the zero block.
Fetched(b) ==
    /\ pc["rpc"] = "fetch"
    /\ cur' = [cur EXCEPT !["rpc"] = b]
    /\ Goto("rpc", "process")
    /\ UNCHANGED <<envVars, msgCh, engineVars, probeVars, loopVars, gaugeVars,
                   delivered>>

FetchBlock == Fetched(Chain[num])

FetchNull == NullReplies /\ Fetched(ZeroBlock)

\* fetchBlock returns an error, which ends the round.
FetchFails ==
    /\ pc["rpc"] = "fetch"
    /\ EndRound
    /\ UNCHANGED <<envVars, msgCh, engineVars, cur, probeVars, gaugeVars,
                   delivered>>

-----------------------------------------------------------------------------
(***************************************************************************)
(* processBlock.                                                           *)
(***************************************************************************)

NoDuplicateCheck(b) == FALSE  \* mutation: the map lookup is dropped

Duplicate(b) == b.number \in DOMAIN blocks

NoGapCheck(b) == FALSE        \* mutation: the sequence check is dropped

GapFromLatest(b) ==           \* mutation: the + 1 is lost
    b.number > 1 /\ b.number # latestBlock

Gap(b) == b.number > 1 /\ b.number # latestBlock + 1

\* A known or out-of-sequence block is dropped.
Skip(g) ==
    /\ pc[g] = "process"
    /\ Duplicate(cur[g]) \/ Gap(cur[g])
    /\ Return(g)
    /\ UNCHANGED <<envVars, msgCh, engineVars, gaugeVars, delivered>>

Store(b) == [n \in DOMAIN blocks \cup {b.number} |->
                IF n = b.number THEN b ELSE blocks[n]]

HeightKept(b) == latestBlock  \* mutation: latestBlock is not advanced

NewHeight(b) == b.number

\* The critical section of processBlock for a block it keeps.
Accept(g) ==
    /\ pc[g] = "process"
    /\ ~Duplicate(cur[g])
    /\ ~Gap(cur[g])
    /\ blocks' = Store(cur[g])
    /\ latestBlock' = NewHeight(cur[g])
    /\ Goto(g, "metrics")
    /\ UNCHANGED <<envVars, msgCh, cur, probeVars, loopVars, gaugeVars,
                   delivered>>

\* After the unlock: the SyncedBlock gauge, when metrics are wired.
StoreSyncedBlock(g) ==
    /\ pc[g] = "metrics"
    /\ IF metricsOn
          THEN /\ syncedBlock' = cur[g].number
               /\ Goto(g, "probe")
          ELSE /\ UNCHANGED syncedBlock
               /\ Goto(g, "notify")
    /\ UNCHANGED <<envVars, msgCh, engineVars, cur, probeVars, loopVars,
                   isSynced, delivered>>

\* IsSynced asks the sequencer for its height; a null reply reads as 0.
ProbeHead(g) ==
    /\ pc[g] = "probe"
    /\ \E h \in {head} \cup (IF NullReplies THEN {0} ELSE {}) :
          probe' = [probe EXCEPT ![g] = h]
    /\ Goto(g, "compare")
    /\ UNCHANGED <<envVars, msgCh, engineVars, cur, caughtUp, loopVars,
                   gaugeVars, delivered>>

\* IsSynced is false when the sequencer does not answer.
ProbeFails(g) ==
    /\ pc[g] = "probe"
    /\ Goto(g, "gauge")
    /\ UNCHANGED <<envVars, msgCh, engineVars, cur, probeVars, loopVars,
                   gaugeVars, delivered>>

\* IsSynced compares the reply with LatestBlock().
CompareHead(g) ==
    /\ pc[g] = "compare"
    /\ caughtUp' = [caughtUp EXCEPT ![g] = (latestBlock >= probe[g])]
    /\ Goto(g, "gauge")
    /\ UNCHANGED <<envVars, msgCh, engineVars, cur, probe, loopVars, gaugeVars,
                   delivered>>

\* The IsSynced gauge.
StoreIsSynced(g) ==
    /\ pc[g] = "gauge"
    /\ isSynced' = caughtUp[g]
    /\ Goto(g, "notify")
    /\ UNCHANGED <<envVars, msgCh, engineVars, cur, probeVars, loopVars,
                   syncedBlock, delivered>>

\* onNewBlock is called ...
OnNewBlock(g) ==
    /\ pc[g] = "notify"
    /\ delivered' = Append(delivered, cur[g])
    /\ Goto(g, "callback")
    /\ UNCHANGED <<envVars, msgCh, engineVars, cur, probeVars, loopVars,
                   gaugeVars>>

\* ... and returns.
CallbackReturn(g) ==
    /\ pc[g] = "callback"
    /\ Return(g)
    /\ UNCHANGED <<envVars, msgCh, engineVars, gaugeVars, delivered>>

-----------------------------------------------------------------------------

Environment ==
    \/ Produce
    \/ \E m \in Gossip \cup {Other} : Deliver(m)
    \/ ConsensusReceive
    \/ SetMetrics
    \/ Stop

Loops ==
    \/ ListenerReceive
    \/ Tick
    \/ ReadLocal
    \/ FetchBlock
    \/ FetchNull
    \/ FetchFails
    \/ \E g \in Goroutine : Exit(g)

\* The steps of processBlock, none of which waits for anything unbounded: the
\* HTTP client of IsSynced has a timeout.
ProcessBlock(g) ==
    \/ Skip(g)
    \/ Accept(g)
    \/ StoreSyncedBlock(g)
    \/ ProbeHead(g)
    \/ ProbeFails(g)
    \/ CompareHead(g)
    \/ StoreIsSynced(g)
    \/ OnNewBlock(g)

Next ==
    \/ Environment
    \/ Loops
    \/ \E g \in Goroutine : ProcessBlock(g) \/ CallbackReturn(g)

Spec == Init /\ [][Next]_vars

(***************************************************************************)
(* Fairness.  The Go scheduler runs every runnable goroutine, so each of   *)
(* their own steps is weakly fair; the callback returns.  The ticker keeps *)
(* firing, and the sequencer answers the request for each block again and  *)
(* again (strong fairness: a failed fetch leaves the loop, and it may also *)
(* fail or answer null in between).  A select whose ctx.Done               *)
(* branch stays ready picks it with positive probability each time, hence  *)
(* strong fairness of Exit.  Nothing is assumed of peers.                  *)
(***************************************************************************)
Fairness ==
    /\ \A g \in Goroutine : /\ WF_vars(ProcessBlock(g))
                            /\ WF_vars(CallbackReturn(g))
                            /\ SF_vars(Exit(g))
    /\ WF_vars(ListenerReceive)
    /\ WF_vars(Tick)
    /\ WF_vars(ReadLocal)
    /\ \A n \in 1 .. MaxHead : SF_vars(num = n /\ FetchBlock)

FairSpec == Spec /\ Fairness

-----------------------------------------------------------------------------
(***************************************************************************)
(* Properties.                                                             *)
(***************************************************************************)

\* Every variable keeps the type its Go declaration gives it, and the loop of
\* syncFromRPC only asks for blocks the sequencer has.
TypeOK ==
    /\ head \in 0 .. MaxHead
    /\ msgCh \in Seq(Gossip \cup {Other})
    /\ latestBlock \in Nat
    /\ DOMAIN blocks \subseteq Nat
    /\ blocks \in [DOMAIN blocks -> Block]
    /\ metricsOn \in BOOLEAN
    /\ stopped \in BOOLEAN
    /\ pc \in [Goroutine -> PC]
    /\ pc["p2p"] \notin {"local", "fetch"}
    /\ cur \in [Goroutine -> Block]
    /\ probe \in [Goroutine -> 0 .. MaxHead]
    /\ caughtUp \in [Goroutine -> BOOLEAN]
    /\ num \in 0 .. MaxHead
    /\ remoteLatest \in 0 .. head
    /\ pc["rpc"] \notin {"idle", "local", "done"} => num \in 1 .. remoteLatest
    /\ syncedBlock \in Nat
    /\ isSynced \in BOOLEAN
    /\ delivered \in Seq(Block)

\* The stored chain has no hole: processBlock never stores a block above a missing
\* one, whichever goroutine brings it, even after a block numbered 0 has moved
\* latestBlock back.
Contiguous == \A n \in DOMAIN blocks : 1 .. n \subseteq DOMAIN blocks

\* Unless a block numbered 0 was stored, LatestBlock() is the highest stored
\* number: the two goroutines never move it back between them.
LatestIsHighest ==
    0 \notin DOMAIN blocks =>
        /\ \A n \in DOMAIN blocks : n <= latestBlock
        /\ latestBlock > 0 => latestBlock \in DOMAIN blocks

\* The numbers already handed to onNewBlock.
Notified == {delivered[i].number : i \in 1 .. Len(delivered)}

\* onNewBlock runs exactly once for every stored block: once at most, with the
\* block that is stored, and a stored block not yet handed over is in the hands
\* of exactly one goroutine on its way to the callback.
NotifiedExactlyOnce ==
    /\ \A i, j \in 1 .. Len(delivered) :
          delivered[i].number = delivered[j].number => i = j
    /\ \A i \in 1 .. Len(delivered) :
          /\ delivered[i].number \in DOMAIN blocks
          /\ blocks[delivered[i].number] = delivered[i]
    /\ \A n \in DOMAIN blocks \ Notified :
          \E g \in Goroutine : pc[g] \in Pending /\ cur[g] = blocks[n]
    /\ \A g \in Goroutine : pc[g] \in Pending => cur[g].number \notin Notified

\* Unless a block numbered 0 was stored, the catch-up loop never defers a block
\* it fetched itself, however the listener moves latestBlock during the loop.
CatchUpNeverDefers ==
    0 \notin DOMAIN blocks /\ pc["rpc"] = "process" =>
        Duplicate(cur["rpc"]) \/ ~Gap(cur["rpc"])

\* The comment "block number must be next in sequence (or first block)" of
\* processBlock: a block is stored only on top of the latest one.
NextInSequence ==
    [][\A n \in DOMAIN blocks' \ DOMAIN blocks :
          DOMAIN blocks = {} \/ n = latestBlock + 1]_vars

\* The comment "Gap detected - let RPC fill it in later": every height the
\* sequencer has reached is eventually filled, by its block or by one that a peer
\* announced for it, or the engine is stopped.
GapsAreFilled ==
    \A n \in 1 .. MaxHead : head >= n ~> (n \in DOMAIN blocks \/ stopped)

\* Once Stop has cancelled the context both goroutines end, although the
\* catch-up loop does not look at the context.
StopTerminates == stopped ~> (\A g \in Goroutine : pc[g] = "done")

\* "p2pBlockListener receives new blocks from the P2P gossip network": a block
\* announcement that leaves the channel goes to the listener.
AnnouncementsReachListener ==
    [][(msgCh # <<>> /\ msgCh' = Tail(msgCh) /\ Head(msgCh) # Other)
          => cur'["p2p"] = Head(msgCh)]_msgCh

=============================================================================
