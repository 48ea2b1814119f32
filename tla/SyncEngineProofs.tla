-------------------------- MODULE SyncEngineProofs --------------------------
(***************************************************************************)
(* Proofs of the safety properties of SyncEngine, for every chain, every   *)
(* set of announcements and every channel capacity.                        *)
(***************************************************************************)
EXTENDS SyncEngine, TLAPS

-----------------------------------------------------------------------------
(***************************************************************************)
(* Type correctness.                                                       *)
(***************************************************************************)

\* processBlock's return keeps the types: the catch-up loop ends at its bound.
LEMMA ReturnType ==
    ASSUME TypeOK, NEW g \in Goroutine, Return(g), pc[g] \notin {"idle", "local", "done"},
           UNCHANGED <<head, msgCh, latestBlock, blocks, metricsOn, stopped,
                       syncedBlock, isSynced, delivered>>
    PROVE  TypeOK'
<1> USE SyncAssumption DEF TypeOK, Return, LoopFrom, MoreToFetch, DropLocals, Goto, EndRound, loopVars,
                           Goroutine, PC
<1>1. CASE g = "p2p"
  BY <1>1
<1>2. CASE g = "rpc"
  BY <1>2
<1> QED
  BY <1>1, <1>2

\* The initial state is well typed.
LEMMA InitType == Init => TypeOK
<1> SUFFICES ASSUME Init PROVE TypeOK
  OBVIOUS
<1> USE SyncAssumption DEF Init
<1>1. /\ DOMAIN blocks = {}
      /\ blocks \in [DOMAIN blocks -> Block]
  OBVIOUS
<1>2. /\ msgCh \in Seq(Gossip \cup {Other})
      /\ delivered \in Seq(Block)
  OBVIOUS
<1>3. /\ pc \in [Goroutine -> PC]
      /\ pc["p2p"] = "idle"
      /\ pc["rpc"] = "idle"
  BY DEF Goroutine, PC
<1>4. /\ cur \in [Goroutine -> Block]
      /\ probe \in [Goroutine -> 0 .. MaxHead]
      /\ caughtUp \in [Goroutine -> BOOLEAN]
  OBVIOUS
<1>5. /\ head \in 0 .. MaxHead
      /\ num \in 0 .. MaxHead
      /\ remoteLatest \in 0 .. head
  OBVIOUS
<1>6. /\ latestBlock \in Nat
      /\ syncedBlock \in Nat
      /\ {metricsOn, stopped, isSynced} \subseteq BOOLEAN
  OBVIOUS
<1> HIDE DEF Init
<1> QED
  BY <1>1, <1>2, <1>3, <1>4, <1>5, <1>6 DEF TypeOK

\* Every step of the engine and of its environment keeps the types.
LEMMA NextType == TypeOK /\ [Next]_vars => TypeOK'
<1> SUFFICES ASSUME TypeOK, [Next]_vars PROVE TypeOK'
  OBVIOUS
<1> USE SyncAssumption
<1> USE DEF envVars, engineVars, loopVars, probeVars, gaugeVars, Goto
<1>1. CASE Environment
  <2>1. CASE Produce
    BY <2>1 DEF Produce, TypeOK
  <2>2. ASSUME NEW m \in Gossip \cup {Other}, Deliver(m) PROVE TypeOK'
    BY <2>2 DEF Deliver, TypeOK
  <2>3. CASE ConsensusReceive
    BY <2>3 DEF ConsensusReceive, TypeOK
  <2>4. CASE SetMetrics
    BY <2>4 DEF SetMetrics, TypeOK
  <2>5. CASE Stop
    BY <2>5 DEF Stop, TypeOK
  <2> QED
    BY <1>1, <2>1, <2>2, <2>3, <2>4, <2>5 DEF Environment
<1>2. CASE Loops
  <2>1. CASE ListenerReceive
    BY <2>1 DEF ListenerReceive, TypeOK, Goroutine, PC
  <2>2. CASE Tick
    BY <2>2 DEF Tick, TypeOK, Goroutine, PC
  <2>3. CASE ReadLocal
    BY <2>3 DEF ReadLocal, LoopFrom, MoreToFetch, NothingNew, EndRound, TypeOK, Goroutine, PC
  <2>4. CASE FetchBlock
    BY <2>4 DEF FetchBlock, Fetched, TypeOK, Goroutine, PC
  <2>5. CASE FetchNull
    BY <2>5 DEF FetchNull, Fetched, TypeOK, Goroutine, PC
  <2>6. CASE FetchFails
    BY <2>6 DEF FetchFails, EndRound, TypeOK, Goroutine, PC
  <2>7. ASSUME NEW g \in Goroutine, Exit(g) PROVE TypeOK'
    BY <2>7 DEF Exit, CtxDone, TypeOK, Goroutine, PC
  <2> QED
    BY <1>2, <2>1, <2>2, <2>3, <2>4, <2>5, <2>6, <2>7 DEF Loops
<1>3. ASSUME NEW g \in Goroutine, ProcessBlock(g) \/ CallbackReturn(g) PROVE TypeOK'
  <2>1. CASE Skip(g)
    BY <2>1, ReturnType DEF Skip
  <2>2. CASE Accept(g)
    BY <2>2 DEF Accept, NewHeight, Store, TypeOK, Goroutine, PC
  <2>3. CASE StoreSyncedBlock(g)
    BY <2>3 DEF StoreSyncedBlock, TypeOK, Goroutine, PC
  <2>4. CASE ProbeHead(g)
    BY <2>4 DEF ProbeHead, TypeOK, Goroutine, PC
  <2>5. CASE ProbeFails(g)
    BY <2>5 DEF ProbeFails, TypeOK, Goroutine, PC
  <2>6. CASE CompareHead(g)
    BY <2>6 DEF CompareHead, TypeOK, Goroutine, PC
  <2>7. CASE StoreIsSynced(g)
    BY <2>7 DEF StoreIsSynced, TypeOK, Goroutine, PC
  <2>8. CASE OnNewBlock(g)
    BY <2>8 DEF OnNewBlock, TypeOK, Goroutine, PC
  <2>9. CASE CallbackReturn(g)
    BY <2>9, ReturnType DEF CallbackReturn
  <2> QED
    BY <1>3, <2>1, <2>2, <2>3, <2>4, <2>5, <2>6, <2>7, <2>8, <2>9 DEF ProcessBlock
<1>4. CASE UNCHANGED vars
  BY <1>4 DEF vars, TypeOK
<1> QED
  BY <1>1, <1>2, <1>3, <1>4 DEF Next

\* The sync engine keeps its types: in particular syncFromRPC only ever asks for
\* blocks the sequencer has announced.
THEOREM TypeCorrect == Spec => []TypeOK
BY InitType, NextType, PTL DEF Spec

-----------------------------------------------------------------------------
(***************************************************************************)
(* The stored chain.                                                       *)
(***************************************************************************)

\* Only the critical section of processBlock touches the stored chain.
LEMMA OnlyAcceptStores ==
    ASSUME Next
    PROVE  UNCHANGED engineVars \/ \E g \in Goroutine : Accept(g)
<1> USE DEF envVars, engineVars
<1>1. CASE Environment
  BY <1>1 DEF Environment, Produce, Deliver, ConsensusReceive, SetMetrics, Stop
<1>2. CASE Loops
  BY <1>2 DEF Loops, ListenerReceive, Tick, ReadLocal, LoopFrom, MoreToFetch, FetchBlock, FetchNull, Fetched,
              FetchFails, Exit
<1>3. ASSUME NEW g \in Goroutine, ProcessBlock(g) \/ CallbackReturn(g),
             ~Accept(g)
      PROVE  UNCHANGED engineVars
  BY <1>3 DEF ProcessBlock, Skip, StoreSyncedBlock, ProbeHead, ProbeFails, CompareHead,
              StoreIsSynced, OnNewBlock, CallbackReturn
<1> QED
  BY <1>1, <1>2, <1>3 DEF Next

\* A positive latestBlock is a stored number.
LatestStored == latestBlock > 0 => latestBlock \in DOMAIN blocks

\* The inductive invariant: Contiguous alone does not say that the block below
\* the one being accepted, number latestBlock, is stored.
ChainInv == Contiguous /\ LatestStored /\ LatestIsHighest

\* What the critical section stores keeps the chain gap-free and latestBlock on top.
LEMMA AcceptKeepsChain ==
    ASSUME TypeOK, ChainInv, NEW g \in Goroutine, Accept(g)
    PROVE  ChainInv'
<1> DEFINE b == cur[g]
<1>1. /\ b.number \in Nat
      /\ b.number \notin DOMAIN blocks
      /\ b.number > 1 => b.number = latestBlock + 1
  BY SyncAssumption DEF Accept, NewHeight, Duplicate, Gap, TypeOK
<1>2. /\ DOMAIN blocks' = DOMAIN blocks \cup {b.number}
      /\ latestBlock' = b.number
  BY DEF Accept, NewHeight, Store
<1> HIDE DEF b
<1>3. Contiguous'
  <2>1. CASE b.number > 1
    <3>1. latestBlock \in DOMAIN blocks /\ latestBlock \in Nat
      BY <2>1, <1>1 DEF ChainInv, LatestStored, TypeOK
    <3>2. 1 .. latestBlock \subseteq DOMAIN blocks
      BY <3>1 DEF ChainInv, Contiguous
    <3>3. 1 .. b.number \subseteq DOMAIN blocks'
      BY <3>1, <3>2, <2>1, <1>1, <1>2
    <3> QED
      BY <3>3, <1>2 DEF ChainInv, Contiguous
  <2>2. CASE ~(b.number > 1)
    <3>1. 1 .. b.number \subseteq DOMAIN blocks'
      BY <2>2, <1>1, <1>2
    <3> QED
      BY <3>1, <1>2 DEF ChainInv, Contiguous
  <2> QED
    BY <2>1, <2>2
<1>4. LatestStored'
  BY <1>2 DEF LatestStored
<1>5. ASSUME 0 \notin DOMAIN blocks', NEW n \in DOMAIN blocks' PROVE n <= latestBlock'
  <2>1. 0 \notin DOMAIN blocks /\ b.number > 0
    BY <1>5, <1>2, <1>1
  <2>2. CASE b.number > 1
    BY <2>1, <2>2, <1>1, <1>2 DEF ChainInv, LatestIsHighest, TypeOK
  <2>3. CASE b.number = 1
    <3>1. ASSUME NEW m \in DOMAIN blocks PROVE FALSE
      <4>1. m \in Nat /\ m > 0
        BY <2>1 DEF TypeOK
      <4>2. 1 \in 1 .. m
        BY <4>1
      <4> QED
        BY <4>2, <2>3, <1>1 DEF ChainInv, Contiguous
    <3> QED
      BY <3>1, <2>3, <1>2
  <2> QED
    BY <2>1, <2>2, <2>3, <1>1
<1>6. LatestIsHighest'
  BY <1>4, <1>5 DEF LatestIsHighest, LatestStored
<1> QED
  BY <1>3, <1>4, <1>6 DEF ChainInv

\* ChainInv is inductive.
LEMMA NextChain == TypeOK /\ ChainInv /\ [Next]_vars => ChainInv'
<1> SUFFICES ASSUME TypeOK, ChainInv, [Next]_vars PROVE ChainInv'
  OBVIOUS
<1>1. CASE UNCHANGED engineVars
  BY <1>1 DEF engineVars, ChainInv, Contiguous, LatestStored, LatestIsHighest
<1>2. CASE \E g \in Goroutine : Accept(g)
  BY <1>2, AcceptKeepsChain
<1>3. CASE UNCHANGED vars
  BY <1>3, <1>1 DEF vars, engineVars
<1> QED
  BY <1>1, <1>2, <1>3, OnlyAcceptStores

\* The empty chain satisfies ChainInv.
LEMMA InitChain == Init => ChainInv
<1> SUFFICES ASSUME Init PROVE ChainInv
  OBVIOUS
<1>1. DOMAIN blocks = {} /\ latestBlock = 0
  BY DEF Init
<1> QED
  BY <1>1 DEF ChainInv, Contiguous, LatestStored, LatestIsHighest

\* ChainInv holds in every reachable state.
LEMMA ChainInvariant == Spec => []ChainInv
<1>1. TypeOK /\ ChainInv /\ [Next]_vars => ChainInv'
  BY NextChain
<1> QED
  BY <1>1, InitChain, TypeCorrect, PTL DEF Spec

\* The stored chain never has a hole, whatever peers announce and however the
\* listener and the catch-up loop interleave.
THEOREM ChainContiguous == Spec => []Contiguous
<1>1. ChainInv => Contiguous
  BY DEF ChainInv
<1> QED
  BY <1>1, ChainInvariant, PTL

\* Unless a block numbered 0 was stored, LatestBlock() is the highest stored number.
THEOREM LatestBlockHighest == Spec => []LatestIsHighest
<1>1. ChainInv => LatestIsHighest
  BY DEF ChainInv
<1> QED
  BY <1>1, ChainInvariant, PTL

-----------------------------------------------------------------------------
(***************************************************************************)
(* The callback.                                                           *)
(***************************************************************************)

\* A block between the unlock and the callback is the stored one, and no two
\* goroutines hold the same.
PendingStored ==
    /\ \A g \in Goroutine : pc[g] \in Pending =>
          /\ cur[g].number \in DOMAIN blocks
          /\ blocks[cur[g].number] = cur[g]
    /\ \A g, h \in Goroutine :
          pc[g] \in Pending /\ pc[h] \in Pending /\ g # h =>
              cur[g].number # cur[h].number

\* The map is keyed by the number of the block.
Numbered == \A n \in DOMAIN blocks : blocks[n].number = n

\* The inductive invariant: NotifiedExactlyOnce needs to know what the goroutines
\* on their way to the callback hold.
NotifyInv == NotifiedExactlyOnce /\ PendingStored /\ Numbered

\* A step that neither stores a block nor calls the callback.
Quiet ==
    /\ UNCHANGED <<blocks, delivered>>
    /\ \A g \in Goroutine :
          /\ pc'[g] \in Pending <=> pc[g] \in Pending
          /\ pc[g] \in Pending => cur'[g] = cur[g]

\* Every step stores a block, calls the callback, or is quiet.
LEMMA StepKinds ==
    ASSUME TypeOK, [Next]_vars
    PROVE  Quiet \/ \E g \in Goroutine : Accept(g) \/ OnNewBlock(g)
<1> USE DEF envVars, engineVars, gaugeVars, probeVars, loopVars, Goto, Pending,
            Goroutine, Quiet
<1> /\ pc \in [Goroutine -> PC]
    /\ cur \in [Goroutine -> Block]
  BY DEF TypeOK
<1>1. CASE Environment
  BY <1>1 DEF Environment, Produce, Deliver, ConsensusReceive, SetMetrics, Stop
<1>2. CASE Loops
  <2>1. CASE ListenerReceive
    BY <2>1 DEF ListenerReceive
  <2>2. CASE Tick
    BY <2>2 DEF Tick
  <2>3. CASE ReadLocal
    BY <2>3 DEF ReadLocal, LoopFrom, MoreToFetch, NothingNew, EndRound
  <2>4. CASE FetchBlock
    BY <2>4 DEF FetchBlock, Fetched
  <2>5. CASE FetchNull
    BY <2>5 DEF FetchNull, Fetched
  <2>6. CASE FetchFails
    BY <2>6 DEF FetchFails, EndRound
  <2>7. ASSUME NEW g \in Goroutine, Exit(g) PROVE Quiet
    BY <2>7 DEF Exit, CtxDone
  <2> QED
    BY <1>2, <2>1, <2>2, <2>3, <2>4, <2>5, <2>6, <2>7 DEF Loops
<1>3. ASSUME NEW g \in Goroutine, ProcessBlock(g) \/ CallbackReturn(g),
             ~Accept(g), ~OnNewBlock(g)
      PROVE  Quiet
  <2>1. CASE Skip(g) \/ CallbackReturn(g)
    BY <2>1 DEF Skip, CallbackReturn, Return, LoopFrom, MoreToFetch, DropLocals, EndRound
  <2>2. CASE StoreSyncedBlock(g)
    BY <2>2 DEF StoreSyncedBlock
  <2>3. CASE ProbeHead(g)
    BY <2>3 DEF ProbeHead
  <2>4. CASE ProbeFails(g)
    BY <2>4 DEF ProbeFails
  <2>5. CASE CompareHead(g)
    BY <2>5 DEF CompareHead
  <2>6. CASE StoreIsSynced(g)
    BY <2>6 DEF StoreIsSynced
  <2> QED
    BY <1>3, <2>1, <2>2, <2>3, <2>4, <2>5, <2>6 DEF ProcessBlock
<1>4. CASE UNCHANGED vars
  BY <1>4 DEF vars
<1> QED
  BY <1>1, <1>2, <1>3, <1>4 DEF Next

\* Quiet steps keep the invariant.
LEMMA QuietKeepsNotify ==
    ASSUME TypeOK, NotifyInv, Quiet
    PROVE  NotifyInv'
<1>1. UNCHANGED Notified
  BY DEF Quiet, Notified
<1>2. PendingStored'
  BY DEF NotifyInv, PendingStored, Quiet
<1>3. ASSUME NEW n \in DOMAIN blocks' \ Notified'
      PROVE  \E g \in Goroutine : pc'[g] \in Pending /\ cur'[g] = blocks'[n]
  BY <1>1, <1>3 DEF NotifyInv, NotifiedExactlyOnce, Quiet
<1>4. ASSUME NEW g \in Goroutine, pc'[g] \in Pending PROVE cur'[g].number \notin Notified'
  BY <1>1, <1>4 DEF NotifyInv, NotifiedExactlyOnce, Quiet
<1>5. NotifiedExactlyOnce'
  <2> delivered' = delivered /\ blocks' = blocks
    BY DEF Quiet
  <2> QED
    BY <1>3, <1>4 DEF NotifyInv, NotifiedExactlyOnce
<1>6. Numbered'
  BY DEF NotifyInv, Numbered, Quiet
<1> QED
  BY <1>2, <1>5, <1>6 DEF NotifyInv

\* A stored block joins the blocks on their way to the callback.
LEMMA AcceptKeepsNotify ==
    ASSUME TypeOK, NotifyInv, NEW g \in Goroutine, Accept(g)
    PROVE  NotifyInv'
<1>1. /\ cur[g].number \notin DOMAIN blocks
      /\ DOMAIN blocks' = DOMAIN blocks \cup {cur[g].number}
      /\ blocks'[cur[g].number] = cur[g]
      /\ \A n \in DOMAIN blocks : blocks'[n] = blocks[n]
  BY DEF Accept, NewHeight, Duplicate, Store
<1>2. /\ UNCHANGED <<cur, delivered>>
      /\ pc' = [pc EXCEPT ![g] = "metrics"]
      /\ pc'[g] \in Pending
      /\ \A h \in Goroutine : h # g => pc'[h] = pc[h]
      /\ pc[g] \notin Pending
  BY DEF Accept, NewHeight, Goto, Pending, TypeOK
<1>3. UNCHANGED Notified
  BY <1>2 DEF Notified
<1>4. cur[g].number \notin Notified
  BY <1>1 DEF NotifyInv, NotifiedExactlyOnce, Notified
<1>5. PendingStored'
  <2>1. ASSUME NEW h \in Goroutine, pc'[h] \in Pending
        PROVE  cur'[h].number \in DOMAIN blocks' /\ blocks'[cur'[h].number] = cur'[h]
    BY <2>1, <1>1, <1>2 DEF NotifyInv, PendingStored
  <2>2. ASSUME NEW h \in Goroutine, NEW k \in Goroutine, pc'[h] \in Pending,
               pc'[k] \in Pending, h # k
        PROVE  cur'[h].number # cur'[k].number
    BY <2>2, <1>1, <1>2 DEF NotifyInv, PendingStored
  <2> QED
    BY <2>1, <2>2 DEF PendingStored
<1>6. ASSUME NEW n \in DOMAIN blocks' \ Notified'
      PROVE  \E h \in Goroutine : pc'[h] \in Pending /\ cur'[h] = blocks'[n]
  <2>1. CASE n = cur[g].number
    BY <2>1, <1>1, <1>2
  <2>2. CASE n # cur[g].number
    <3>1. PICK h \in Goroutine : pc[h] \in Pending /\ cur[h] = blocks[n]
      BY <2>2, <1>1, <1>3, <1>6 DEF NotifyInv, NotifiedExactlyOnce
    <3> QED
      BY <3>1, <2>2, <1>1, <1>2, <1>6
  <2> QED
    BY <2>1, <2>2
<1>7. ASSUME NEW h \in Goroutine, pc'[h] \in Pending PROVE cur'[h].number \notin Notified'
  BY <1>7, <1>2, <1>3, <1>4 DEF NotifyInv, NotifiedExactlyOnce
<1>8. NotifiedExactlyOnce'
  <2>1. \A i \in 1 .. Len(delivered') :
           /\ delivered'[i].number \in DOMAIN blocks'
           /\ blocks'[delivered'[i].number] = delivered'[i]
    BY <1>1, <1>2 DEF NotifyInv, NotifiedExactlyOnce
  <2>2. \A i, j \in 1 .. Len(delivered') :
           delivered'[i].number = delivered'[j].number => i = j
    BY <1>2 DEF NotifyInv, NotifiedExactlyOnce
  <2> QED
    BY <2>1, <2>2, <1>6, <1>7 DEF NotifiedExactlyOnce
<1>9. Numbered'
  BY <1>1 DEF NotifyInv, Numbered
<1> QED
  BY <1>5, <1>8, <1>9 DEF NotifyInv

\* The callback takes over a block that it was never given before.
LEMMA CallbackKeepsNotify ==
    ASSUME TypeOK, NotifyInv, NEW g \in Goroutine, OnNewBlock(g)
    PROVE  NotifyInv'
<1> DEFINE b == cur[g]
<1>1. /\ UNCHANGED <<cur, blocks>>
      /\ pc[g] \in Pending
      /\ pc' = [pc EXCEPT ![g] = "callback"]
      /\ pc'[g] \notin Pending
      /\ \A h \in Goroutine : h # g => pc'[h] = pc[h]
  BY DEF OnNewBlock, Goto, Pending, TypeOK, engineVars
<1>2. /\ delivered \in Seq(Block)
      /\ b \in Block
      /\ delivered' = Append(delivered, b)
  BY DEF OnNewBlock, TypeOK
<1>3. /\ Len(delivered') = Len(delivered) + 1
      /\ delivered'[Len(delivered) + 1] = b
      /\ \A i \in 1 .. Len(delivered) : delivered'[i] = delivered[i]
      /\ Len(delivered) \in Nat
  BY <1>2
<1>4. Notified' = Notified \cup {b.number}
  BY <1>3 DEF Notified
<1>5. /\ b.number \notin Notified
      /\ b.number \in DOMAIN blocks
      /\ blocks[b.number] = b
  BY <1>1 DEF NotifyInv, NotifiedExactlyOnce, PendingStored
<1> HIDE DEF b
<1>6. PendingStored'
  BY <1>1 DEF NotifyInv, PendingStored
<1>7. ASSUME NEW n \in DOMAIN blocks' \ Notified'
      PROVE  \E h \in Goroutine : pc'[h] \in Pending /\ cur'[h] = blocks'[n]
  <2>1. PICK h \in Goroutine : pc[h] \in Pending /\ cur[h] = blocks[n]
    BY <1>1, <1>4, <1>7 DEF NotifyInv, NotifiedExactlyOnce
  <2>2. h # g
    BY <2>1, <1>1, <1>4, <1>7 DEF b, NotifyInv, Numbered
  <2> QED
    BY <2>1, <2>2, <1>1
<1>8. ASSUME NEW h \in Goroutine, pc'[h] \in Pending PROVE cur'[h].number \notin Notified'
  <2>1. h # g /\ pc[h] \in Pending /\ cur'[h] = cur[h]
    BY <1>8, <1>1
  <2>2. cur[h].number \notin Notified /\ cur[h].number # b.number
    BY <2>1, <1>1 DEF b, NotifyInv, NotifiedExactlyOnce, PendingStored
  <2> QED
    BY <2>1, <2>2, <1>4
<1>9. \A i \in 1 .. Len(delivered') :
         /\ delivered'[i].number \in DOMAIN blocks'
         /\ blocks'[delivered'[i].number] = delivered'[i]
  BY <1>1, <1>3, <1>5 DEF NotifyInv, NotifiedExactlyOnce
<1>10. \A i, j \in 1 .. Len(delivered') :
          delivered'[i].number = delivered'[j].number => i = j
  <2>1. \A i \in 1 .. Len(delivered) : delivered[i].number # b.number
    BY <1>5 DEF Notified
  <2>2. \A i, j \in 1 .. Len(delivered) :
           delivered[i].number = delivered[j].number => i = j
    BY DEF NotifyInv, NotifiedExactlyOnce
  <2> QED
    BY <2>1, <2>2, <1>3
<1>11. Numbered'
  BY <1>1 DEF NotifyInv, Numbered
<1> QED
  BY <1>6, <1>7, <1>8, <1>9, <1>10, <1>11 DEF NotifyInv, NotifiedExactlyOnce

\* Before the first step nothing is stored and nothing was handed over.
LEMMA InitNotify == Init => NotifyInv
<1> SUFFICES ASSUME Init PROVE NotifyInv
  OBVIOUS
<1>1. /\ DOMAIN blocks = {}
      /\ Len(delivered) = 0
      /\ \A g \in Goroutine : pc[g] = "idle"
  BY DEF Init
<1> QED
  BY <1>1 DEF NotifyInv, NotifiedExactlyOnce, PendingStored, Numbered, Pending

\* NotifyInv is inductive.
LEMMA NextNotify == TypeOK /\ NotifyInv /\ [Next]_vars => NotifyInv'
BY StepKinds, QuietKeepsNotify, AcceptKeepsNotify, CallbackKeepsNotify

\* NotifyInv holds in every reachable state.
LEMMA NotifyInvariant == Spec => []NotifyInv
BY InitNotify, NextNotify, TypeCorrect, PTL DEF Spec

\* onNewBlock runs exactly once for every stored block, whatever the two
\* goroutines receive and however they interleave.
THEOREM NotifiedOnce == Spec => []NotifiedExactlyOnce
<1>1. NotifyInv => NotifiedExactlyOnce
  BY DEF NotifyInv
<1> QED
  BY <1>1, NotifyInvariant, PTL

-----------------------------------------------------------------------------
(***************************************************************************)
(* The catch-up loop.                                                      *)
(***************************************************************************)

\* The inductive invariant: until a block numbered 0 is stored, the number the
\* loop is at is at most one above latestBlock, and stored once processed.
LoopInv ==
    0 \notin DOMAIN blocks =>
        /\ pc["rpc"] = "fetch" => num <= latestBlock + 1
        /\ pc["rpc"] = "process" =>
              num <= latestBlock + 1 /\ cur["rpc"].number \in {0, num}
        /\ pc["rpc"] \in Pending \cup {"callback"} => num <= latestBlock

\* Storing a block other than number 0 never moves latestBlock back.
LEMMA AcceptMonotone ==
    ASSUME TypeOK, ChainInv, NEW g \in Goroutine, Accept(g), 0 \notin DOMAIN blocks'
    PROVE  latestBlock <= latestBlock' /\ 0 \notin DOMAIN blocks
<1>1. ChainInv' /\ TypeOK'
  <2>1. Next
    BY DEF Next, ProcessBlock
  <2> QED
    BY <2>1, AcceptKeepsChain, NextType
<1>2. DOMAIN blocks \subseteq DOMAIN blocks'
  BY DEF Accept, NewHeight, Store
<1>3. CASE latestBlock = 0
  BY <1>1, <1>2, <1>3 DEF TypeOK
<1>4. CASE latestBlock > 0
  <2>1. latestBlock \in DOMAIN blocks'
    BY <1>2, <1>4 DEF ChainInv, LatestStored
  <2> QED
    BY <2>1, <1>1, <1>2 DEF ChainInv, LatestIsHighest
<1> QED
  BY <1>3, <1>4 DEF TypeOK

\* A block the loop fetched and does not store is stored already.
LEMMA FetchedKnownOrNext ==
    ASSUME TypeOK, ChainInv, LoopInv, 0 \notin DOMAIN blocks, pc["rpc"] = "process"
    PROVE  /\ Duplicate(cur["rpc"]) \/ ~Gap(cur["rpc"])
           /\ Duplicate(cur["rpc"]) => num <= latestBlock
<1> DEFINE n == cur["rpc"].number
<1>1. /\ n \in Nat
      /\ latestBlock \in Nat
      /\ num \in Nat
      /\ num <= latestBlock + 1
      /\ n \in {0, num}
  BY SyncAssumption DEF TypeOK, LoopInv, Goroutine
<1>2. ASSUME n > 1, n # latestBlock + 1 PROVE n \in DOMAIN blocks
  <2>1. n \in 1 .. latestBlock /\ latestBlock > 0
    BY <1>1, <1>2
  <2> QED
    BY <2>1 DEF ChainInv, LatestStored, Contiguous
<1>3. ASSUME n \in DOMAIN blocks PROVE num <= latestBlock
  BY <1>1, <1>3 DEF ChainInv, LatestIsHighest
<1> QED
  BY <1>2, <1>3 DEF Duplicate, Gap

\* LoopInv is inductive, relative to the types and the chain invariant.
LEMMA NextLoop == TypeOK /\ ChainInv /\ LoopInv /\ [Next]_vars => LoopInv'
<1> SUFFICES ASSUME TypeOK, ChainInv, LoopInv, [Next]_vars, 0 \notin DOMAIN blocks'
             PROVE  LoopInv'
  BY DEF LoopInv
<1> USE DEF envVars, engineVars, loopVars, probeVars, gaugeVars, Goto, Pending
<1>0. /\ pc \in [Goroutine -> PC]
      /\ cur \in [Goroutine -> Block]
      /\ {num, latestBlock, remoteLatest} \subseteq Nat
      /\ "rpc" \in Goroutine /\ "p2p" \in Goroutine
  BY SyncAssumption DEF TypeOK, Goroutine
<1>1. CASE Environment
  BY <1>1 DEF Environment, Produce, Deliver, ConsensusReceive, SetMetrics, Stop, LoopInv
<1>2. CASE Loops
  <2>1. CASE ListenerReceive
    BY <2>1, <1>0 DEF ListenerReceive, LoopInv
  <2>2. CASE Tick
    BY <2>2, <1>0 DEF Tick, LoopInv
  <2>3. CASE ReadLocal
    BY <2>3, <1>0 DEF ReadLocal, LoopFrom, MoreToFetch, NothingNew, EndRound, LoopInv
  <2>4. CASE FetchBlock
    <3>1. Chain[num].number = num
      BY <2>4, SyncAssumption DEF FetchBlock, Fetched, TypeOK
    <3> QED
      BY <2>4, <3>1, <1>0 DEF FetchBlock, Fetched, LoopInv
  <2>5. CASE FetchNull
    BY <2>5, <1>0, SyncAssumption DEF FetchNull, Fetched, LoopInv
  <2>6. CASE FetchFails
    BY <2>6, <1>0 DEF FetchFails, EndRound, LoopInv
  <2>7. ASSUME NEW g \in Goroutine, Exit(g) PROVE LoopInv'
    BY <2>7, <1>0 DEF Exit, CtxDone, LoopInv, Goroutine
  <2> QED
    BY <1>2, <2>1, <2>2, <2>3, <2>4, <2>5, <2>6, <2>7 DEF Loops
<1>3. ASSUME NEW g \in Goroutine, ProcessBlock(g) \/ CallbackReturn(g) PROVE LoopInv'
  <2>1. CASE Skip(g)
    <3>1. CASE g = "p2p"
      BY <2>1, <3>1, <1>0 DEF Skip, Return, LoopFrom, MoreToFetch, DropLocals, LoopInv
    <3>2. CASE g = "rpc"
      <4>1. num <= latestBlock
        BY <2>1, <3>2, FetchedKnownOrNext DEF Skip
      <4> QED
        BY <2>1, <3>2, <4>1, <1>0 DEF Skip, Return, LoopFrom, MoreToFetch, DropLocals, EndRound, LoopInv
    <3> QED
      BY <3>1, <3>2 DEF Goroutine
  <2>2. CASE Accept(g)
    <3>1. latestBlock <= latestBlock' /\ 0 \notin DOMAIN blocks /\ latestBlock' \in Nat
      BY <2>2, AcceptMonotone, <1>0, SyncAssumption DEF Accept, NewHeight, TypeOK
    <3>2. CASE g = "p2p"
      BY <2>2, <3>1, <3>2, <1>0 DEF Accept, NewHeight, LoopInv
    <3>3. CASE g = "rpc"
      <4>1. cur[g].number # 0
        BY <2>2 DEF Accept, NewHeight, Store
      <4> QED
        BY <2>2, <3>1, <3>3, <4>1, <1>0 DEF Accept, NewHeight, LoopInv
    <3> QED
      BY <3>2, <3>3 DEF Goroutine
  <2>3. CASE StoreSyncedBlock(g)
    BY <2>3, <1>0 DEF StoreSyncedBlock, LoopInv, Goroutine
  <2>4. CASE ProbeHead(g)
    BY <2>4, <1>0 DEF ProbeHead, LoopInv, Goroutine
  <2>5. CASE ProbeFails(g)
    BY <2>5, <1>0 DEF ProbeFails, LoopInv, Goroutine
  <2>6. CASE CompareHead(g)
    BY <2>6, <1>0 DEF CompareHead, LoopInv, Goroutine
  <2>7. CASE StoreIsSynced(g)
    BY <2>7, <1>0 DEF StoreIsSynced, LoopInv, Goroutine
  <2>8. CASE OnNewBlock(g)
    BY <2>8, <1>0 DEF OnNewBlock, LoopInv, Goroutine
  <2>9. CASE CallbackReturn(g)
    BY <2>9, <1>0 DEF CallbackReturn, Return, LoopFrom, MoreToFetch, DropLocals, EndRound, LoopInv, Goroutine
  <2> QED
    BY <1>3, <2>1, <2>2, <2>3, <2>4, <2>5, <2>6, <2>7, <2>8, <2>9 DEF ProcessBlock
<1>4. CASE UNCHANGED vars
  BY <1>4 DEF vars, LoopInv
<1> QED
  BY <1>1, <1>2, <1>3, <1>4 DEF Next

\* Unless a block numbered 0 was stored, the catch-up loop never defers a block it
\* fetched, however the listener moves latestBlock in the meantime.
THEOREM CatchUpSound == Spec => []CatchUpNeverDefers
<1>1. Init => LoopInv
  BY DEF Init, LoopInv, Pending, Goroutine
<1>2. TypeOK /\ ChainInv /\ LoopInv /\ [Next]_vars => LoopInv'
  BY NextLoop
<1>3. TypeOK /\ ChainInv /\ LoopInv => CatchUpNeverDefers
  BY FetchedKnownOrNext DEF CatchUpNeverDefers
<1> QED
  BY <1>1, <1>2, <1>3, TypeCorrect, ChainInvariant, PTL DEF Spec

-----------------------------------------------------------------------------
(***************************************************************************)
(* The order of storing.                                                   *)
(***************************************************************************)

\* No block numbered 0 comes in: the sequencer's replies are not null, and peers
\* announce none.
NoBlockZero == NullReplies = FALSE /\ \A b \in Gossip : b.number # 0

\* The inductive invariant: neither stored nor about to be.
ZeroFree ==
    /\ 0 \notin DOMAIN blocks
    /\ \A g \in Goroutine : pc[g] = "process" => cur[g].number # 0

\* A step of the loops brings no block numbered 0.
LEMMA LoopsZeroFree ==
    ASSUME NoBlockZero, TypeOK, ZeroFree, Loops
    PROVE  ZeroFree'
<1> USE DEF engineVars, Goto
<1>0. /\ pc \in [Goroutine -> PC]
      /\ cur \in [Goroutine -> Block]
      /\ "rpc" \in Goroutine /\ "p2p" \in Goroutine
  BY DEF TypeOK, Goroutine
<1>1. CASE ListenerReceive
  <2>1. Head(msgCh) \in Gossip \cup {Other}
    BY <1>1 DEF ListenerReceive, TypeOK
  <2> QED
    BY <1>0, <1>1, <2>1 DEF ListenerReceive, ZeroFree, NoBlockZero
<1>2. CASE Tick
  BY <1>0, <1>2 DEF Tick, ZeroFree
<1>3. CASE ReadLocal
  BY <1>0, <1>3 DEF ReadLocal, LoopFrom, MoreToFetch, EndRound, ZeroFree
<1>4. CASE FetchBlock
  <2>1. Chain[num].number # 0
    BY <1>4, SyncAssumption DEF FetchBlock, Fetched, TypeOK
  <2> QED
    BY <1>0, <1>4, <2>1 DEF FetchBlock, Fetched, ZeroFree
<1>5. CASE FetchNull
  BY <1>5 DEF FetchNull, NoBlockZero
<1>6. CASE FetchFails
  BY <1>0, <1>6 DEF FetchFails, EndRound, ZeroFree
<1>7. ASSUME NEW g \in Goroutine, Exit(g) PROVE ZeroFree'
  BY <1>0, <1>7 DEF Exit, ZeroFree
<1> QED
  BY <1>1, <1>2, <1>3, <1>4, <1>5, <1>6, <1>7 DEF Loops

\* ZeroFree is inductive.
LEMMA NextZeroFree ==
    ASSUME NoBlockZero
    PROVE  TypeOK /\ ZeroFree /\ [Next]_vars => ZeroFree'
<1> SUFFICES ASSUME TypeOK, ZeroFree, [Next]_vars PROVE ZeroFree'
  OBVIOUS
<1> USE DEF engineVars, Goto
<1>0. /\ pc \in [Goroutine -> PC]
      /\ cur \in [Goroutine -> Block]
  BY DEF TypeOK
<1>1. CASE Environment
  BY <1>1 DEF Environment, Produce, Deliver, ConsensusReceive, SetMetrics, Stop, ZeroFree
<1>2. CASE Loops
  BY <1>2, LoopsZeroFree
<1>3. ASSUME NEW g \in Goroutine, ProcessBlock(g) \/ CallbackReturn(g) PROVE ZeroFree'
  <2>1. CASE Skip(g) \/ CallbackReturn(g)
    BY <2>1, <1>0 DEF Skip, CallbackReturn, Return, LoopFrom, MoreToFetch, DropLocals, EndRound, ZeroFree
  <2>2. CASE Accept(g)
    BY <2>2, <1>0 DEF Accept, Store, ZeroFree
  <2>3. CASE StoreSyncedBlock(g)
    BY <2>3, <1>0 DEF StoreSyncedBlock, ZeroFree
  <2>4. CASE ProbeHead(g) \/ ProbeFails(g)
    BY <2>4, <1>0 DEF ProbeHead, ProbeFails, ZeroFree
  <2>5. CASE CompareHead(g) \/ StoreIsSynced(g)
    BY <2>5, <1>0 DEF CompareHead, StoreIsSynced, ZeroFree
  <2>6. CASE OnNewBlock(g)
    BY <2>6, <1>0 DEF OnNewBlock, ZeroFree
  <2> QED
    BY <1>3, <2>1, <2>2, <2>3, <2>4, <2>5, <2>6 DEF ProcessBlock
<1>4. CASE UNCHANGED vars
  BY <1>4 DEF vars, ZeroFree
<1> QED
  BY <1>1, <1>2, <1>3, <1>4 DEF Next

\* Without blocks numbered 0, the first block of the chain is stored first.
LEMMA AcceptInSequence ==
    ASSUME TypeOK, ChainInv, ZeroFree, NEW g \in Goroutine, Accept(g),
           NEW n \in DOMAIN blocks' \ DOMAIN blocks
    PROVE  DOMAIN blocks = {} \/ n = latestBlock + 1
<1>1. n = cur[g].number /\ n \in Nat /\ n # 0 /\ (n > 1 => n = latestBlock + 1)
  BY SyncAssumption DEF Accept, Store, Gap, ZeroFree, TypeOK
<1>2. ASSUME n = 1, NEW m \in DOMAIN blocks PROVE FALSE
  <2>1. m \in Nat \ {0}
    BY DEF TypeOK, ZeroFree
  <2>2. 1 \in 1 .. m
    BY <2>1
  <2>3. 1 \in DOMAIN blocks
    BY <2>2 DEF ChainInv, Contiguous
  <2> QED
    BY <1>2, <2>3
<1>3. n = 1 => DOMAIN blocks = {}
  BY <1>2
<1>4. n = 1 \/ n > 1
  BY <1>1
<1> QED
  BY <1>1, <1>3, <1>4

\* As long as no block numbered 0 comes in, processBlock stores a block only on top
\* of the latest one, whichever goroutine brings it.
THEOREM StoresInSequence ==
    ASSUME NoBlockZero
    PROVE  Spec => NextInSequence
<1>1. Init => ZeroFree
  BY DEF Init, ZeroFree
<1>2. TypeOK /\ ZeroFree /\ [Next]_vars => ZeroFree'
  BY NextZeroFree
<1>3. TypeOK /\ ChainInv /\ ZeroFree /\ [Next]_vars =>
         [\A n \in DOMAIN blocks' \ DOMAIN blocks :
             DOMAIN blocks = {} \/ n = latestBlock + 1]_vars
  BY OnlyAcceptStores, AcceptInSequence DEF engineVars
<1> QED
  BY <1>1, <1>2, <1>3, TypeCorrect, ChainInvariant, PTL DEF Spec, NextInSequence

=============================================================================
