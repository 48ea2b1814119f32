----------------------------- MODULE NodeProofs -----------------------------
(***************************************************************************)
(* Proofs about ValidatorNode, the engines put together: what the node     *)
(* signs.  The sync and verification engines are used through the lemmas   *)
(* that SyncEngineProofs and VerificationProofs prove about them.          *)
(***************************************************************************)
EXTENDS ValidatorNode, TLAPS

SyncThm == INSTANCE SyncEngineProofs

VerThm == INSTANCE VerificationProofs

-----------------------------------------------------------------------------
(***************************************************************************)
(* A step of the node is a step of each engine, or leaves it alone.        *)
(***************************************************************************)

\* The node's instances of the engines and those of their proofs say the same.
LEMMA SameEngines ==
    /\ Sync!TypeOK <=> SyncThm!TypeOK
    /\ Ver!VTypeOK <=> VerThm!VTypeOK
    /\ Ver!NoClaimOnTorn <=> VerThm!NoClaimOnTorn
    /\ Sync!Init <=> SyncThm!Init
    /\ Ver!VInit <=> VerThm!VInit
<1>1. Sync!TypeOK <=> SyncThm!TypeOK
  BY DEF Sync!TypeOK, SyncThm!TypeOK, Sync!PC, SyncThm!PC, Sync!Goroutine, SyncThm!Goroutine
<1>2. Ver!VTypeOK <=> VerThm!VTypeOK
  BY DEF Ver!VTypeOK, VerThm!VTypeOK, Ver!VPC, VerThm!VPC
<1>3. Ver!NoClaimOnTorn <=> VerThm!NoClaimOnTorn
  BY DEF Ver!NoClaimOnTorn, VerThm!NoClaimOnTorn
<1>4. Sync!Init <=> SyncThm!Init
  BY DEF Sync!Init, SyncThm!Init, Sync!Goroutine, SyncThm!Goroutine
<1>5. Ver!VInit <=> VerThm!VInit
  BY DEF Ver!VInit, VerThm!VInit
<1> QED
  BY <1>1, <1>2, <1>3, <1>4, <1>5

\* What one goroutine's step in processBlock is, in either instance.
LEMMA SameProcessBlock ==
    ASSUME NEW g \in Goroutine, Sync!ProcessBlock(g)
    PROVE  SyncThm!ProcessBlock(g)
<1> USE DEF Sync!envVars, Sync!engineVars, Sync!gaugeVars, Sync!probeVars, Sync!loopVars,
            SyncThm!envVars, SyncThm!engineVars, SyncThm!gaugeVars, SyncThm!probeVars,
            SyncThm!loopVars, Sync!Goto, SyncThm!Goto
<1>1. Sync!Skip(g) => SyncThm!Skip(g)
  BY DEF Sync!Skip, Sync!Return, Sync!LoopFrom, Sync!MoreToFetch, Sync!DropLocals, Sync!EndRound, Sync!Duplicate, Sync!Gap,
         SyncThm!Skip, SyncThm!Return, SyncThm!LoopFrom, SyncThm!MoreToFetch, SyncThm!DropLocals, SyncThm!EndRound,
         SyncThm!Duplicate, SyncThm!Gap
<1>2. Sync!Accept(g) => SyncThm!Accept(g)
  BY DEF Sync!Accept, Sync!Duplicate, Sync!Gap, Sync!Store, Sync!NewHeight,
         SyncThm!Accept, SyncThm!Duplicate, SyncThm!Gap, SyncThm!Store, SyncThm!NewHeight
<1>3. Sync!StoreSyncedBlock(g) => SyncThm!StoreSyncedBlock(g)
  BY DEF Sync!StoreSyncedBlock, SyncThm!StoreSyncedBlock
<1>4. Sync!ProbeHead(g) => SyncThm!ProbeHead(g)
  BY DEF Sync!ProbeHead, SyncThm!ProbeHead
<1>5. Sync!ProbeFails(g) => SyncThm!ProbeFails(g)
  BY DEF Sync!ProbeFails, SyncThm!ProbeFails
<1>6. Sync!CompareHead(g) => SyncThm!CompareHead(g)
  BY DEF Sync!CompareHead, SyncThm!CompareHead
<1>7. Sync!StoreIsSynced(g) => SyncThm!StoreIsSynced(g)
  BY DEF Sync!StoreIsSynced, SyncThm!StoreIsSynced
<1>8. Sync!OnNewBlock(g) => SyncThm!OnNewBlock(g)
  BY DEF Sync!OnNewBlock, SyncThm!OnNewBlock
<1> QED
  BY <1>1, <1>2, <1>3, <1>4, <1>5, <1>6, <1>7, <1>8
  DEF Sync!ProcessBlock, SyncThm!ProcessBlock

\* The two loops, in either instance.
LEMMA SameLoops ==
    ASSUME Sync!Loops
    PROVE  SyncThm!Loops
<1> USE DEF Sync!envVars, Sync!engineVars, Sync!gaugeVars, Sync!probeVars, Sync!loopVars,
            SyncThm!envVars, SyncThm!engineVars, SyncThm!gaugeVars, SyncThm!probeVars,
            SyncThm!loopVars, Sync!Goto, SyncThm!Goto, Sync!EndRound, SyncThm!EndRound,
            Sync!Fetched, SyncThm!Fetched
<1>1. Sync!ListenerReceive => SyncThm!ListenerReceive
  BY DEF Sync!ListenerReceive, SyncThm!ListenerReceive
<1>2. Sync!Tick => SyncThm!Tick
  BY DEF Sync!Tick, SyncThm!Tick
<1>3. Sync!ReadLocal => SyncThm!ReadLocal
  BY DEF Sync!ReadLocal, Sync!LoopFrom, Sync!MoreToFetch, Sync!NothingNew, SyncThm!ReadLocal, SyncThm!LoopFrom, SyncThm!MoreToFetch, SyncThm!NothingNew
<1>4. Sync!FetchBlock => SyncThm!FetchBlock
  BY DEF Sync!FetchBlock, SyncThm!FetchBlock
<1>5. Sync!FetchNull => SyncThm!FetchNull
  BY DEF Sync!FetchNull, SyncThm!FetchNull
<1>6. Sync!FetchFails => SyncThm!FetchFails
  BY DEF Sync!FetchFails, SyncThm!FetchFails
<1>7. (\E g \in Sync!Goroutine : Sync!Exit(g)) => \E g \in SyncThm!Goroutine : SyncThm!Exit(g)
  BY DEF Sync!Exit, Sync!CtxDone, SyncThm!Exit, SyncThm!CtxDone, Sync!Goroutine,
         SyncThm!Goroutine
<1> QED
  BY <1>1, <1>2, <1>3, <1>4, <1>5, <1>6, <1>7 DEF Sync!Loops, SyncThm!Loops

\* A step of the sync engine in the node is one of its environment, its loops or
\* processBlock.
LEMMA SameSync ==
    ASSUME SyncStep
    PROVE  \/ SyncThm!Environment
           \/ SyncThm!Loops
           \/ \E g \in SyncThm!Goroutine : SyncThm!ProcessBlock(g)
<1> USE DEF Sync!envVars, Sync!engineVars, Sync!gaugeVars, Sync!probeVars, Sync!loopVars,
            SyncThm!envVars, SyncThm!engineVars, SyncThm!gaugeVars, SyncThm!probeVars,
            SyncThm!loopVars
<1>1. CASE Sync!Produce
  BY <1>1 DEF Sync!Produce, SyncThm!Environment, SyncThm!Produce
<1>2. CASE \E m \in Gossip \cup {Other} : Sync!Deliver(m)
  BY <1>2 DEF Sync!Deliver, SyncThm!Environment, SyncThm!Deliver
<1>3. CASE Sync!ConsensusReceive
  BY <1>3 DEF Sync!ConsensusReceive, SyncThm!Environment, SyncThm!ConsensusReceive
<1>4. CASE Sync!Stop
  BY <1>4 DEF Sync!Stop, SyncThm!Environment, SyncThm!Stop
<1>5. CASE Sync!Loops
  BY <1>5, SameLoops
<1>6. CASE \E g \in Goroutine : Sync!ProcessBlock(g)
  BY <1>6, SameProcessBlock DEF Goroutine, SyncThm!Goroutine
<1> QED
  BY <1>1, <1>2, <1>3, <1>4, <1>5, <1>6 DEF SyncStep

-----------------------------------------------------------------------------
(***************************************************************************)
(* The inductive invariant.                                                *)
(***************************************************************************)

\* b is the block stored under its number.
Stored(b) == b.number \in DOMAIN blocks /\ blocks[b.number] = b

\* What is known of each engine by itself.
EnginesInv ==
    /\ SyncThm!TypeOK
    /\ SyncThm!ChainInv
    /\ SyncThm!NotifyInv
    /\ VerThm!VTypeOK

(***************************************************************************)
(* A goroutine in the callback holds a stored block that was handed over   *)
(* and is not signed yet, and no other goroutine in the callback holds the *)
(* same one: this is why the goroutine that signs signs a new height.      *)
(***************************************************************************)
CallbackInv ==
    /\ \A g \in Goroutine : pc[g] = "callback" =>
          /\ Stored(cur[g])
          /\ cur[g].number \in SyncThm!Notified
          /\ cur[g].number \notin AttestedNumbers
    /\ \A g, h \in Goroutine :
          pc[g] = "callback" /\ pc[h] = "callback" /\ g # h =>
              cur[g].number # cur[h].number
    /\ AttestedNumbers \subseteq SyncThm!Notified

\* The blocks found valid.
ValidBlocks == {e.block : e \in verified}

\* A goroutine inside VerifyBlock is inside the callback with the same block, and
\* only stored blocks are verified, for whomever.
VerifyInv ==
    /\ \A g \in Goroutine : vpc[g] # "idle" => pc[g] = "callback" /\ vblk[g] = cur[g]
    /\ \A t \in Caller : vpc[t] # "idle" => Stored(vblk[t])
    /\ \A t \in Caller : vpc[t] = "valid" => vblk[t] \in ValidBlocks
    /\ \A b \in ValidBlocks : Stored(b)

\* A broadcast attestation is a new height, and the stored, valid block there.
Signature == [number : Nat, hash : {HexToHash[b.hash] : b \in Block}, validator : {Local},
              signed : BOOLEAN]

SignedInv ==
    /\ broadcasts \in Seq(Signature)
    /\ NoEquivocation
    /\ \A i \in 1 .. Len(broadcasts) :
          /\ broadcasts[i].number \in DOMAIN blocks \ {0}
          /\ broadcasts[i].hash = HexToHash[blocks[broadcasts[i].number].hash]
          /\ blocks[broadcasts[i].number] \in ValidBlocks

BoundsInv == requests \in 0 .. MaxRequests /\ restarts \in 0 .. MaxRestarts

NodeInv == EnginesInv /\ CallbackInv /\ VerifyInv /\ SignedInv /\ BoundsInv

-----------------------------------------------------------------------------
(***************************************************************************)
(* What a step of one engine leaves to the others.                         *)
(***************************************************************************)

\* A stored block stays stored, and what was handed over stays handed over.
Grows ==
    /\ \A n \in DOMAIN blocks : n \in DOMAIN blocks' /\ blocks'[n] = blocks[n]
    /\ SyncThm!Notified \subseteq SyncThm!Notified'

\* A goroutine in the callback stays there with its block; one that enters it
\* brings a block on its way to the callback.
CallbackFrame ==
    \A g \in Goroutine :
        /\ pc[g] = "callback" => pc'[g] = "callback" /\ cur'[g] = cur[g]
        /\ pc'[g] = "callback" /\ pc[g] # "callback" =>
              /\ pc[g] = "notify"
              /\ cur'[g] = cur[g]
              /\ cur[g].number \in SyncThm!Notified'

\* Steps of the sync engine keep the callback to itself.
LEMMA SyncFrame ==
    ASSUME SyncThm!TypeOK, SyncStep
    PROVE  Grows /\ CallbackFrame
<1> USE DEF SyncThm!envVars, SyncThm!engineVars, SyncThm!gaugeVars, SyncThm!probeVars,
            SyncThm!loopVars, SyncThm!Goto, Goroutine, SyncThm!Goroutine, Grows,
            CallbackFrame, SyncThm!Notified
<1>0. /\ pc \in [Goroutine -> SyncThm!PC]
      /\ cur \in [Goroutine -> Block]
      /\ delivered \in Seq(Block)
  BY DEF SyncThm!TypeOK
<1>1. CASE SyncThm!Environment
  BY <1>0, <1>1 DEF SyncThm!Environment, SyncThm!Produce, SyncThm!Deliver,
     SyncThm!ConsensusReceive, SyncThm!SetMetrics, SyncThm!Stop
<1>2. CASE SyncThm!Loops
  <2>1. CASE SyncThm!ListenerReceive
    BY <1>0, <2>1 DEF SyncThm!ListenerReceive
  <2>2. CASE SyncThm!Tick
    BY <1>0, <2>2 DEF SyncThm!Tick
  <2>3. CASE SyncThm!ReadLocal
    BY <1>0, <2>3 DEF SyncThm!ReadLocal, SyncThm!LoopFrom, SyncThm!MoreToFetch, SyncThm!NothingNew, SyncThm!EndRound
  <2>4. CASE SyncThm!FetchBlock \/ SyncThm!FetchNull
    BY <1>0, <2>4 DEF SyncThm!FetchBlock, SyncThm!FetchNull, SyncThm!Fetched
  <2>5. CASE SyncThm!FetchFails
    BY <1>0, <2>5 DEF SyncThm!FetchFails, SyncThm!EndRound
  <2>6. CASE \E g \in SyncThm!Goroutine : SyncThm!Exit(g)
    BY <1>0, <2>6 DEF SyncThm!Exit
  <2> QED
    BY <1>2, <2>1, <2>2, <2>3, <2>4, <2>5, <2>6 DEF SyncThm!Loops
<1>3. ASSUME NEW g \in Goroutine, SyncThm!ProcessBlock(g)
      PROVE  Grows /\ CallbackFrame
  <2>1. CASE SyncThm!Skip(g)
    BY <1>0, <2>1 DEF SyncThm!Skip, SyncThm!Return, SyncThm!LoopFrom, SyncThm!MoreToFetch, SyncThm!DropLocals, SyncThm!EndRound
  <2>2. CASE SyncThm!Accept(g)
    BY <1>0, <2>2 DEF SyncThm!Accept, SyncThm!Store, SyncThm!Duplicate
  <2>3. CASE SyncThm!StoreSyncedBlock(g)
    BY <1>0, <2>3 DEF SyncThm!StoreSyncedBlock
  <2>4. CASE SyncThm!ProbeHead(g) \/ SyncThm!ProbeFails(g)
    BY <1>0, <2>4 DEF SyncThm!ProbeHead, SyncThm!ProbeFails
  <2>5. CASE SyncThm!CompareHead(g) \/ SyncThm!StoreIsSynced(g)
    BY <1>0, <2>5 DEF SyncThm!CompareHead, SyncThm!StoreIsSynced
  <2>6. CASE SyncThm!OnNewBlock(g)
    <3>1. /\ delivered' = Append(delivered, cur[g])
          /\ cur[g] \in Block
          /\ Len(delivered') = Len(delivered) + 1
          /\ delivered'[Len(delivered) + 1] = cur[g]
          /\ \A i \in 1 .. Len(delivered) : delivered'[i] = delivered[i]
          /\ Len(delivered) \in Nat
      BY <1>0, <2>6 DEF SyncThm!OnNewBlock
    <3>2. SyncThm!Notified \subseteq SyncThm!Notified' /\ cur[g].number \in SyncThm!Notified'
      BY <3>1
    <3>3. UNCHANGED <<blocks, cur>> /\ pc[g] = "notify" /\ pc' = [pc EXCEPT ![g] = "callback"]
      BY <2>6 DEF SyncThm!OnNewBlock
    <3> QED
      BY <1>0, <3>2, <3>3
  <2> QED
    BY <1>3, <2>1, <2>2, <2>3, <2>4, <2>5, <2>6 DEF SyncThm!ProcessBlock
<1> QED
  BY <1>1, <1>2, <1>3, SameSync

\* VerifyBlock and its return, in either instance.
LEMMA SameVerify ==
    ASSUME NEW t
    PROVE  /\ \A b : Ver!VerifyBlock(t, b) => VerThm!VerifyBlock(t, b)
           /\ Ver!VerifyStep(t) => VerThm!VerifyStep(t)
           /\ Ver!TakeResult(t) => VerThm!TakeResult(t)
<1>1. ASSUME NEW b, Ver!VerifyBlock(t, b) PROVE VerThm!VerifyBlock(t, b)
  BY <1>1 DEF Ver!VerifyBlock, Ver!IsBlockZero, VerThm!VerifyBlock, VerThm!IsBlockZero
<1>2. ASSUME Ver!VerifyStep(t) PROVE VerThm!VerifyStep(t)
  <2>1. Ver!ReadLo(t) => VerThm!ReadLo(t)
    BY DEF Ver!ReadLo, VerThm!ReadLo
  <2>2. Ver!ReadHi(t) => VerThm!ReadHi(t)
    BY DEF Ver!ReadHi, Ver!RootRead, Ver!Join, VerThm!ReadHi, VerThm!RootRead, VerThm!Join
  <2>3. Ver!Compare(t) => VerThm!Compare(t)
    BY DEF Ver!Compare, Ver!RootAgrees, VerThm!Compare, VerThm!RootAgrees
  <2>4. Ver!WriteLo(t) => VerThm!WriteLo(t)
    BY DEF Ver!WriteLo, VerThm!WriteLo
  <2>5. Ver!WriteHi(t) => VerThm!WriteHi(t)
    BY DEF Ver!WriteHi, VerThm!WriteHi
  <2> QED
    BY <1>2, <2>1, <2>2, <2>3, <2>4, <2>5 DEF Ver!VerifyStep, VerThm!VerifyStep
<1>3. ASSUME Ver!TakeResult(t) PROVE VerThm!TakeResult(t)
  BY <1>3 DEF Ver!TakeResult, VerThm!TakeResult
<1> QED
  BY <1>1, <1>2, <1>3

\* The callback returns, in either instance.
LEMMA SameReturn ==
    ASSUME NEW g, Sync!CallbackReturn(g)
    PROVE  SyncThm!CallbackReturn(g)
BY DEF Sync!CallbackReturn, Sync!Return, Sync!LoopFrom, Sync!MoreToFetch, Sync!DropLocals, Sync!EndRound, Sync!Goto,
       Sync!envVars, Sync!engineVars, Sync!gaugeVars, Sync!loopVars,
       SyncThm!CallbackReturn, SyncThm!Return, SyncThm!LoopFrom, SyncThm!MoreToFetch, SyncThm!DropLocals, SyncThm!EndRound,
       SyncThm!Goto, SyncThm!envVars, SyncThm!engineVars, SyncThm!gaugeVars,
       SyncThm!loopVars

\* The steps of verification, for a callback or a request, on a stored block.
Verifies(t) ==
    /\ \/ /\ t \in Goroutine
          /\ pc[t] = "callback"
          /\ VerThm!VerifyBlock(t, cur[t])
          /\ UNCHANGED requests
       \/ /\ t \in Http
          /\ \E n \in DOMAIN blocks : VerThm!VerifyBlock(t, blocks[n])
          /\ requests < MaxRequests
          /\ requests' = requests + 1
       \/ VerThm!VerifyStep(t) /\ UNCHANGED requests
       \/ t \in Http /\ VerThm!TakeResult(t) /\ UNCHANGED requests
    /\ UNCHANGED <<syncVars, conVars, restarts, past>>

\* The callback ends on goroutine g, having attested its block or not.
Attests(g) ==
    /\ vpc[g] = "valid"
    /\ broadcasts' = Append(broadcasts,
                            [number |-> cur[g].number, hash |-> BlockHash(g),
                             validator |-> Local, signed |-> TRUE])
    /\ VerThm!TakeResult(g)
    /\ SyncThm!CallbackReturn(g)
    /\ UNCHANGED nodeVars

Rejects(g) ==
    /\ vpc[g] = "invalid"
    /\ VerThm!TakeResult(g)
    /\ SyncThm!CallbackReturn(g)
    /\ UNCHANGED <<conVars, nodeVars>>

\* Every step of the node is one of these.
LEMMA NodeSteps ==
    ASSUME [Next]_vars
    PROVE  \/ SyncStep
           \/ \E t \in Caller : Verifies(t)
           \/ \E g \in Goroutine : Attests(g) \/ Rejects(g)
           \/ UNCHANGED vars
<1>1. ASSUME NEW g \in Goroutine, CallbackVerify(g) PROVE Verifies(g)
  BY <1>1, SameVerify DEF CallbackVerify, NewBlock, Verifies, nodeVars
<1>2. ASSUME NEW g \in Goroutine, CallbackAttest(g) PROVE Attests(g)
  BY <1>2, SameVerify, SameReturn
  DEF CallbackAttest, Attests, Con!AttestBlock, Con!Attestation
<1>3. ASSUME NEW g \in Goroutine, CallbackReject(g) PROVE Rejects(g)
  BY <1>3, SameVerify, SameReturn DEF CallbackReject, Rejects
<1>4. ASSUME NEW t \in Caller, VerifyStep(t) PROVE Verifies(t)
  BY <1>4, SameVerify DEF VerifyStep, Verifies, nodeVars
<1>5. ASSUME NEW t \in Http, VerifyRequest(t) PROVE Verifies(t)
  BY <1>5, SameVerify DEF VerifyRequest, Verifies
<1>6. ASSUME NEW t \in Http, VerifyResponse(t) PROVE Verifies(t)
  BY <1>6, SameVerify DEF VerifyResponse, Verifies, nodeVars
<1> QED
  BY <1>1, <1>2, <1>3, <1>4, <1>5, <1>6 DEF Next, Callback, Request, Caller

\* Each engine takes one of its own steps or none.
LEMMA EngineSteps ==
    ASSUME SyncThm!TypeOK, [Next]_vars
    PROVE  [SyncThm!Next]_(SyncThm!vars) /\ [VerThm!VNext]_(VerThm!vvars)
<1> USE DEF syncVars, verVars, SyncThm!vars, VerThm!vvars
<1>1. CASE SyncStep
  BY <1>1, SameSync DEF SyncStep, SyncThm!Next
<1>2. ASSUME NEW t \in Caller, Verifies(t)
      PROVE  UNCHANGED SyncThm!vars /\ VerThm!VNext
  <2>1. \A n \in DOMAIN blocks : blocks[n] \in Block
    BY DEF SyncThm!TypeOK
  <2>2. t \in Goroutine => cur[t] \in Block
    BY DEF SyncThm!TypeOK, Goroutine, SyncThm!Goroutine
  <2> QED
    BY <1>2, <2>1, <2>2 DEF Verifies, VerThm!VNext
<1>3. ASSUME NEW g \in Goroutine, Attests(g) \/ Rejects(g)
      PROVE  SyncThm!Next /\ VerThm!VNext
  BY <1>3 DEF Attests, Rejects, SyncThm!Next, VerThm!VNext, Caller, Goroutine, SyncThm!Goroutine
<1>4. CASE UNCHANGED vars
  BY <1>4 DEF vars
<1> QED
  BY <1>1, <1>2, <1>3, <1>4, NodeSteps

\* The engines keep what they guarantee by themselves.
LEMMA EnginesKept ==
    ASSUME EnginesInv, [Next]_vars
    PROVE  EnginesInv'
<1>1. [SyncThm!Next]_(SyncThm!vars) /\ [VerThm!VNext]_(VerThm!vvars)
  BY EngineSteps DEF EnginesInv
<1>2. SyncThm!TypeOK'
  BY <1>1, SyncThm!NextType, NodeAssumption DEF EnginesInv
<1>3. SyncThm!ChainInv'
  BY <1>1, SyncThm!NextChain, NodeAssumption DEF EnginesInv
<1>4. SyncThm!NotifyInv'
  BY <1>1, SyncThm!NextNotify, NodeAssumption DEF EnginesInv
<1>5. VerThm!VTypeOK'
  BY <1>1, VerThm!NextVType, NodeAssumption DEF EnginesInv
<1> QED
  BY <1>2, <1>3, <1>4, <1>5 DEF EnginesInv

\* An engine just started, by main or again after a crash.
LEMMA EnginesStart == Init => EnginesInv
<1> SUFFICES ASSUME Init PROVE EnginesInv
  OBVIOUS
<1>1. SyncThm!Init /\ VerThm!VInit
  BY SameEngines DEF Init
<1>2. SyncThm!TypeOK
  BY <1>1, SyncThm!InitType, NodeAssumption
<1>3. SyncThm!ChainInv
  BY <1>1, SyncThm!InitChain, NodeAssumption
<1>4. SyncThm!NotifyInv
  BY <1>1, SyncThm!InitNotify, NodeAssumption
<1>5. VerThm!VTypeOK
  BY <1>1, VerThm!InitVType, NodeAssumption
<1> QED
  BY <1>2, <1>3, <1>4, <1>5 DEF EnginesInv

-----------------------------------------------------------------------------
(***************************************************************************)
(* The invariant is inductive.                                             *)
(***************************************************************************)

\* Steps of the sync engine: a block enters the callback unsigned, since it was
\* never handed over before.
LEMMA SyncKeepsNode ==
    ASSUME NodeInv, SyncStep
    PROVE  CallbackInv' /\ VerifyInv' /\ SignedInv'
<1>1. Grows /\ CallbackFrame
  BY SyncFrame DEF NodeInv, EnginesInv
<1>2. UNCHANGED <<broadcasts, vpc, vblk, verified>>
  BY DEF SyncStep, verVars, conVars
<1>3. UNCHANGED AttestedNumbers
  BY <1>2 DEF AttestedNumbers
<1>4. \A b : Stored(b) => Stored(b)'
  BY <1>1 DEF Stored, Grows
<1>5. ASSUME NEW g \in Goroutine, pc[g] = "notify"
      PROVE  Stored(cur[g]) /\ cur[g].number \notin SyncThm!Notified
  BY <1>5 DEF NodeInv, EnginesInv, SyncThm!NotifyInv, SyncThm!PendingStored,
     SyncThm!NotifiedExactlyOnce, SyncThm!Pending, Stored, Goroutine, SyncThm!Goroutine
<1>6. CallbackInv'
  <2>1. ASSUME NEW g \in Goroutine, pc'[g] = "callback"
        PROVE  /\ Stored(cur[g])'
               /\ cur'[g].number \in SyncThm!Notified'
               /\ cur'[g].number \notin AttestedNumbers'
    <3>1. cur'[g] = cur[g] /\ Stored(cur[g])
      BY <2>1, <1>1, <1>5 DEF CallbackFrame, NodeInv, CallbackInv
    <3>2. cur[g].number \in SyncThm!Notified'
      BY <2>1, <1>1 DEF CallbackFrame, Grows, NodeInv, CallbackInv
    <3>3. cur[g].number \notin AttestedNumbers
      BY <2>1, <1>1, <1>5 DEF CallbackFrame, NodeInv, CallbackInv
    <3>4. Stored(cur[g])'
      BY <3>1, <1>1 DEF Stored, Grows
    <3> QED
      BY <3>1, <3>2, <3>3, <3>4, <1>3
  <2>2. ASSUME NEW g \in Goroutine, NEW h \in Goroutine, pc'[g] = "callback",
               pc'[h] = "callback", g # h
        PROVE  cur'[g].number # cur'[h].number
    <3>1. cur'[g] = cur[g] /\ cur'[h] = cur[h]
      BY <2>2, <1>1 DEF CallbackFrame
    <3>2. CASE pc[g] = "callback" /\ pc[h] = "callback"
      BY <3>1, <3>2, <2>2 DEF NodeInv, CallbackInv
    <3>3. CASE pc[g] # "callback" /\ pc[h] # "callback"
      <4>1. pc[g] = "notify" /\ pc[h] = "notify"
        BY <2>2, <3>3, <1>1 DEF CallbackFrame
      <4> QED
        BY <4>1, <3>1, <2>2 DEF NodeInv, EnginesInv, SyncThm!NotifyInv, SyncThm!PendingStored,
           SyncThm!Pending, Goroutine, SyncThm!Goroutine
    <3>4. CASE pc[g] = "callback" /\ pc[h] # "callback"
      <4>1. cur[h].number \notin SyncThm!Notified
        BY <2>2, <3>4, <1>1, <1>5 DEF CallbackFrame
      <4> QED
        BY <4>1, <3>1, <3>4 DEF NodeInv, CallbackInv
    <3>5. CASE pc[g] # "callback" /\ pc[h] = "callback"
      <4>1. cur[g].number \notin SyncThm!Notified
        BY <2>2, <3>5, <1>1, <1>5 DEF CallbackFrame
      <4> QED
        BY <4>1, <3>1, <3>5 DEF NodeInv, CallbackInv
    <3> QED
      BY <3>2, <3>3, <3>4, <3>5
  <2>3. AttestedNumbers' \subseteq SyncThm!Notified'
    BY <1>1, <1>3 DEF Grows, NodeInv, CallbackInv
  <2> QED
    BY <2>1, <2>2, <2>3 DEF CallbackInv
<1>7. VerifyInv'
  <2>1. ASSUME NEW g \in Goroutine, vpc'[g] # "idle"
        PROVE  pc'[g] = "callback" /\ vblk'[g] = cur'[g]
    BY <2>1, <1>1, <1>2 DEF CallbackFrame, NodeInv, VerifyInv
  <2>2. ASSUME NEW t \in Caller, vpc'[t] # "idle" PROVE Stored(vblk[t])'
    BY <2>2, <1>1, <1>2 DEF NodeInv, VerifyInv, Stored, Grows
  <2>3. UNCHANGED ValidBlocks
    BY <1>2 DEF ValidBlocks
  <2>4. ASSUME NEW b \in ValidBlocks' PROVE Stored(b)'
    BY <2>3, <2>4, <1>2, <1>4 DEF NodeInv, VerifyInv
  <2> QED
    BY <2>1, <2>2, <2>3, <2>4, <1>2 DEF NodeInv, VerifyInv
<1>8. SignedInv'
  BY <1>1, <1>2 DEF NodeInv, SignedInv, NoEquivocation, Grows, ValidBlocks
<1> QED
  BY <1>6, <1>7, <1>8

\* Steps of verification: only stored blocks are verified, and a goroutine verifies
\* the block of its callback.
LEMMA VerifyKeepsNode ==
    ASSUME NodeInv, NEW t \in Caller, Verifies(t)
    PROVE  CallbackInv' /\ VerifyInv' /\ SignedInv'
<1>1. UNCHANGED <<pc, cur, blocks, delivered, broadcasts>>
  BY DEF Verifies, syncVars, conVars
<1>2. /\ vpc \in [Caller -> VerThm!VPC]
      /\ vblk \in [Caller -> Block]
  BY DEF NodeInv, EnginesInv, VerThm!VTypeOK
<1>3. CallbackInv'
  <2>1. UNCHANGED <<AttestedNumbers, SyncThm!Notified>>
    BY <1>1 DEF AttestedNumbers, SyncThm!Notified
  <2> QED
    BY <1>1, <2>1 DEF NodeInv, CallbackInv, Stored
<1>4. ValidBlocks \subseteq ValidBlocks'
  BY DEF ValidBlocks, Verifies, VerThm!VerifyBlock, VerThm!VerifyStep, VerThm!ReadLo, VerThm!ReadHi,
     VerThm!Compare, VerThm!WriteLo, VerThm!WriteHi, VerThm!TakeResult
<1>5. SignedInv'
  BY <1>1, <1>4 DEF NodeInv, SignedInv, NoEquivocation
<1>6. ASSUME NEW b, VerThm!VerifyBlock(t, b), Stored(b),
             t \in Goroutine => pc[t] = "callback" /\ b = cur[t]
      PROVE  VerifyInv'
  <2>1. /\ vblk' = [vblk EXCEPT ![t] = b]
        /\ vpc'[t] # "valid"
        /\ \A u \in Caller : u # t => vpc'[u] = vpc[u]
        /\ ValidBlocks' = ValidBlocks
    BY <1>6, <1>2 DEF VerThm!VerifyBlock, ValidBlocks
  <2> QED
    BY <1>1, <1>2, <1>6, <2>1 DEF NodeInv, VerifyInv, Stored, Caller
<1>7. ASSUME VerThm!VerifyStep(t) PROVE VerifyInv'
  <2>1. vblk' = vblk /\ vpc[t] # "idle" /\ \A u \in Caller : u # t => vpc'[u] = vpc[u]
    BY <1>7, <1>2 DEF VerThm!VerifyStep, VerThm!ReadLo, VerThm!ReadHi, VerThm!Compare,
       VerThm!WriteLo, VerThm!WriteHi
  <2>2. \/ ValidBlocks' = ValidBlocks /\ vpc'[t] # "valid"
        \/ ValidBlocks' = ValidBlocks \cup {vblk[t]}
    <3>1. CASE VerThm!WriteHi(t)
      <4>1. PICK e : e = [block |-> vblk[t], root |-> expected[t]]
        OBVIOUS
      <4>2. verified' = verified \cup {e} /\ e.block = vblk[t]
        BY <3>1, <4>1 DEF VerThm!WriteHi
      <4> QED
        BY <4>2 DEF ValidBlocks
    <3>2. CASE ~VerThm!WriteHi(t)
      BY <1>7, <1>2, <3>2 DEF VerThm!VerifyStep, VerThm!ReadLo, VerThm!ReadHi,
         VerThm!Compare, VerThm!WriteLo, ValidBlocks
    <3> QED
      BY <3>1, <3>2
  <2> QED
    BY <1>1, <1>2, <2>1, <2>2 DEF NodeInv, VerifyInv, Stored, Caller
<1>8. ASSUME VerThm!TakeResult(t) PROVE VerifyInv'
  <2>1. /\ vpc' = [vpc EXCEPT ![t] = "idle"]
        /\ vblk' = [vblk EXCEPT ![t] = ZeroBlock]
        /\ ValidBlocks' = ValidBlocks
    BY <1>8 DEF VerThm!TakeResult, ValidBlocks
  <2> QED
    BY <1>1, <1>2, <2>1 DEF NodeInv, VerifyInv, Stored, Caller
<1>9. VerifyInv'
  <2>1. CASE t \in Goroutine /\ pc[t] = "callback" /\ VerThm!VerifyBlock(t, cur[t])
    BY <2>1, <1>6 DEF NodeInv, CallbackInv
  <2>2. ASSUME t \in Http, NEW n \in DOMAIN blocks, VerThm!VerifyBlock(t, blocks[n])
        PROVE  VerifyInv'
    <3>1. Stored(blocks[n])
      BY DEF NodeInv, EnginesInv, SyncThm!NotifyInv, SyncThm!Numbered, Stored
    <3>2. t \notin Goroutine
      BY <2>2, NodeAssumption DEF Goroutine
    <3> QED
      BY <2>2, <3>1, <3>2, <1>6
  <2> QED
    BY <2>1, <2>2, <1>7, <1>8 DEF Verifies
<1> QED
  BY <1>3, <1>5, <1>9

\* The callback ends on g: g drops its block, the others keep theirs.
LEMMA CallbackEnds ==
    ASSUME NodeInv, NEW g \in Goroutine, VerThm!TakeResult(g), SyncThm!CallbackReturn(g)
    PROVE  /\ VerifyInv'
           /\ UNCHANGED <<blocks, delivered, ValidBlocks>>
           /\ pc'[g] # "callback"
           /\ \A h \in Goroutine : h # g => pc'[h] = pc[h] /\ cur'[h] = cur[h]
<1>0. /\ vpc \in [Caller -> VerThm!VPC]
      /\ vblk \in [Caller -> Block]
      /\ pc \in [Goroutine -> SyncThm!PC]
      /\ cur \in [Goroutine -> Block]
      /\ g \in Caller
  BY DEF NodeInv, EnginesInv, VerThm!VTypeOK, SyncThm!TypeOK, Goroutine, SyncThm!Goroutine,
     Caller
<1>1. /\ vpc' = [vpc EXCEPT ![g] = "idle"]
      /\ vblk' = [vblk EXCEPT ![g] = ZeroBlock]
      /\ ValidBlocks' = ValidBlocks
  BY DEF VerThm!TakeResult, ValidBlocks
<1>2. /\ UNCHANGED <<blocks, delivered>>
      /\ pc'[g] # "callback"
      /\ \A h \in Goroutine : h # g => pc'[h] = pc[h] /\ cur'[h] = cur[h]
  BY <1>0 DEF SyncThm!CallbackReturn, SyncThm!Return, SyncThm!LoopFrom, SyncThm!MoreToFetch, SyncThm!DropLocals, SyncThm!EndRound,
     SyncThm!Goto, SyncThm!engineVars
<1> QED
  BY <1>0, <1>1, <1>2 DEF NodeInv, VerifyInv, Stored, Caller

\* The callback returns without signing.
LEMMA RejectKeepsNode ==
    ASSUME NodeInv, NEW g \in Goroutine, Rejects(g)
    PROVE  CallbackInv' /\ VerifyInv' /\ SignedInv'
<1>1. /\ VerifyInv'
      /\ UNCHANGED <<blocks, delivered, ValidBlocks, broadcasts>>
      /\ pc'[g] # "callback"
      /\ \A h \in Goroutine : h # g => pc'[h] = pc[h] /\ cur'[h] = cur[h]
  BY CallbackEnds DEF Rejects, conVars
<1>2. UNCHANGED <<AttestedNumbers, SyncThm!Notified>>
  BY <1>1 DEF AttestedNumbers, SyncThm!Notified
<1>3. CallbackInv'
  BY <1>1, <1>2 DEF NodeInv, CallbackInv, Stored
<1>4. SignedInv'
  BY <1>1 DEF NodeInv, SignedInv, NoEquivocation
<1> QED
  BY <1>1, <1>3, <1>4

\* The callback signs: a height that no signature has, for the block stored there.
LEMMA AttestKeepsNode ==
    ASSUME NodeInv, NEW g \in Goroutine, Attests(g)
    PROVE  CallbackInv' /\ VerifyInv' /\ SignedInv'
<1> DEFINE s == [number |-> cur[g].number, hash |-> HexToHash[cur[g].hash],
                 validator |-> Local, signed |-> TRUE]
<1>1. /\ VerifyInv'
      /\ UNCHANGED <<blocks, delivered, ValidBlocks>>
      /\ pc'[g] # "callback"
      /\ \A h \in Goroutine : h # g => pc'[h] = pc[h] /\ cur'[h] = cur[h]
  BY CallbackEnds DEF Attests
<1>2. /\ pc[g] = "callback"
      /\ cur[g] \in Block
      /\ Stored(cur[g])
      /\ cur[g].number \in SyncThm!Notified \ AttestedNumbers
      /\ cur[g] \in ValidBlocks
      /\ cur[g].number \in Nat \ {0}
  <2>1. vpc[g] = "valid" /\ g \in Caller
    BY DEF Attests, Caller
  <2>2. pc[g] = "callback" /\ vblk[g] = cur[g] /\ cur[g] \in ValidBlocks
    BY <2>1 DEF NodeInv, VerifyInv
  <2>3. cur[g] \in Block
    BY DEF NodeInv, EnginesInv, SyncThm!TypeOK, Goroutine, SyncThm!Goroutine
  <2>4. cur[g].number # 0
    BY <2>1, <2>2 DEF NodeInv, EnginesInv, VerThm!VTypeOK
  <2> QED
    BY <2>2, <2>3, <2>4, NodeAssumption DEF NodeInv, CallbackInv
<1>3. s \in Signature
  BY <1>2 DEF Signature
<1>4. /\ s.number = cur[g].number
      /\ s.hash = HexToHash[cur[g].hash]
      /\ broadcasts' = Append(broadcasts, s)
  BY DEF Attests, BlockHash
<1> HIDE DEF s
<1>5. /\ broadcasts' \in Seq(Signature)
      /\ Len(broadcasts) \in Nat
      /\ Len(broadcasts') = Len(broadcasts) + 1
      /\ broadcasts'[Len(broadcasts) + 1] = s
      /\ \A i \in 1 .. Len(broadcasts) : broadcasts'[i] = broadcasts[i]
  BY <1>3, <1>4 DEF NodeInv, SignedInv
<1>6. AttestedNumbers' = AttestedNumbers \cup {cur[g].number}
  BY <1>4, <1>5 DEF AttestedNumbers
<1>7. UNCHANGED SyncThm!Notified
  BY <1>1 DEF SyncThm!Notified
<1>8. CallbackInv'
  <2>1. ASSUME NEW h \in Goroutine, pc'[h] = "callback"
        PROVE  /\ h # g /\ pc[h] = "callback" /\ cur'[h] = cur[h]
               /\ cur[h].number # cur[g].number
    BY <2>1, <1>1, <1>2 DEF NodeInv, CallbackInv
  <2>2. ASSUME NEW h \in Goroutine, pc'[h] = "callback"
        PROVE  /\ Stored(cur[h])'
               /\ cur'[h].number \in SyncThm!Notified'
               /\ cur'[h].number \notin AttestedNumbers'
    BY <2>1, <2>2, <1>1, <1>6, <1>7 DEF NodeInv, CallbackInv, Stored
  <2>3. ASSUME NEW h \in Goroutine, NEW k \in Goroutine, pc'[h] = "callback",
               pc'[k] = "callback", h # k
        PROVE  cur'[h].number # cur'[k].number
    BY <2>1, <2>3 DEF NodeInv, CallbackInv
  <2>4. AttestedNumbers' \subseteq SyncThm!Notified'
    BY <1>2, <1>6, <1>7 DEF NodeInv, CallbackInv
  <2> QED
    BY <2>2, <2>3, <2>4 DEF CallbackInv
<1>9. NoEquivocation'
  <2>1. \A i \in 1 .. Len(broadcasts) : broadcasts[i].number # s.number
    BY <1>2, <1>4 DEF AttestedNumbers
  <2>2. \A i, j \in 1 .. Len(broadcasts) :
           broadcasts[i].number = broadcasts[j].number => i = j
    BY DEF NodeInv, SignedInv, NoEquivocation
  <2> QED
    BY <2>1, <2>2, <1>5 DEF NoEquivocation
<1>10. ASSUME NEW i \in 1 .. Len(broadcasts')
       PROVE  /\ broadcasts'[i].number \in DOMAIN blocks' \ {0}
              /\ broadcasts'[i].hash = HexToHash[blocks'[broadcasts'[i].number].hash]
              /\ blocks'[broadcasts'[i].number] \in ValidBlocks'
  <2>1. CASE i = Len(broadcasts) + 1
    BY <2>1, <1>1, <1>2, <1>4, <1>5 DEF Stored
  <2>2. CASE i \in 1 .. Len(broadcasts)
    BY <2>2, <1>1, <1>5 DEF NodeInv, SignedInv
  <2> QED
    BY <2>1, <2>2, <1>5
<1> QED
  BY <1>1, <1>5, <1>8, <1>9, <1>10 DEF SignedInv

\* main starts the engines: nothing is stored, handed over, valid or signed.
LEMMA InitNode == Init => NodeInv
<1> SUFFICES ASSUME Init PROVE NodeInv
  OBVIOUS
<1>1. /\ DOMAIN blocks = {}
      /\ \A g \in Goroutine : pc[g] = "idle"
      /\ \A t \in Caller : vpc[t] = "idle"
      /\ verified = {}
  BY DEF Init, Sync!Init, Ver!VInit, Goroutine, Sync!Goroutine
<1>2. broadcasts = <<>> /\ AttestedNumbers = {}
  BY DEF Init, AttestedNumbers
<1>3. CallbackInv /\ VerifyInv
  BY <1>1, <1>2 DEF CallbackInv, VerifyInv, ValidBlocks, Caller
<1>4. SignedInv
  BY <1>2 DEF SignedInv, NoEquivocation
<1>5. BoundsInv
  BY NodeAssumption DEF Init, BoundsInv
<1> QED
  BY <1>3, <1>4, <1>5, EnginesStart DEF NodeInv

\* A crash and a restart: the sequencer is ahead, the process knows nothing.
LEMMA RestartKeepsNode ==
    ASSUME NodeInv, Restart
    PROVE  NodeInv'
<1> USE DEF Goroutine, SyncThm!Goroutine
<1>1. SyncThm!TypeOK'
  <2>1. head' \in 0 .. MaxHead /\ remoteLatest' \in 0 .. head' /\ num' \in 0 .. MaxHead
    BY NodeAssumption DEF Restart, NodeInv, EnginesInv, SyncThm!TypeOK
  <2>2. /\ pc' \in [Goroutine -> SyncThm!PC]
        /\ cur' \in [Goroutine -> Block]
        /\ probe' \in [Goroutine -> 0 .. MaxHead]
        /\ caughtUp' \in [Goroutine -> BOOLEAN]
    BY NodeAssumption DEF Restart, SyncThm!PC
  <2>3. pc'["p2p"] = "idle" /\ pc'["rpc"] = "idle"
    BY DEF Restart
  <2>4. DOMAIN blocks' = {} /\ blocks' \in [DOMAIN blocks' -> Block]
    BY DEF Restart
  <2>5. /\ msgCh' \in Seq(Gossip \cup {Other})
        /\ delivered' \in Seq(Block)
        /\ latestBlock' \in Nat
        /\ syncedBlock' \in Nat
    BY DEF Restart
  <2>6. {metricsOn', stopped', isSynced'} \subseteq BOOLEAN
    BY DEF Restart
  <2> QED
    BY <2>1, <2>2, <2>3, <2>4, <2>5, <2>6 DEF SyncThm!TypeOK
<1>2. /\ DOMAIN blocks' = {}
      /\ latestBlock' = 0
      /\ Len(delivered') = 0
      /\ \A g \in Goroutine : pc'[g] = "idle"
      /\ \A t \in Caller : vpc'[t] = "idle"
      /\ verified' = {}
      /\ broadcasts' = <<>>
  BY DEF Restart
<1>3. SyncThm!ChainInv'
  BY <1>2 DEF SyncThm!ChainInv, SyncThm!Contiguous, SyncThm!LatestStored,
     SyncThm!LatestIsHighest
<1>4. SyncThm!NotifyInv'
  BY <1>2 DEF SyncThm!NotifyInv, SyncThm!NotifiedExactlyOnce, SyncThm!PendingStored,
     SyncThm!Numbered, SyncThm!Pending
<1>5. VerThm!VTypeOK'
  BY NodeAssumption DEF Restart, VerThm!VTypeOK, VerThm!VPC
<1>6. AttestedNumbers' = {}
  BY <1>2 DEF AttestedNumbers
<1>7. CallbackInv' /\ VerifyInv'
  BY <1>2, <1>6 DEF CallbackInv, VerifyInv, ValidBlocks, Caller
<1>8. SignedInv'
  BY <1>2 DEF SignedInv, NoEquivocation
<1>9. BoundsInv'
  BY NodeAssumption DEF Restart, NodeInv, BoundsInv
<1> QED
  BY <1>1, <1>3, <1>4, <1>5, <1>7, <1>8, <1>9 DEF NodeInv, EnginesInv

\* NodeInv is inductive, across restarts too.
LEMMA NextNode == NodeInv /\ [Next \/ Restart]_vars => NodeInv'
<1> SUFFICES ASSUME NodeInv, [Next]_vars PROVE NodeInv'
  BY RestartKeepsNode
<1>1. EnginesInv'
  BY EnginesKept DEF NodeInv
<1>2. CASE SyncStep
  BY <1>1, <1>2, SyncKeepsNode DEF NodeInv, SyncStep, nodeVars, BoundsInv
<1>3. ASSUME NEW t \in Caller, Verifies(t) PROVE NodeInv'
  <2>1. BoundsInv'
    BY <1>3, NodeAssumption DEF Verifies, NodeInv, BoundsInv
  <2> QED
    BY <1>1, <1>3, <2>1, VerifyKeepsNode DEF NodeInv
<1>4. ASSUME NEW g \in Goroutine, Attests(g) PROVE NodeInv'
  BY <1>1, <1>4, AttestKeepsNode DEF NodeInv, Attests, nodeVars, BoundsInv
<1>5. ASSUME NEW g \in Goroutine, Rejects(g) PROVE NodeInv'
  BY <1>1, <1>5, RejectKeepsNode DEF NodeInv, Rejects, nodeVars, BoundsInv
<1>6. CASE UNCHANGED vars
  <2>1. UNCHANGED <<pc, cur, blocks, delivered, vpc, vblk, verified, broadcasts,
                    requests, restarts>>
    BY <1>6 DEF vars, syncVars, verVars, conVars, nodeVars
  <2>2. UNCHANGED <<AttestedNumbers, SyncThm!Notified, ValidBlocks>>
    BY <2>1 DEF AttestedNumbers, SyncThm!Notified, ValidBlocks
  <2>3. CallbackInv' /\ VerifyInv'
    BY <2>1, <2>2 DEF NodeInv, CallbackInv, VerifyInv, Stored
  <2> QED
    BY <1>1, <2>1, <2>2, <2>3 DEF NodeInv, SignedInv, NoEquivocation, BoundsInv
<1> QED
  BY <1>2, <1>3, <1>4, <1>5, <1>6, NodeSteps

\* A run without crashes is a run.
LEMMA NoCrash == Spec => RestartSpec
<1>1. [Next]_vars => [Next \/ Restart]_vars
  OBVIOUS
<1> QED
  BY <1>1, PTL DEF Spec, RestartSpec

\* NodeInv holds in every reachable state.
LEMMA NodeInvariant == RestartSpec => []NodeInv
BY InitNode, NextNode, PTL DEF RestartSpec

\* Put together, the engines keep their types, and a goroutine inside VerifyBlock is
\* inside the callback of main with the block it synced; crashes included.
THEOREM NodeTyped == RestartSpec => []NodeTypeOK
<1>1. NodeInv => NodeTypeOK
  BY SameEngines DEF NodeInv, EnginesInv, VerifyInv, BoundsInv, NodeTypeOK
<1> QED
  BY <1>1, NodeInvariant, PTL

\* In one run of the process the node signs no height twice, for any chain, any
\* gossip and any number of HTTP clients; crashes start a new run.
THEOREM SignsOnce == RestartSpec => []NoEquivocation
<1>1. NodeInv => NoEquivocation
  BY DEF NodeInv, SignedInv
<1> QED
  BY <1>1, NodeInvariant, PTL

-----------------------------------------------------------------------------
(***************************************************************************)
(* What is signed was verified, and not by an accident of the race.        *)
(***************************************************************************)

\* A restart gives the verification engine the genesis root and no valid blocks, and
\* every other step is one of the engine's or leaves it alone.
LEMMA NextOrderNode ==
    ASSUME VerThm!NoClaimOnTorn
    PROVE  NodeInv /\ VerThm!OrderInv /\ [Next \/ Restart]_vars => VerThm!OrderInv'
<1> SUFFICES ASSUME NodeInv, VerThm!OrderInv, [Next \/ Restart]_vars
             PROVE  VerThm!OrderInv'
  OBVIOUS
<1>1. CASE Restart
  <2>1. verified' = {} /\ rootHi' = Genesis /\ \A t \in Caller : vpc'[t] = "idle"
    BY <1>1 DEF Restart
  <2> QED
    BY <2>1 DEF VerThm!OrderInv, VerThm!Reached
<1>2. CASE [Next]_vars
  BY <1>2, EngineSteps, VerThm!NextOrder, NodeAssumption DEF NodeInv, EnginesInv
<1> QED
  BY <1>1, <1>2

\* A reached root is the first one or belongs to a stored block.
LEMMA ReachedIsStored ==
    ASSUME NodeInv
    PROVE  VerThm!Reached \subseteq StoredRoots
<1>1. ASSUME NEW e \in verified PROVE \E m \in DOMAIN blocks : e.block = blocks[m]
  <2>1. Stored(e.block)
    BY <1>1 DEF NodeInv, VerifyInv, ValidBlocks
  <2> QED
    BY <2>1 DEF Stored
<1> QED
  BY <1>1 DEF VerThm!Reached, StoredRoots

\* When nobody claims a root derived from two halves, what the node signs is the
\* block it has stored at that height, that block was found valid, and a root it
\* claims is derived from the genesis root or from that of a stored valid block,
\* although HTTP clients race with the callback on stateRoot.
THEOREM SignsVerified ==
    ASSUME Ver!NoClaimOnTorn
    PROVE  RestartSpec => []AttestsVerifiedBlocks
<1>1. Init => VerThm!OrderInv
  BY SameEngines, VerThm!InitOrder, NodeAssumption DEF Init
<1>2. NodeInv /\ VerThm!OrderInv /\ [Next \/ Restart]_vars => VerThm!OrderInv'
  BY NextOrderNode, SameEngines
<1>3. NodeInv /\ VerThm!OrderInv => AttestsVerifiedBlocks
  <2> SUFFICES ASSUME NodeInv, VerThm!OrderInv, NEW i \in 1 .. Len(broadcasts)
               PROVE  LET n == broadcasts[i].number
                      IN /\ n \in DOMAIN blocks \ {0}
                         /\ broadcasts[i].hash = HexToHash[blocks[n].hash]
                         /\ \E e \in verified : e.block = blocks[n]
                         /\ blocks[n].stateRoot # NoClaim =>
                               \E r \in StoredRoots :
                                   NextRoot[r][blocks[n]] = blocks[n].stateRoot
    BY DEF AttestsVerifiedBlocks
  <2> DEFINE n == broadcasts[i].number
  <2>1. /\ n \in DOMAIN blocks \ {0}
        /\ broadcasts[i].hash = HexToHash[blocks[n].hash]
        /\ blocks[n] \in ValidBlocks
    BY DEF NodeInv, SignedInv
  <2>2. PICK e \in verified : e.block = blocks[n]
    BY <2>1 DEF ValidBlocks
  <2>3. VerThm!Justified(blocks[n])
    BY <2>2 DEF VerThm!OrderInv
  <2> QED
    BY <2>1, <2>2, <2>3, ReachedIsStored DEF VerThm!Justified
<1> QED
  BY <1>1, <1>2, <1>3, NodeInvariant, PTL DEF RestartSpec

-----------------------------------------------------------------------------
(***************************************************************************)
(* The node implements AttestedChain: storing a block above 0 extends the  *)
(* chain, attesting signs, and everything else is invisible.               *)
(***************************************************************************)

\* A step that leaves the stored blocks and the broadcasts alone is invisible.
LEMMA Invisible ==
    ASSUME UNCHANGED <<blocks, broadcasts>>
    PROVE  UNCHANGED Abstract!avars
BY DEF Abstract!avars, FollowedChain, Signatures

\* The critical section of processBlock extends the chain; block 0 is not part of it.
LEMMA AcceptExtends ==
    ASSUME NodeInv, NEW g \in Goroutine, SyncThm!Accept(g), UNCHANGED broadcasts
    PROVE  [Abstract!ANext]_(Abstract!avars)
<1> DEFINE b == cur[g]
<1>1. /\ b \in Block
      /\ b.number \in Nat
      /\ latestBlock \in Nat
  BY NodeAssumption
  DEF NodeInv, EnginesInv, SyncThm!TypeOK, Goroutine, SyncThm!Goroutine
<1>2. /\ b.number \notin DOMAIN blocks
      /\ b.number > 1 => b.number = latestBlock + 1
      /\ blocks' = [n \in DOMAIN blocks \cup {b.number} |->
                       IF n = b.number THEN b ELSE blocks[n]]
  BY DEF SyncThm!Accept, SyncThm!Duplicate, SyncThm!Gap, SyncThm!Store
<1>3. UNCHANGED Signatures
  BY DEF Signatures
<1> HIDE DEF b
<1>4. CASE b.number = 0
  <2>1. UNCHANGED FollowedChain
    BY <1>2, <1>4 DEF FollowedChain
  <2> QED
    BY <2>1, <1>3 DEF Abstract!avars
<1>5. CASE b.number > 0
  <2>1. DOMAIN FollowedChain = DOMAIN blocks \ {0}
    BY DEF FollowedChain
  <2>2. b.number \notin DOMAIN FollowedChain
    BY <2>1, <1>2
  <2>3. b.number > 1 => b.number - 1 \in DOMAIN FollowedChain
    BY <2>1, <1>1, <1>2 DEF NodeInv, EnginesInv, SyncThm!ChainInv, SyncThm!LatestStored
  <2>4. FollowedChain' = [n \in DOMAIN FollowedChain \cup {b.number} |->
                             IF n = b.number THEN b ELSE FollowedChain[n]]
    BY <1>2, <1>5 DEF FollowedChain
  <2>5. Abstract!Extend(b)
    BY <1>3, <1>5, <2>2, <2>3, <2>4 DEF Abstract!Extend
  <2> QED
    BY <2>5, <1>1 DEF Abstract!ANext
<1> QED
  BY <1>1, <1>4, <1>5

\* A callback that attests signs a height of the chain that has no signature.
LEMMA AttestSigns ==
    ASSUME NodeInv, NEW g \in Goroutine, Attests(g)
    PROVE  Abstract!ANext
<1> DEFINE n == cur[g].number
           e == [number |-> n, hash |-> HexToHash[cur[g].hash]]
           Sig == [number : Nat, hash : {HexToHash[b.hash] : b \in Block}]
<1>1. UNCHANGED FollowedChain
  BY CallbackEnds DEF Attests, FollowedChain
<1>2. /\ cur[g] \in Block
      /\ n \in DOMAIN FollowedChain
      /\ FollowedChain[n] = cur[g]
      /\ n \notin AttestedNumbers
  <2>1. vpc[g] = "valid" /\ g \in Caller
    BY DEF Attests, Caller
  <2>2. pc[g] = "callback" /\ vblk[g] = cur[g]
    BY <2>1 DEF NodeInv, VerifyInv
  <2>3. cur[g] \in Block /\ n # 0
    BY <2>1, <2>2 DEF NodeInv, EnginesInv, VerThm!VTypeOK
  <2>4. Stored(cur[g]) /\ n \notin AttestedNumbers
    BY <2>2 DEF NodeInv, CallbackInv
  <2> QED
    BY <2>3, <2>4 DEF Stored, FollowedChain
<1>3. /\ broadcasts' = Append(broadcasts, [number |-> n, hash |-> HexToHash[cur[g].hash],
                                           validator |-> Local, signed |-> TRUE])
      /\ broadcasts \in Seq(Signature)
  BY DEF Attests, BlockHash, NodeInv, SignedInv
<1>4. /\ Len(broadcasts) \in Nat
      /\ Len(broadcasts') = Len(broadcasts) + 1
      /\ broadcasts'[Len(broadcasts) + 1].number = n
      /\ broadcasts'[Len(broadcasts) + 1].hash = HexToHash[cur[g].hash]
      /\ \A i \in 1 .. Len(broadcasts) : broadcasts'[i] = broadcasts[i]
  BY <1>3
<1>5. e \in Sig
  BY <1>2, NodeAssumption
<1>6. Signatures \in Seq(Sig) /\ Len(Signatures) = Len(broadcasts)
  <2>1. ASSUME NEW i \in 1 .. Len(broadcasts)
        PROVE  [number |-> broadcasts[i].number, hash |-> broadcasts[i].hash] \in Sig
    <3>1. broadcasts[i] \in Signature
      BY <1>3
    <3> QED
      BY <3>1 DEF Signature
  <2> QED
    BY <2>1, <1>4 DEF Signatures
<1>7. Signatures' = Append(Signatures, e)
  <2>1. Signatures' = [i \in 1 .. Len(broadcasts) + 1 |->
                          IF i = Len(broadcasts) + 1 THEN e ELSE Signatures[i]]
    BY <1>4 DEF Signatures
  <2> QED
    BY <2>1, <1>4, <1>5, <1>6
<1>8. \A i \in 1 .. Len(Signatures) : Signatures[i].number # n
  BY <1>2, <1>6 DEF Signatures, AttestedNumbers
<1> QED
  BY <1>1, <1>2, <1>7, <1>8 DEF Abstract!ANext, Abstract!Sign

\* Every step of the node is a step of the abstract chain, or invisible.
LEMMA StepRefines == NodeInv /\ [Next]_vars => [Abstract!ANext]_(Abstract!avars)
<1> SUFFICES ASSUME NodeInv, [Next]_vars PROVE [Abstract!ANext]_(Abstract!avars)
  OBVIOUS
<1>1. CASE SyncStep
  <2>1. UNCHANGED broadcasts
    BY <1>1 DEF SyncStep, conVars
  <2>2. SyncThm!Next
    BY <1>1, SameSync DEF SyncThm!Next
  <2>3. UNCHANGED blocks \/ \E g \in Goroutine : SyncThm!Accept(g)
    BY <2>2, SyncThm!OnlyAcceptStores, NodeAssumption
    DEF SyncThm!engineVars, Goroutine, SyncThm!Goroutine
  <2> QED
    BY <2>1, <2>3, AcceptExtends, Invisible
<1>2. ASSUME NEW t \in Caller, Verifies(t) PROVE UNCHANGED Abstract!avars
  BY <1>2, Invisible DEF Verifies, syncVars, conVars
<1>3. ASSUME NEW g \in Goroutine, Attests(g) PROVE Abstract!ANext
  BY <1>3, AttestSigns
<1>4. ASSUME NEW g \in Goroutine, Rejects(g) PROVE UNCHANGED Abstract!avars
  BY <1>4, CallbackEnds, Invisible DEF Rejects, conVars
<1>5. CASE UNCHANGED vars
  BY <1>5, Invisible DEF vars, syncVars, conVars
<1> QED
  BY <1>1, <1>2, <1>3, <1>4, <1>5, NodeSteps

\* The node implements AttestedChain: the network sees one gap-free chain that only
\* grows, and signatures of its blocks, each height at most once.
THEOREM NodeImplementsChain == Spec => RefinesAttestedChain
<1>1. Init => Abstract!AInit
  <2> SUFFICES ASSUME Init PROVE Abstract!AInit
    OBVIOUS
  <2>1. FollowedChain = <<>>
    BY DEF Init, Sync!Init, FollowedChain
  <2>2. Signatures = <<>>
    BY DEF Init, Signatures
  <2> QED
    BY <2>1, <2>2 DEF Abstract!AInit
<1> QED
  BY <1>1, StepRefines, NodeInvariant, NoCrash, PTL
  DEF Spec, RefinesAttestedChain, Abstract!ASpec

-----------------------------------------------------------------------------
(***************************************************************************)
(* Each new block is attested when the sync loop is the only one to bring  *)
(* blocks and to have them verified.                                       *)
(***************************************************************************)

\* The root a chain of n blocks of the sequencer leads to.
RootAt(n) == IF n = 0 THEN Genesis ELSE Chain[n].stateRoot

\* Peers announce nothing, nobody calls inso_verifyBlock, and the sequencer answers
\* with blocks whose roots follow from each other.
OneFeeder ==
    /\ Gossip = {}
    /\ MaxRequests = 0
    /\ NullReplies = FALSE
    /\ \A n \in 1 .. MaxHead :
          /\ Chain[n].stateRoot \in Root
          /\ NextRoot[RootAt(n - 1)][Chain[n]] = Chain[n].stateRoot

\* The sync loop has stored a block whose callback has not returned.
InHand == pc["rpc"] \in {"metrics", "probe", "compare", "gauge", "notify", "callback"}

\* The heights that are stored and whose callback has returned.
Settled == IF InHand THEN latestBlock - 1 ELSE latestBlock

\* The listener and the HTTP handlers are out of the picture.
LoneLoop ==
    /\ pc["p2p"] \in {"idle", "done"}
    /\ \A t \in Caller \ {"rpc"} : vpc[t] = "idle"

\* The stored chain is the sequencer's, and the loop works on its top.
LoneChain ==
    /\ latestBlock \in 0 .. MaxHead
    /\ DOMAIN blocks = 1 .. latestBlock
    /\ \A n \in DOMAIN blocks : blocks[n] = Chain[n]
    /\ pc["rpc"] = "process" => num \in 1 .. MaxHead /\ cur["rpc"] = Chain[num]
    /\ InHand => latestBlock > 0 /\ cur["rpc"] = Chain[latestBlock]

\* stateRoot is the root of the settled chain; during a verification the expected
\* root is that of the block in hand, and the verdict is never "invalid".
LoneRoots ==
    /\ vpc["rpc"] # "invalid"
    /\ vpc["rpc"] \in {"idle", "readLo", "readHi", "check", "writeLo"} =>
          rootLo = RootAt(Settled) /\ rootHi = RootAt(Settled)
    /\ vpc["rpc"] = "readHi" => expected["rpc"] = RootAt(Settled)
    /\ vpc["rpc"] \in {"check", "writeLo", "writeHi"} =>
          expected["rpc"] = RootAt(latestBlock)
    /\ vpc["rpc"] \in {"writeHi", "valid"} => rootLo = RootAt(latestBlock)
    /\ vpc["rpc"] = "valid" => rootHi = RootAt(latestBlock)

LoneInv ==
    /\ LoneLoop
    /\ LoneChain
    /\ LoneRoots
    /\ AttestedNumbers = 1 .. Settled

\* Steps of the sync engine other than storing a block: the block in hand and the
\* settled heights stay, and the loop fetches blocks of the sequencer.
LoneFrame ==
    /\ UNCHANGED <<latestBlock, blocks>>
    /\ pc'["p2p"] \in {"idle", "done"}
    /\ InHand' <=> InHand
    /\ InHand => cur'["rpc"] = cur["rpc"]
    /\ pc'["rpc"] = "process" => num' \in 1 .. MaxHead /\ cur'["rpc"] = Chain[num']

\* Without announcements the listener brings no block, and without null replies the
\* loop brings the block it asked for.
LEMMA LoneQuiet ==
    ASSUME OneFeeder, NodeInv, LoneInv, SyncStep,
           ~\E g \in Goroutine : SyncThm!Accept(g)
    PROVE  LoneFrame
<1> USE DEF SyncThm!envVars, SyncThm!engineVars, SyncThm!gaugeVars, SyncThm!probeVars,
            SyncThm!loopVars, SyncThm!Goto, SyncThm!Goroutine, Goroutine, InHand, LoneFrame
<1>0. /\ pc \in [Goroutine -> SyncThm!PC]
      /\ cur \in [Goroutine -> Block]
      /\ pc["p2p"] \in {"idle", "done"}
      /\ pc["rpc"] = "process" => num \in 1 .. MaxHead /\ cur["rpc"] = Chain[num]
  BY DEF NodeInv, EnginesInv, SyncThm!TypeOK, LoneInv, LoneLoop, LoneChain
<1>1. CASE SyncThm!Environment
  BY <1>0, <1>1 DEF SyncThm!Environment, SyncThm!Produce, SyncThm!Deliver,
     SyncThm!ConsensusReceive, SyncThm!SetMetrics, SyncThm!Stop
<1>2. CASE SyncThm!Loops
  <2>1. CASE SyncThm!ListenerReceive
    <3>1. msgCh \in Seq({Other}) /\ msgCh # <<>>
      BY <2>1 DEF OneFeeder, SyncThm!ListenerReceive, NodeInv, EnginesInv, SyncThm!TypeOK
    <3>2. Head(msgCh) = Other
      BY <3>1
    <3> QED
      BY <1>0, <2>1, <3>2 DEF SyncThm!ListenerReceive
  <2>2. CASE SyncThm!Tick
    BY <1>0, <2>2 DEF SyncThm!Tick
  <2>3. CASE SyncThm!ReadLocal
    BY <1>0, <2>3 DEF SyncThm!ReadLocal, SyncThm!LoopFrom, SyncThm!MoreToFetch, SyncThm!NothingNew, SyncThm!EndRound
  <2>4. CASE SyncThm!FetchBlock
    <3>1. num \in 1 .. MaxHead
      BY <2>4, NodeAssumption
      DEF SyncThm!FetchBlock, SyncThm!Fetched, NodeInv, EnginesInv, SyncThm!TypeOK
    <3> QED
      BY <1>0, <2>4, <3>1 DEF SyncThm!FetchBlock, SyncThm!Fetched
  <2>5. CASE SyncThm!FetchNull
    BY <2>5 DEF SyncThm!FetchNull, OneFeeder
  <2>6. CASE SyncThm!FetchFails
    BY <1>0, <2>6 DEF SyncThm!FetchFails, SyncThm!EndRound
  <2>7. CASE \E g \in Goroutine : SyncThm!Exit(g)
    BY <1>0, <2>7 DEF SyncThm!Exit
  <2> QED
    BY <1>2, <2>1, <2>2, <2>3, <2>4, <2>5, <2>6, <2>7 DEF SyncThm!Loops
<1>3. ASSUME NEW g \in Goroutine, SyncThm!ProcessBlock(g) PROVE LoneFrame
  <2>0. g = "rpc"
    BY <1>0, <1>3 DEF SyncThm!ProcessBlock, SyncThm!Skip, SyncThm!Accept,
       SyncThm!StoreSyncedBlock, SyncThm!ProbeHead, SyncThm!ProbeFails,
       SyncThm!CompareHead, SyncThm!StoreIsSynced, SyncThm!OnNewBlock
  <2>1. CASE SyncThm!Skip(g)
    BY <1>0, <2>0, <2>1 DEF SyncThm!Skip, SyncThm!Return, SyncThm!LoopFrom, SyncThm!MoreToFetch, SyncThm!DropLocals, SyncThm!EndRound
  <2>2. CASE SyncThm!StoreSyncedBlock(g)
    BY <1>0, <2>0, <2>2 DEF SyncThm!StoreSyncedBlock
  <2>3. CASE SyncThm!ProbeHead(g) \/ SyncThm!ProbeFails(g)
    BY <1>0, <2>0, <2>3 DEF SyncThm!ProbeHead, SyncThm!ProbeFails
  <2>4. CASE SyncThm!CompareHead(g) \/ SyncThm!StoreIsSynced(g)
    BY <1>0, <2>0, <2>4 DEF SyncThm!CompareHead, SyncThm!StoreIsSynced
  <2>5. CASE SyncThm!OnNewBlock(g)
    BY <1>0, <2>0, <2>5 DEF SyncThm!OnNewBlock
  <2> QED
    BY <1>3, <2>1, <2>2, <2>3, <2>4, <2>5 DEF SyncThm!ProcessBlock
<1> QED
  BY <1>1, <1>2, <1>3, SameSync

\* The settled heights and the root stay with the sync engine's own steps.
LEMMA SyncKeepsLone ==
    ASSUME OneFeeder, NodeInv, LoneInv, SyncStep
    PROVE  LoneInv'
<1>0. /\ UNCHANGED <<broadcasts, rootLo, rootHi, vpc, expected>>
      /\ latestBlock \in Nat
      /\ MaxHead \in Nat
  BY NodeAssumption DEF SyncStep, verVars, conVars, LoneInv, LoneChain
<1>1. UNCHANGED AttestedNumbers
  BY <1>0 DEF AttestedNumbers
<1>2. ASSUME ~\E g \in Goroutine : SyncThm!Accept(g) PROVE LoneInv'
  <2>1. LoneFrame
    BY <1>2, LoneQuiet
  <2>2. Settled' = Settled
    BY <2>1 DEF LoneFrame, Settled
  <2>3. LoneLoop'
    BY <2>1, <1>0 DEF LoneFrame, LoneInv, LoneLoop
  <2>4. LoneChain'
    BY <2>1 DEF LoneFrame, LoneInv, LoneChain
  <2>5. LoneRoots'
    BY <2>1, <2>2, <1>0 DEF LoneFrame, LoneInv, LoneRoots
  <2> QED
    BY <2>2, <2>3, <2>4, <2>5, <1>1 DEF LoneInv
<1>3. ASSUME NEW g \in Goroutine, SyncThm!Accept(g) PROVE LoneInv'
  <2>1. g = "rpc" /\ pc["rpc"] = "process"
    BY <1>3 DEF LoneInv, LoneLoop, SyncThm!Accept, Goroutine
  <2>2. num \in 1 .. MaxHead /\ cur["rpc"] = Chain[num] /\ Chain[num].number = num
    BY <2>1, NodeAssumption DEF LoneInv, LoneChain
  <2>3. /\ num \notin DOMAIN blocks
        /\ num > 1 => num = latestBlock + 1
        /\ blocks' = [n \in DOMAIN blocks \cup {num} |-> IF n = num THEN Chain[num] ELSE blocks[n]]
        /\ latestBlock' = num
        /\ UNCHANGED cur
        /\ pc'["rpc"] = "metrics" /\ pc'["p2p"] = pc["p2p"]
    BY <1>3, <2>1, <2>2 DEF SyncThm!Accept, SyncThm!Duplicate, SyncThm!Gap, SyncThm!Store,
       SyncThm!NewHeight, SyncThm!Goto, NodeInv, EnginesInv, SyncThm!TypeOK, SyncThm!Goroutine
  <2>4. num = latestBlock + 1
    BY <2>2, <2>3, <1>0 DEF LoneInv, LoneChain
  <2>5. Settled' = Settled /\ Settled = latestBlock
    BY <2>1, <2>3, <2>4, <1>0 DEF Settled, InHand
  <2>6. LoneLoop'
    BY <2>3, <1>0 DEF LoneInv, LoneLoop
  <2>7. LoneChain'
    <3>1. DOMAIN blocks' = 1 .. latestBlock'
      BY <2>3, <2>4, <1>0 DEF LoneInv, LoneChain
    <3>2. \A n \in DOMAIN blocks' : blocks'[n] = Chain[n]
      BY <2>3 DEF LoneInv, LoneChain
    <3> QED
      BY <3>1, <3>2, <2>2, <2>3 DEF LoneChain
  <2>8. vpc["rpc"] = "idle"
    BY <2>1 DEF NodeInv, VerifyInv, Goroutine
  <2>9. LoneRoots'
    BY <2>5, <2>8, <1>0 DEF LoneInv, LoneRoots
  <2> QED
    BY <2>5, <2>6, <2>7, <2>9, <1>1 DEF LoneInv
<1> QED
  BY <1>2, <1>3

\* The verification of the block in hand starts from the root of the chain below it,
\* so it arrives at the root the block claims.
LEMMA VerifyKeepsLone ==
    ASSUME OneFeeder, NodeInv, LoneInv, NEW t \in Caller, Verifies(t)
    PROVE  LoneInv'
<1>0. /\ UNCHANGED <<pc, cur, num, blocks, latestBlock, broadcasts>>
      /\ vpc \in [Caller -> VerThm!VPC]
      /\ expected \in [Caller -> Root]
      /\ latestBlock \in Nat
      /\ "rpc" \in Caller
  BY DEF Verifies, syncVars, conVars, NodeInv, EnginesInv, VerThm!VTypeOK, SyncThm!TypeOK,
     Caller, Goroutine
<1>1. t = "rpc" /\ pc["rpc"] = "callback"
  <2>1. ASSUME t # "rpc" PROVE FALSE
    <3>1. vpc[t] = "idle"
      BY <2>1 DEF LoneInv, LoneLoop
    <3>2. t \in Goroutine => pc[t] # "callback"
      BY <2>1 DEF LoneInv, LoneLoop, Goroutine
    <3>3. ~(requests < MaxRequests)
      BY DEF OneFeeder, NodeInv, BoundsInv
    <3> QED
      BY <3>1, <3>2, <3>3 DEF Verifies, VerThm!VerifyStep, VerThm!ReadLo, VerThm!ReadHi,
         VerThm!Compare, VerThm!WriteLo, VerThm!WriteHi, VerThm!TakeResult
  <2>2. t = "rpc"
    BY <2>1
  <2>3. "rpc" \in Goroutine /\ "rpc" \notin Http
    BY NodeAssumption DEF Goroutine
  <2> QED
    BY <2>2, <2>3 DEF Verifies, VerThm!VerifyStep, VerThm!ReadLo, VerThm!ReadHi,
       VerThm!Compare, VerThm!WriteLo, VerThm!WriteHi, NodeInv, VerifyInv
<1>2. UNCHANGED <<AttestedNumbers, Settled, InHand>>
  BY <1>0 DEF AttestedNumbers, Settled, InHand
<1>3. LoneChain'
  BY <1>0, <1>2 DEF LoneInv, LoneChain
<1>4. LoneLoop'
  <2>1. \A u \in Caller : u # t => vpc'[u] = vpc[u]
    BY <1>0, <1>1, NodeAssumption DEF Verifies, VerThm!VerifyBlock, VerThm!VerifyStep,
       VerThm!ReadLo, VerThm!ReadHi, VerThm!Compare, VerThm!WriteLo, VerThm!WriteHi,
       VerThm!TakeResult
  <2> QED
    BY <2>1, <1>0, <1>1 DEF LoneInv, LoneLoop
<1>5. /\ latestBlock \in 1 .. MaxHead
      /\ cur["rpc"] = Chain[latestBlock]
      /\ cur["rpc"].number # 0
      /\ Settled = latestBlock - 1
      /\ RootAt(latestBlock) = cur["rpc"].stateRoot
      /\ RootAt(latestBlock) \in Root
      /\ NextRoot[RootAt(Settled)][cur["rpc"]] = RootAt(latestBlock)
  <2>1. latestBlock \in 1 .. MaxHead /\ cur["rpc"] = Chain[latestBlock]
    BY <1>0, <1>1, NodeAssumption DEF LoneInv, LoneChain, InHand
  <2>2. Settled = latestBlock - 1
    BY <1>1 DEF Settled, InHand
  <2>3. Chain[latestBlock].number = latestBlock /\ latestBlock # 0
    BY <2>1, NodeAssumption
  <2>4. RootAt(latestBlock) = Chain[latestBlock].stateRoot
    BY <2>3 DEF RootAt
  <2>5. /\ Chain[latestBlock].stateRoot \in Root
        /\ NextRoot[RootAt(latestBlock - 1)][Chain[latestBlock]] = Chain[latestBlock].stateRoot
    BY <2>1 DEF OneFeeder
  <2> QED
    BY <2>1, <2>2, <2>3, <2>4, <2>5
<1>6. vpc["rpc"] # "idle" => vblk["rpc"] = cur["rpc"]
  BY DEF NodeInv, VerifyInv, Goroutine
<1>7. LoneRoots'
  <2>1. CASE VerThm!VerifyBlock("rpc", cur["rpc"])
    BY <2>1, <1>0, <1>2, <1>5 DEF VerThm!VerifyBlock, VerThm!IsBlockZero, LoneInv, LoneRoots
  <2>2. CASE VerThm!ReadLo("rpc")
    BY <2>2, <1>0, <1>2 DEF VerThm!ReadLo, LoneInv, LoneRoots
  <2>3. CASE VerThm!ReadHi("rpc")
    <3>1. VerThm!RootRead("rpc") = RootAt(Settled) /\ vblk["rpc"] = cur["rpc"]
      BY <2>3, <1>6 DEF VerThm!ReadHi, VerThm!RootRead, VerThm!Join, LoneInv, LoneRoots
    <3> QED
      BY <2>3, <3>1, <1>0, <1>2, <1>5 DEF VerThm!ReadHi, LoneInv, LoneRoots
  <2>4. CASE VerThm!Compare("rpc")
    <3>1. VerThm!RootAgrees("rpc")
      BY <2>4, <1>5, <1>6 DEF VerThm!Compare, VerThm!RootAgrees, LoneInv, LoneRoots
    <3> QED
      BY <2>4, <3>1, <1>0, <1>2 DEF VerThm!Compare, LoneInv, LoneRoots
  <2>5. CASE VerThm!WriteLo("rpc")
    BY <2>5, <1>0, <1>2 DEF VerThm!WriteLo, LoneInv, LoneRoots
  <2>6. CASE VerThm!WriteHi("rpc")
    BY <2>6, <1>0, <1>2 DEF VerThm!WriteHi, LoneInv, LoneRoots
  <2>7. "rpc" \notin Http
    BY NodeAssumption
  <2> QED
    BY <1>1, <2>1, <2>2, <2>3, <2>4, <2>5, <2>6, <2>7 DEF Verifies, VerThm!VerifyStep
<1> QED
  BY <1>2, <1>3, <1>4, <1>7 DEF LoneInv

\* The callback attests the block in hand, which settles its height.
LEMMA AttestKeepsLone ==
    ASSUME OneFeeder, NodeInv, LoneInv, NEW g \in Goroutine, Attests(g)
    PROVE  LoneInv'
<1>0. /\ vpc \in [Caller -> VerThm!VPC]
      /\ pc \in [Goroutine -> SyncThm!PC]
      /\ cur \in [Goroutine -> Block]
      /\ latestBlock \in Nat
      /\ MaxHead \in Nat
      /\ "rpc" \in Goroutine /\ "p2p" \in Goroutine /\ g \in Caller
  BY NodeAssumption DEF NodeInv, EnginesInv, VerThm!VTypeOK, SyncThm!TypeOK, Caller,
     Goroutine, SyncThm!Goroutine
<1>1. g = "rpc" /\ pc["rpc"] = "callback" /\ vpc["rpc"] = "valid"
  BY <1>0 DEF Attests, LoneInv, LoneLoop, NodeInv, VerifyInv
<1>2. /\ UNCHANGED <<blocks, latestBlock, rootLo, rootHi>>
      /\ pc'["p2p"] = pc["p2p"]
      /\ pc'["rpc"] \in {"fetch", "idle"}
      /\ vpc' = [vpc EXCEPT !["rpc"] = "idle"]
  BY <1>0, <1>1 DEF Attests, VerThm!TakeResult, SyncThm!CallbackReturn, SyncThm!Return, SyncThm!LoopFrom, SyncThm!MoreToFetch,
     SyncThm!DropLocals, SyncThm!EndRound, SyncThm!Goto, SyncThm!engineVars
<1>3. Settled = latestBlock - 1 /\ Settled' = latestBlock /\ ~InHand'
  BY <1>0, <1>1, <1>2 DEF Settled, InHand
<1>4. latestBlock \in 1 .. MaxHead /\ cur["rpc"].number = latestBlock
  <2>1. latestBlock \in 1 .. MaxHead /\ cur["rpc"] = Chain[latestBlock]
    BY <1>0, <1>1 DEF LoneInv, LoneChain, InHand
  <2> QED
    BY <2>1, NodeAssumption
<1>5. AttestedNumbers' = AttestedNumbers \cup {cur["rpc"].number}
  <2> DEFINE s == [number |-> cur["rpc"].number, hash |-> BlockHash("rpc"),
                   validator |-> Local, signed |-> TRUE]
  <2>1. broadcasts' = Append(broadcasts, s) /\ s.number = cur["rpc"].number
    BY <1>1 DEF Attests
  <2>2. broadcasts \in Seq(Signature)
    BY DEF NodeInv, SignedInv
  <2> HIDE DEF s
  <2>3. /\ Len(broadcasts) \in Nat
        /\ Len(broadcasts') = Len(broadcasts) + 1
        /\ broadcasts'[Len(broadcasts) + 1] = s
        /\ \A i \in 1 .. Len(broadcasts) : broadcasts'[i] = broadcasts[i]
    BY <2>1, <2>2
  <2> QED
    BY <2>1, <2>3 DEF AttestedNumbers
<1>6. AttestedNumbers' = 1 .. Settled'
  BY <1>0, <1>3, <1>4, <1>5 DEF LoneInv
<1>7. LoneLoop'
  BY <1>0, <1>2 DEF LoneInv, LoneLoop, Caller
<1>8. LoneChain'
  BY <1>2, <1>3 DEF LoneInv, LoneChain
<1>9. LoneRoots'
  <2>1. vpc'["rpc"] = "idle"
    BY <1>0, <1>1, <1>2
  <2> QED
    BY <2>1, <1>1, <1>2, <1>3 DEF LoneInv, LoneRoots
<1> QED
  BY <1>6, <1>7, <1>8, <1>9 DEF LoneInv

\* When the sync loop is the only feeder and the sequencer's roots are right, a block
\* whose callback has returned is attested.
THEOREM LoneLoopAttests ==
    ASSUME OneFeeder
    PROVE  Spec => []AttestsEachNewBlock
<1>1. Init => LoneInv
  <2> SUFFICES ASSUME Init PROVE LoneInv
    OBVIOUS
  <2>1. /\ pc["rpc"] = "idle" /\ pc["p2p"] = "idle"
        /\ \A t \in Caller : vpc[t] = "idle"
        /\ "rpc" \in Caller
        /\ latestBlock = 0
        /\ DOMAIN blocks = {}
        /\ rootLo = Genesis /\ rootHi = Genesis
    BY DEF Init, Sync!Init, Ver!VInit, Sync!Goroutine, Caller, Goroutine
  <2>2. ~InHand /\ Settled = 0 /\ RootAt(0) = Genesis
    BY <2>1 DEF InHand, Settled, RootAt
  <2>3. AttestedNumbers = {}
    BY DEF Init, AttestedNumbers
  <2>4. LoneChain
    BY <2>1, <2>2, NodeAssumption DEF LoneChain
  <2>5. LoneLoop /\ LoneRoots
    BY <2>1, <2>2 DEF LoneLoop, LoneRoots
  <2> QED
    BY <2>2, <2>3, <2>4, <2>5 DEF LoneInv
<1>2. NodeInv /\ LoneInv /\ [Next]_vars => LoneInv'
  <2> SUFFICES ASSUME NodeInv, LoneInv, [Next]_vars PROVE LoneInv'
    OBVIOUS
  <2>1. ASSUME NEW g \in Goroutine, Rejects(g) PROVE FALSE
    BY <2>1 DEF Rejects, LoneInv, LoneLoop, LoneRoots, Caller, Goroutine
  <2>2. CASE UNCHANGED vars
    <3>1. UNCHANGED <<pc, cur, num, blocks, latestBlock, vpc, expected, rootLo, rootHi,
                      broadcasts>>
      BY <2>2 DEF vars, syncVars, verVars, conVars
    <3>2. UNCHANGED <<InHand, Settled, AttestedNumbers>>
      BY <3>1 DEF InHand, Settled, AttestedNumbers
    <3> QED
      BY <3>1, <3>2 DEF LoneInv, LoneLoop, LoneChain, LoneRoots
  <2> QED
    BY <2>1, <2>2, NodeSteps, SyncKeepsLone, VerifyKeepsLone, AttestKeepsLone
<1>3. NodeInv /\ LoneInv => AttestsEachNewBlock
  <2> SUFFICES ASSUME NodeInv, LoneInv, NEW n \in Sync!Notified, n \notin AttestedNumbers
               PROVE  \E g \in Goroutine : pc[g] = "callback" /\ cur[g].number = n
    BY DEF AttestsEachNewBlock
  <2>1. n \in SyncThm!Notified
    BY DEF Sync!Notified, SyncThm!Notified
  <2>2. n \in 1 .. latestBlock /\ latestBlock \in Nat /\ MaxHead \in Nat
    BY <2>1, NodeAssumption DEF NodeInv, EnginesInv, SyncThm!NotifyInv,
       SyncThm!NotifiedExactlyOnce, SyncThm!Notified, LoneInv, LoneChain
  <2>3. InHand /\ n = latestBlock
    BY <2>2 DEF LoneInv, Settled
  <2>4. n \in 1 .. MaxHead /\ cur["rpc"] = Chain[n]
    BY <2>2, <2>3 DEF LoneInv, LoneChain
  <2>5. cur["rpc"].number = n
    BY <2>4, NodeAssumption
  <2>6. pc["rpc"] \notin SyncThm!Pending
    BY <2>1, <2>5 DEF NodeInv, EnginesInv, SyncThm!NotifyInv, SyncThm!NotifiedExactlyOnce,
       SyncThm!Goroutine
  <2>7. pc["rpc"] = "callback" /\ "rpc" \in Goroutine
    BY <2>3, <2>6 DEF InHand, SyncThm!Pending, Goroutine
  <2> QED
    BY <2>5, <2>7
<1> QED
  BY <1>1, <1>2, <1>3, NodeInvariant, NoCrash, PTL DEF Spec

=============================================================================
