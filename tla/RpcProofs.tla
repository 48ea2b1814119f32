----------------------------- MODULE RpcProofs ------------------------------
(***************************************************************************)
(* Proofs about RpcServer: what a handler answers while the node moves on. *)
(***************************************************************************)
EXTENDS RpcServer, NodeProofs, DataTheorems

HandlerPC == {"idle", "probe", "compare", "height", "lane", "receipt", "encode"}

\* The handlers' variables are what Go declares.
HandlersTyped ==
    /\ hpc \in [Http -> HandlerPC]
    /\ remote \in [Http -> Nat]
    /\ DOMAIN synced = Http
    /\ DOMAIN answer = Http

-----------------------------------------------------------------------------
(***************************************************************************)
(* The node under its handlers.                                            *)
(***************************************************************************)

\* The handlers leave the node's invariant alone.
LEMMA HttpKeepsNode == NodeInv /\ [HttpNext]_<<vars, httpVars>> => NodeInv'
<1>1. [HttpNext]_<<vars, httpVars>> => [Next \/ Restart]_vars
  BY DEF HttpNext
<1> QED
  BY <1>1, NextNode

\* The same for the absence of blocks numbered 0.
LEMMA HttpKeepsZeroFree ==
    ASSUME SyncThm!NoBlockZero
    PROVE  NodeInv /\ SyncThm!ZeroFree /\ [HttpNext]_<<vars, httpVars>> => SyncThm!ZeroFree'
<1> SUFFICES ASSUME NodeInv, SyncThm!ZeroFree, [HttpNext]_<<vars, httpVars>>
             PROVE  SyncThm!ZeroFree'
  OBVIOUS
<1>1. [Next]_vars
  BY DEF HttpNext
<1>2. [SyncThm!Next]_(SyncThm!vars)
  BY <1>1, EngineSteps DEF NodeInv, EnginesInv
<1> QED
  BY <1>2, SyncThm!NextZeroFree, NodeAssumption DEF NodeInv, EnginesInv

\* Without blocks numbered 0, LatestBlock() never goes back.
LEMMA HeightGrows ==
    ASSUME NodeInv, SyncThm!ZeroFree', [Next]_vars
    PROVE  latestBlock' \in Nat /\ latestBlock <= latestBlock'
<1>0. NodeInv'
  BY NextNode
<1>1. [SyncThm!Next]_(SyncThm!vars)
  BY EngineSteps DEF NodeInv, EnginesInv
<1>2. UNCHANGED latestBlock \/ \E g \in SyncThm!Goroutine : SyncThm!Accept(g)
  BY <1>1, SyncThm!OnlyAcceptStores, NodeAssumption DEF SyncThm!engineVars, SyncThm!vars
<1>3. ASSUME NEW g \in SyncThm!Goroutine, SyncThm!Accept(g) PROVE latestBlock <= latestBlock'
  BY <1>3, SyncThm!AcceptMonotone, NodeAssumption
  DEF NodeInv, EnginesInv, SyncThm!ZeroFree
<1>4. latestBlock \in Nat /\ latestBlock' \in Nat
  BY <1>0 DEF NodeInv, EnginesInv, SyncThm!TypeOK
<1> QED
  BY <1>2, <1>3, <1>4

-----------------------------------------------------------------------------
(***************************************************************************)
(* The status answer.                                                      *)
(***************************************************************************)

\* The inductive invariant: from the comparison on, the height is not below the head
\* the sequencer reported, and the answer repeats what IsSynced said.
StatusInv ==
    /\ HandlersTyped
    /\ \A h \in Http : hpc[h] = "height" /\ synced[h] => latestBlock >= remote[h]
    /\ \A h \in Http : answer[h].kind = "status" =>
          /\ answer[h].code = 200 => answer[h].synced
          /\ answer[h].synced => answer[h].latestBlock >= answer[h].remote

\* The steps of one handler.
LEMMA HandlerKeepsStatus ==
    ASSUME NodeInv, StatusInv, NEW h \in Http,
           HttpRequest(h) \/ AdaptiveRequest(h) \/ Handle(h), UNCHANGED vars
    PROVE  StatusInv'
<1> USE DEF StatusInv, HandlersTyped, HandlerPC, Step, Respond
<1>0. /\ UNCHANGED <<latestBlock, head>>
      /\ latestBlock \in Nat
      /\ head \in Nat
  BY NodeAssumption DEF vars, syncVars, NodeInv, EnginesInv, SyncThm!TypeOK
<1>1. CASE HttpRequest(h)
  BY <1>0, <1>1 DEF HttpRequest
<1>2. CASE AdaptiveRequest(h)
  BY <1>0, <1>2 DEF AdaptiveRequest
<1>3. CASE StatusProbe(h)
  BY <1>0, <1>3 DEF StatusProbe
<1>4. CASE StatusProbeFails(h)
  BY <1>0, <1>4 DEF StatusProbeFails
<1>5. CASE StatusCompare(h)
  BY <1>0, <1>5 DEF StatusCompare, CaughtUp
<1>6. CASE StatusAnswer(h)
  BY <1>0, <1>6 DEF StatusAnswer, StatusCode
<1>7. CASE LaneAnswer(h)
  BY <1>0, <1>7 DEF LaneAnswer
<1>8. CASE ReceiptAnswer(h)
  BY <1>0, <1>8 DEF ReceiptAnswer
<1>9. CASE Encode(h)
  BY <1>0, <1>9 DEF Encode, NoAnswer
<1> QED
  BY <1>1, <1>2, <1>3, <1>4, <1>5, <1>6, <1>7, <1>8, <1>9 DEF Handle

\* A step of the node under the handlers only raises the height.
LEMMA NextStatus ==
    NodeInv /\ StatusInv /\ SyncThm!ZeroFree' /\ [HttpNext]_<<vars, httpVars>> => StatusInv'
<1> SUFFICES ASSUME NodeInv, StatusInv, SyncThm!ZeroFree', [HttpNext]_<<vars, httpVars>>
             PROVE  StatusInv'
  OBVIOUS
<1>1. ASSUME [Next]_vars, UNCHANGED httpVars PROVE StatusInv'
  <2>1. /\ latestBlock \in Nat /\ latestBlock' \in Nat /\ latestBlock <= latestBlock'
        /\ UNCHANGED <<hpc, remote, synced, answer>>
    BY <1>1, HeightGrows DEF httpVars, NodeInv, EnginesInv, SyncThm!TypeOK
  <2> QED
    BY <2>1 DEF StatusInv, HandlersTyped
<1> QED
  BY <1>1, HandlerKeepsStatus DEF HttpNext

\* When no block numbered 0 comes in, a status that says "synced" or ready comes with a
\* height that is not below the head IsSynced was told, for any number of handlers
\* and whatever the sync engine does between the two reads.
THEOREM StatusSound ==
    ASSUME SyncThm!NoBlockZero
    PROVE  HttpSpec => []SyncedAnswerIsSound
<1>1. HttpInit => NodeInv /\ SyncThm!ZeroFree /\ StatusInv
  <2> SUFFICES ASSUME HttpInit PROVE SyncThm!ZeroFree /\ StatusInv
    BY InitNode DEF HttpInit
  <2>1. SyncThm!ZeroFree
    BY DEF HttpInit, Init, Sync!Init, SyncThm!ZeroFree, Sync!Goroutine, SyncThm!Goroutine
  <2>2. StatusInv
    BY DEF HttpInit, StatusInv, HandlersTyped, HandlerPC, NoAnswer
  <2> QED
    BY <2>1, <2>2
<1>2. NodeInv /\ SyncThm!ZeroFree /\ StatusInv /\ [HttpNext]_<<vars, httpVars>>
         => (NodeInv /\ SyncThm!ZeroFree /\ StatusInv)'
  BY HttpKeepsNode, HttpKeepsZeroFree, NextStatus
<1>3. StatusInv => SyncedAnswerIsSound
  BY DEF StatusInv, SyncedAnswerIsSound
<1> QED
  BY <1>1, <1>2, <1>3, PTL DEF HttpSpec

-----------------------------------------------------------------------------
(***************************************************************************)
(* The verdicts on receipts.                                               *)
(***************************************************************************)

\* The inductive invariant: an answer about a receipt is the verdict on that receipt.
VerdictInv ==
    /\ DOMAIN answer = Http
    /\ \A h \in Http :
          answer[h].kind = "receipt" =>
              /\ answer[h].receipt \in ReceiptReply
              /\ answer[h].valid => ReceiptValid(answer[h].receipt)

\* Only the handlers give verdicts.
LEMMA NextVerdict == VerdictInv /\ [HttpNext]_<<vars, httpVars>> => VerdictInv'
<1> SUFFICES ASSUME VerdictInv, [HttpNext]_<<vars, httpVars>> PROVE VerdictInv'
  OBVIOUS
<1>1. CASE UNCHANGED answer
  BY <1>1 DEF VerdictInv
<1>2. ASSUME NEW h \in Http, NEW a, Respond(h, a),
             a.kind = "receipt" =>
                a.receipt \in ReceiptReply /\ (a.valid => ReceiptValid(a.receipt))
      PROVE  VerdictInv'
  BY <1>2 DEF VerdictInv, Respond
<1>3. ASSUME NEW h \in Http, HttpRequest(h) \/ AdaptiveRequest(h) \/ Handle(h)
      PROVE  VerdictInv'
  <2>1. CASE HttpRequest(h) \/ StatusProbe(h) \/ StatusProbeFails(h) \/ StatusCompare(h)
    BY <2>1, <1>1 DEF HttpRequest, StatusProbe, StatusProbeFails, StatusCompare
  <2>2. CASE StatusAnswer(h)
    BY <2>2, <1>2 DEF StatusAnswer
  <2>3. CASE LaneAnswer(h)
    BY <2>3, <1>2 DEF LaneAnswer
  <2>4. CASE ReceiptAnswer(h)
    BY <2>4, <1>2 DEF ReceiptAnswer
  <2>5. CASE AdaptiveRequest(h)
    BY <2>5, <1>2 DEF AdaptiveRequest
  <2>6. CASE Encode(h)
    BY <2>6, <1>2 DEF Encode, NoAnswer
  <2> QED
    BY <1>3, <2>1, <2>2, <2>3, <2>4, <2>5, <2>6 DEF Handle
<1> QED
  BY <1>1, <1>3 DEF HttpNext, httpVars

-----------------------------------------------------------------------------
(***************************************************************************)
(* What a receipt hash stands for.                                         *)
(***************************************************************************)

Uint64 == 0 .. Power[WordLen] - 1

\* uint64ToBytes gives every number the same width, and different numbers different
\* bytes.
LEMMA WordsDiffer ==
    /\ \A v \in Uint64 :
          v \in Nat /\ Uint64ToBytes(v) \in Seq(Byte) /\ Len(Uint64ToBytes(v)) = WordLen
    /\ \A u, v \in Uint64 : Uint64ToBytes(u) = Uint64ToBytes(v) => u = v
<1>1. ASSUME NEW v \in Uint64
      PROVE  /\ v \in Nat /\ v < Power[WordLen]
             /\ Uint64ToBytes(v) \in Seq(Byte)
             /\ Len(Uint64ToBytes(v)) = WordLen
             /\ \A k \in 0 .. WordLen - 1 :
                   Uint64ToBytes(v)[WordLen - k] = (v \div Power[k]) % ByteBase
  <2>1. v \in Nat /\ v < Power[WordLen] /\ WordLen \in Nat
    BY PowerPositive, WidthAssumption DEF Uint64
  <2>2. Uint64ToBytes(v) = [i \in 1 .. WordLen - Len(BigBytes(v)) |-> 0] \o BigBytes(v)
    BY DEF Uint64ToBytes
  <2> QED
    BY <2>1, <2>2, PaddedDigits
<1>2. ASSUME NEW u \in Uint64, NEW v \in Uint64, Uint64ToBytes(u) = Uint64ToBytes(v)
      PROVE  u = v
  <2>1. \A k \in 0 .. WordLen - 1 :
           (u \div Power[k]) % ByteBase = (v \div Power[k]) % ByteBase
    BY <1>1, <1>2
  <2> QED
    BY <1>1, <2>1, DigitsDetermine, WidthAssumption
<1> QED
  BY <1>1, <1>2

\* The fields of a receipt can be read off the data that is hashed: all of them have
\* fixed widths, so the last one can be split off again and again.
LEMMA ReceiptHashDetermines ==
    ASSUME NEW r \in ReceiptData, NEW s \in ReceiptData,
           ComputeReceiptHash(r) = ComputeReceiptHash(s)
    PROVE  r = s
<1> DEFINE P1(x) == x.txHash \o Uint64ToBytes(x.blockNumber)
           P2(x) == P1(x) \o Uint64ToBytes(x.txIndex)
           P3(x) == P2(x) \o x.sender
           P4(x) == P3(x) \o Uint64ToBytes(x.gasUsed)
           P5(x) == P4(x) \o x.preStateRoot
           P6(x) == P5(x) \o x.postStateRoot
           P7(x) == P6(x) \o Uint64ToBytes(x.status)
           P8(x) == P7(x) \o x.inputHash
           P9(x) == P8(x) \o x.outputHash
           P10(x) == P9(x) \o x.logsHash
<1>1. ASSUME NEW h \in [1 .. HashLen -> Byte] PROVE h \in Seq(Byte) /\ Len(h) = HashLen
  BY WidthAssumption
<1>2. ASSUME NEW a \in [1 .. AddrLen -> Byte] PROVE a \in Seq(Byte) /\ Len(a) = AddrLen
  BY WidthAssumption
<1>3. ASSUME NEW x \in ReceiptData
      PROVE  /\ {x.txHash, x.preStateRoot, x.postStateRoot, x.inputHash, x.outputHash,
                 x.logsHash} \subseteq [1 .. HashLen -> Byte]
             /\ x.sender \in [1 .. AddrLen -> Byte]
             /\ {x.blockNumber, x.txIndex, x.gasUsed, x.status} \subseteq Uint64
  BY DEF ReceiptData, Uint64
<1>4. ASSUME NEW x \in ReceiptData
      PROVE  /\ P1(x) \in Seq(Byte)
             /\ P2(x) \in Seq(Byte)
             /\ P3(x) \in Seq(Byte)
             /\ P4(x) \in Seq(Byte)
             /\ P5(x) \in Seq(Byte)
             /\ P6(x) \in Seq(Byte)
             /\ P7(x) \in Seq(Byte)
             /\ P8(x) \in Seq(Byte)
             /\ P9(x) \in Seq(Byte)
             /\ P10(x) \in Seq(Byte)
  <2>1. ASSUME NEW a \in Seq(Byte), NEW b \in Seq(Byte) PROVE a \o b \in Seq(Byte)
    BY ConcatProperties
  <2>2. P1(x) \in Seq(Byte)
    <3>1. Uint64ToBytes(x.blockNumber) \in Seq(Byte)
      BY <1>3, WordsDiffer
    <3> QED
      BY <1>1, <1>3, <2>1, <3>1
  <2>3. P2(x) \in Seq(Byte)
    <3>1. Uint64ToBytes(x.txIndex) \in Seq(Byte)
      BY <1>3, WordsDiffer
    <3> QED
      BY <2>2, <2>1, <3>1
  <2>4. P3(x) \in Seq(Byte)
    <3>1. x.sender \in Seq(Byte)
      BY <1>3, <1>2
    <3> QED
      BY <2>3, <2>1, <3>1
  <2>5. P4(x) \in Seq(Byte)
    <3>1. Uint64ToBytes(x.gasUsed) \in Seq(Byte)
      BY <1>3, WordsDiffer
    <3> QED
      BY <2>4, <2>1, <3>1
  <2>6. P5(x) \in Seq(Byte)
    <3>1. x.preStateRoot \in Seq(Byte)
      BY <1>3, <1>1
    <3> QED
      BY <2>5, <2>1, <3>1
  <2>7. P6(x) \in Seq(Byte)
    <3>1. x.postStateRoot \in Seq(Byte)
      BY <1>3, <1>1
    <3> QED
      BY <2>6, <2>1, <3>1
  <2>8. P7(x) \in Seq(Byte)
    <3>1. Uint64ToBytes(x.status) \in Seq(Byte)
      BY <1>3, WordsDiffer
    <3> QED
      BY <2>7, <2>1, <3>1
  <2>9. P8(x) \in Seq(Byte)
    <3>1. x.inputHash \in Seq(Byte)
      BY <1>3, <1>1
    <3> QED
      BY <2>8, <2>1, <3>1
  <2>10. P9(x) \in Seq(Byte)
    <3>1. x.outputHash \in Seq(Byte)
      BY <1>3, <1>1
    <3> QED
      BY <2>9, <2>1, <3>1
  <2>11. P10(x) \in Seq(Byte)
    <3>1. x.logsHash \in Seq(Byte)
      BY <1>3, <1>1
    <3> QED
      BY <2>10, <2>1, <3>1
  <2> QED
    BY <2>2, <2>3, <2>4, <2>5, <2>6, <2>7, <2>8, <2>9, <2>10, <2>11
<1>5. P10(r) = P10(s)
  BY DEF ComputeReceiptHash
<1>6. P9(r) = P9(s) /\ r.logsHash = s.logsHash
  <2>1. Joins(P10(r), P9(r), r.logsHash) /\ Joins(P10(r), P9(s), s.logsHash)
    BY <1>5 DEF Joins
  <2>2. /\ P9(r) \in Seq(Byte) /\ P9(s) \in Seq(Byte)
        /\ r.logsHash \in Seq(Byte) /\ s.logsHash \in Seq(Byte)
        /\ Len(r.logsHash) = Len(s.logsHash)
    BY <1>3, <1>4, <1>1
  <2> HIDE DEF P1, P2, P3, P4, P5, P6, P7, P8, P9, P10
  <2> QED
    BY <2>1, <2>2, JoinSplits
<1>7. P8(r) = P8(s) /\ r.outputHash = s.outputHash
  <2>1. Joins(P9(r), P8(r), r.outputHash) /\ Joins(P9(r), P8(s), s.outputHash)
    BY <1>6 DEF Joins
  <2>2. /\ P8(r) \in Seq(Byte) /\ P8(s) \in Seq(Byte)
        /\ r.outputHash \in Seq(Byte) /\ s.outputHash \in Seq(Byte)
        /\ Len(r.outputHash) = Len(s.outputHash)
    BY <1>3, <1>4, <1>1
  <2> HIDE DEF P1, P2, P3, P4, P5, P6, P7, P8, P9, P10
  <2> QED
    BY <2>1, <2>2, JoinSplits
<1>8. P7(r) = P7(s) /\ r.inputHash = s.inputHash
  <2>1. Joins(P8(r), P7(r), r.inputHash) /\ Joins(P8(r), P7(s), s.inputHash)
    BY <1>7 DEF Joins
  <2>2. /\ P7(r) \in Seq(Byte) /\ P7(s) \in Seq(Byte)
        /\ r.inputHash \in Seq(Byte) /\ s.inputHash \in Seq(Byte)
        /\ Len(r.inputHash) = Len(s.inputHash)
    BY <1>3, <1>4, <1>1
  <2> HIDE DEF P1, P2, P3, P4, P5, P6, P7, P8, P9, P10
  <2> QED
    BY <2>1, <2>2, JoinSplits
<1>9. P6(r) = P6(s) /\ r.status = s.status
  <2>1. Joins(P7(r), P6(r), Uint64ToBytes(r.status)) /\ Joins(P7(r), P6(s), Uint64ToBytes(s.status))
    BY <1>8 DEF Joins
  <2>2. /\ P6(r) \in Seq(Byte) /\ P6(s) \in Seq(Byte)
        /\ Uint64ToBytes(r.status) \in Seq(Byte) /\ Uint64ToBytes(s.status) \in Seq(Byte)
        /\ Len(Uint64ToBytes(r.status)) = Len(Uint64ToBytes(s.status))
    BY <1>3, <1>4, WordsDiffer
  <2> HIDE DEF P1, P2, P3, P4, P5, P6, P7, P8, P9, P10
  <2> QED
    BY <2>1, <2>2, JoinSplits, <1>3, WordsDiffer
<1>10. P5(r) = P5(s) /\ r.postStateRoot = s.postStateRoot
  <2>1. Joins(P6(r), P5(r), r.postStateRoot) /\ Joins(P6(r), P5(s), s.postStateRoot)
    BY <1>9 DEF Joins
  <2>2. /\ P5(r) \in Seq(Byte) /\ P5(s) \in Seq(Byte)
        /\ r.postStateRoot \in Seq(Byte) /\ s.postStateRoot \in Seq(Byte)
        /\ Len(r.postStateRoot) = Len(s.postStateRoot)
    BY <1>3, <1>4, <1>1
  <2> HIDE DEF P1, P2, P3, P4, P5, P6, P7, P8, P9, P10
  <2> QED
    BY <2>1, <2>2, JoinSplits
<1>11. P4(r) = P4(s) /\ r.preStateRoot = s.preStateRoot
  <2>1. Joins(P5(r), P4(r), r.preStateRoot) /\ Joins(P5(r), P4(s), s.preStateRoot)
    BY <1>10 DEF Joins
  <2>2. /\ P4(r) \in Seq(Byte) /\ P4(s) \in Seq(Byte)
        /\ r.preStateRoot \in Seq(Byte) /\ s.preStateRoot \in Seq(Byte)
        /\ Len(r.preStateRoot) = Len(s.preStateRoot)
    BY <1>3, <1>4, <1>1
  <2> HIDE DEF P1, P2, P3, P4, P5, P6, P7, P8, P9, P10
  <2> QED
    BY <2>1, <2>2, JoinSplits
<1>12. P3(r) = P3(s) /\ r.gasUsed = s.gasUsed
  <2>1. Joins(P4(r), P3(r), Uint64ToBytes(r.gasUsed)) /\ Joins(P4(r), P3(s), Uint64ToBytes(s.gasUsed))
    BY <1>11 DEF Joins
  <2>2. /\ P3(r) \in Seq(Byte) /\ P3(s) \in Seq(Byte)
        /\ Uint64ToBytes(r.gasUsed) \in Seq(Byte) /\ Uint64ToBytes(s.gasUsed) \in Seq(Byte)
        /\ Len(Uint64ToBytes(r.gasUsed)) = Len(Uint64ToBytes(s.gasUsed))
    BY <1>3, <1>4, WordsDiffer
  <2> HIDE DEF P1, P2, P3, P4, P5, P6, P7, P8, P9, P10
  <2> QED
    BY <2>1, <2>2, JoinSplits, <1>3, WordsDiffer
<1>13. P2(r) = P2(s) /\ r.sender = s.sender
  <2>1. Joins(P3(r), P2(r), r.sender) /\ Joins(P3(r), P2(s), s.sender)
    BY <1>12 DEF Joins
  <2>2. /\ P2(r) \in Seq(Byte) /\ P2(s) \in Seq(Byte)
        /\ r.sender \in Seq(Byte) /\ s.sender \in Seq(Byte)
        /\ Len(r.sender) = Len(s.sender)
    BY <1>3, <1>4, <1>2
  <2> HIDE DEF P1, P2, P3, P4, P5, P6, P7, P8, P9, P10
  <2> QED
    BY <2>1, <2>2, JoinSplits
<1>14. P1(r) = P1(s) /\ r.txIndex = s.txIndex
  <2>1. Joins(P2(r), P1(r), Uint64ToBytes(r.txIndex)) /\ Joins(P2(r), P1(s), Uint64ToBytes(s.txIndex))
    BY <1>13 DEF Joins
  <2>2. /\ P1(r) \in Seq(Byte) /\ P1(s) \in Seq(Byte)
        /\ Uint64ToBytes(r.txIndex) \in Seq(Byte) /\ Uint64ToBytes(s.txIndex) \in Seq(Byte)
        /\ Len(Uint64ToBytes(r.txIndex)) = Len(Uint64ToBytes(s.txIndex))
    BY <1>3, <1>4, WordsDiffer
  <2> HIDE DEF P1, P2, P3, P4, P5, P6, P7, P8, P9, P10
  <2> QED
    BY <2>1, <2>2, JoinSplits, <1>3, WordsDiffer
<1>15. r.txHash = s.txHash /\ r.blockNumber = s.blockNumber
  <2>1. Joins(P1(r), r.txHash, Uint64ToBytes(r.blockNumber)) /\ Joins(P1(r), s.txHash, Uint64ToBytes(s.blockNumber))
    BY <1>14 DEF Joins
  <2>2. /\ r.txHash \in Seq(Byte) /\ s.txHash \in Seq(Byte)
        /\ Uint64ToBytes(r.blockNumber) \in Seq(Byte) /\ Uint64ToBytes(s.blockNumber) \in Seq(Byte)
        /\ Len(Uint64ToBytes(r.blockNumber)) = Len(Uint64ToBytes(s.blockNumber))
    BY <1>3, <1>1, WordsDiffer
  <2> HIDE DEF P1, P2, P3, P4, P5, P6, P7, P8, P9, P10
  <2> QED
    BY <2>1, <2>2, JoinSplits, <1>3, WordsDiffer
<1> QED
  BY <1>6, <1>7, <1>8, <1>9, <1>10, <1>11, <1>12, <1>13, <1>14, <1>15 DEF ReceiptData

\* A receipt that is found valid under the hash of a genuine one is that one, for
\* hashes, addresses and numbers of any width.
THEOREM ReceiptsBind == HttpSpec => []ReceiptVerdictBinds
<1>1. HttpInit => VerdictInv
  BY DEF HttpInit, VerdictInv, NoAnswer
<1>2. VerdictInv => ReceiptVerdictBinds
  <2> SUFFICES ASSUME VerdictInv, NEW h \in Http, answer[h].kind = "receipt",
                      answer[h].valid, NEW r \in GenuineReceipt,
                      answer[h].receipt.receiptHash = ComputeReceiptHash(r)
               PROVE  HashedFields(answer[h].receipt) = r
    BY DEF ReceiptVerdictBinds
  <2>1. PICK a \in ReceiptReply : a = answer[h].receipt /\ ReceiptValid(a)
    BY DEF VerdictInv
  <2>2. ComputeReceiptHash(a) = ComputeReceiptHash(r)
    BY <2>1 DEF ReceiptValid
  <2>3. ComputeReceiptHash(HashedFields(a)) = ComputeReceiptHash(a)
    BY DEF ComputeReceiptHash, HashedFields
  <2>4. HashedFields(a) \in ReceiptData /\ r \in ReceiptData
    BY RpcAssumption
  <2> QED
    BY <2>1, <2>2, <2>3, <2>4, ReceiptHashDetermines
<1> QED
  BY <1>1, <1>2, NextVerdict, PTL DEF HttpSpec

=============================================================================
