----------------------------- MODULE RpcServer ------------------------------
(***************************************************************************)
(* The node with its HTTP surface (internal/rpc/server.go).  A handler     *)
(* goroutine serves one request at a time.  inso_verifyBlock, the one      *)
(* method that changes the node, is VerifyRequest of ValidatorNode; here   *)
(* are the methods that read the node or ask the sequencer: the status     *)
(* (inso_validatorStatus, inso_getSyncStatus, /health and /ready, which    *)
(* all call IsSynced first), and the lane, receipt and adaptive checks.    *)
(*                                                                         *)
(* Gas fields are not part of the node's block records: the fields of a    *)
(* block are any member of GasData.                                        *)
(***************************************************************************)
EXTENDS ValidatorNode, FeatureChecks

CONSTANTS
    GasData,        \* gas limits, gas used and transaction counts of blocks
    LaneStats,      \* statistics the sequencer can report
    GenuineReceipt, \* receipts of computations that took place
    ReceiptReply    \* receipts the sequencer can report

\* The fields of a receipt have the widths the code converts them to.
ASSUME RpcAssumption ==
    /\ GenuineReceipt \subseteq ReceiptData
    /\ \A r \in ReceiptReply : HashedFields(r) \in ReceiptData

VARIABLES
    hpc,     \* control point of each handler
    remote,  \* the head that IsSynced was told
    synced,  \* what IsSynced answered
    answer   \* the answer to the request it is serving

httpVars == <<hpc, remote, synced, answer>>

NoAnswer == [kind |-> "none"]

HttpInit ==
    /\ Init
    /\ hpc = [h \in Http |-> "idle"]
    /\ remote = [h \in Http |-> 0]
    /\ synced = [h \in Http |-> FALSE]
    /\ answer = [h \in Http |-> NoAnswer]

Step(h, from, to) == hpc[h] = from /\ hpc' = [hpc EXCEPT ![h] = to]

\* The result of the request the handler is serving.
Respond(h, a) == answer' = [answer EXCEPT ![h] = a]

-----------------------------------------------------------------------------
(***************************************************************************)
(* Requests and their steps.                                               *)
(***************************************************************************)

\* A request for the status, the lanes or a receipt comes in.
HttpRequest(h) ==
    /\ \E method \in {"probe", "lane", "receipt"} : Step(h, "idle", method)
    /\ UNCHANGED <<remote, synced, answer>>

\* IsSynced asks the sequencer for its head; null reads as 0.
StatusProbe(h) ==
    /\ Step(h, "probe", "compare")
    /\ \E n \in {head} \cup (IF NullReplies THEN {0} ELSE {}) :
          remote' = [remote EXCEPT ![h] = n]
    /\ UNCHANGED <<synced, answer>>

\* IsSynced gets no reply and answers false.
StatusProbeFails(h) ==
    /\ Step(h, "probe", "height")
    /\ synced' = [synced EXCEPT ![h] = FALSE]
    /\ UNCHANGED <<remote, answer>>

OneBehind(h) == latestBlock + 1 >= remote[h]   \* mutation: off by one

\* IsSynced compares the head with LatestBlock().
CaughtUp(h) == latestBlock >= remote[h]

StatusCompare(h) ==
    /\ Step(h, "compare", "height")
    /\ synced' = [synced EXCEPT ![h] = CaughtUp(h)]
    /\ UNCHANGED <<remote, answer>>

\* What /ready answers with: the peers do not count.
StatusCode(h) == IF synced[h] THEN 200 ELSE 503

(***************************************************************************)
(* The height is read after that ("remote" is not part of the answer), and *)
(* then, for the counts in the answer, ValidatorCount and PeerCount wait   *)
(* for the consensus mutex and for n.mu.  How long they wait is the        *)
(* subject of BroadcastEnds of P2PNetwork; here a handler may wait for     *)
(* ever at any step, as it is given no fairness.                           *)
(***************************************************************************)
StatusAnswer(h) ==
    /\ Step(h, "height", "encode")
    /\ Respond(h, [kind |-> "status", synced |-> synced[h], code |-> StatusCode(h),
                   latestBlock |-> latestBlock, remote |-> remote[h]])
    /\ remote' = [remote EXCEPT ![h] = 0]
    /\ synced' = [synced EXCEPT ![h] = FALSE]

\* inso_getLaneVerification: without a reply nothing is found valid.
LaneAnswer(h) ==
    /\ Step(h, "lane", "encode")
    /\ \/ Respond(h, [kind |-> "failed", valid |-> FALSE])
       \/ \E stats \in LaneStats \cup {NoLanes} :
             Respond(h, [kind |-> "lane", stats |-> stats, valid |-> LaneValid(stats)])
    /\ UNCHANGED <<remote, synced>>

\* inso_getReceiptVerification: no reply, no receipt, or one that is checked.
ReceiptAnswer(h) ==
    /\ Step(h, "receipt", "encode")
    /\ \/ Respond(h, [kind |-> "failed", valid |-> FALSE])
       \/ \E r \in ReceiptReply :
             Respond(h, [kind |-> "receipt", receipt |-> r, valid |-> ReceiptValid(r)])
    /\ UNCHANGED <<remote, synced>>

\* inso_getAdaptiveVerification: the stored block against the default bounds, or
\* "block not found".
AdaptiveRequest(h) ==
    /\ Step(h, "idle", "encode")
    /\ \E n \in {b.number : b \in Block} :
          \/ /\ n \in DOMAIN blocks
             /\ \E gas \in GasData :
                   Respond(h, [kind |-> "adaptive", gas |-> gas,
                               valid |-> AdaptiveValid(gas, DefaultAdaptiveBounds)])
          \/ /\ n \notin DOMAIN blocks
             /\ Respond(h, [kind |-> "failed", valid |-> FALSE])
    /\ UNCHANGED <<remote, synced>>

\* The answer is encoded and sent.
Encode(h) ==
    /\ Step(h, "encode", "idle")
    /\ Respond(h, NoAnswer)
    /\ UNCHANGED <<remote, synced>>

\* The steps of a handler that is serving a request.
Handle(h) ==
    \/ StatusProbe(h)
    \/ StatusProbeFails(h)
    \/ StatusCompare(h)
    \/ StatusAnswer(h)
    \/ LaneAnswer(h)
    \/ ReceiptAnswer(h)
    \/ Encode(h)

HttpNext ==
    \/ Next /\ UNCHANGED httpVars
    \/ /\ \E h \in Http : HttpRequest(h) \/ AdaptiveRequest(h) \/ Handle(h)
       /\ UNCHANGED vars

\* Fairness: that of the node.  Nobody has to send a request, and a handler may wait
\* for the locks of the other engines.
HttpSpec ==
    /\ HttpInit
    /\ [][HttpNext]_<<vars, httpVars>>
    /\ Fairness

-----------------------------------------------------------------------------
(***************************************************************************)
(* Properties.                                                             *)
(***************************************************************************)

\* A status that says "synced", or ready, comes with a height that is not below the head of the
\* sequencer at the time of the question, although flag and height are read one
\* after the other while the sync engine moves on.
SyncedAnswerIsSound ==
    \A h \in Http :
        answer[h].kind = "status" /\ (answer[h].synced \/ answer[h].code = 200)
        => answer[h].latestBlock >= answer[h].remote

\* "independently recomputes the receipt hash to ensure data integrity": a receipt
\* found valid under the hash of a genuine one has all the fields of that one.
ReceiptVerdictBinds ==
    \A h \in Http :
        answer[h].kind = "receipt" /\ answer[h].valid
        => \A r \in GenuineReceipt :
              answer[h].receipt.receiptHash = ComputeReceiptHash(r)
              => HashedFields(answer[h].receipt) = r

=============================================================================
