---------------------------- MODULE MCRpcServer -----------------------------
(***************************************************************************)
(* An instance of RpcServer for TLC: the node of MCValidatorNode, and      *)
(* replies at and around the limits of the checks.                         *)
(***************************************************************************)
EXTENDS RpcServer, MCValidatorNode

MCGasData ==
    [gasLimit : {0, 14999999, 15000000, 60000000, 60000001},
     gasUsed : {15000000, 60000001},
     txCount : {10000, 10001}]

MCLaneStats ==
    {[fast |-> f, standard |-> 1, slow |-> 0, total |-> t, enabled |-> e] :
        f \in 0 .. 1, t \in 0 .. 2, e \in BOOLEAN}

\* Bytes have two values, a uint64 two bytes, hashes and addresses one byte.
MCGenuineReceipt ==
    {[txHash |-> <<1>>, blockNumber |-> b, txIndex |-> i, sender |-> <<0>>,
      gasUsed |-> 1, preStateRoot |-> <<0>>, postStateRoot |-> <<1>>, status |-> 1,
      inputHash |-> <<1>>, outputHash |-> <<0>>, logsHash |-> <<0>>] :
        b \in {1, 3}, i \in 0 .. 1}

\* The sequencer may report any fields with the hash of any genuine receipt.
MCReceiptReply ==
    {[f \in DOMAIN r \cup {"receiptHash", "verified"} |->
        CASE f = "receiptHash" -> ComputeReceiptHash(q)
          [] f = "verified" -> v
          [] OTHER -> r[f]] :
        r \in MCGenuineReceipt, q \in MCGenuineReceipt, v \in BOOLEAN}

=============================================================================
