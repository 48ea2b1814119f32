--------------------------- MODULE FeatureChecks ----------------------------
(***************************************************************************)
(* The stateless checks of internal/verification/features.go: lanes,       *)
(* compute receipts and adaptive block sizes.  A field that the code reads *)
(* as a hex string is the array of bytes it converts to.                   *)
(***************************************************************************)
EXTENDS Bytes

CONSTANTS
    WordLen,   \* bytes of a uint64 (8 in the code)
    HashLen,   \* bytes of a hash (32)
    AddrLen    \* bytes of an address (20)

ASSUME WidthAssumption == WordLen \in Nat /\ HashLen \in Nat /\ AddrLen \in Nat

-----------------------------------------------------------------------------

\* The LaneStats an error reply, a null result or an empty one decodes to.
NoLanes == [fast |-> 0, standard |-> 0, slow |-> 0, total |-> 0, enabled |-> FALSE]

\* VerifyLaneAllocation, once the statistics are there.
LaneValid(stats) ==
    \/ ~stats.enabled
    \/ stats.total <= 0
    \/ stats.total = stats.fast + stats.standard + stats.slow

-----------------------------------------------------------------------------

Unpadded(v) == BigBytes(v)   \* mutation: the bytes are not padded

Uint64ToBytes(v) ==
    LET b == BigBytes(v)
    IN [i \in 1 .. WordLen - Len(b) |-> 0] \o b

\* The hashed fields of a receipt; HexToHash and HexToAddress give every string the
\* width of a hash or an address.
ReceiptData ==
    [txHash : [1 .. HashLen -> Byte],
     blockNumber : 0 .. Power[WordLen] - 1,
     txIndex : 0 .. Power[WordLen] - 1,
     sender : [1 .. AddrLen -> Byte],
     gasUsed : 0 .. Power[WordLen] - 1,
     preStateRoot : [1 .. HashLen -> Byte],
     postStateRoot : [1 .. HashLen -> Byte],
     status : 0 .. Power[WordLen] - 1,
     inputHash : [1 .. HashLen -> Byte],
     outputHash : [1 .. HashLen -> Byte],
     logsHash : [1 .. HashLen -> Byte]]

\* A receipt the sequencer reports, without its hash and its verdict.
HashedFields(r) ==
    [txHash |-> r.txHash, blockNumber |-> r.blockNumber, txIndex |-> r.txIndex,
     sender |-> r.sender, gasUsed |-> r.gasUsed, preStateRoot |-> r.preStateRoot,
     postStateRoot |-> r.postStateRoot, status |-> r.status,
     inputHash |-> r.inputHash, outputHash |-> r.outputHash, logsHash |-> r.logsHash]

\* The data whose SHA-256 digest is the receipt hash; it stands for the digest.
ComputeReceiptHash(r) ==
    r.txHash \o Uint64ToBytes(r.blockNumber) \o Uint64ToBytes(r.txIndex)
        \o r.sender \o Uint64ToBytes(r.gasUsed)
        \o r.preStateRoot \o r.postStateRoot \o Uint64ToBytes(r.status)
        \o r.inputHash \o r.outputHash \o r.logsHash

\* VerifyComputeReceipt, once a receipt is there.
ReceiptValid(r) == ComputeReceiptHash(r) = r.receiptHash /\ r.verified

-----------------------------------------------------------------------------

DefaultAdaptiveBounds ==
    [minGasLimit |-> 15000000, maxGasLimit |-> 60000000,
     minMaxTx |-> 1000, maxMaxTx |-> 10000]

UsageValid(block) == block.gasLimit > 0 => block.gasUsed <= block.gasLimit

\* VerifyAdaptiveBlock: the two flags, and the verdict.  A gas limit or a count
\* of 0 is not reported; minMaxTx is never looked at.
GasLimitValid(block, bounds) ==
    /\ block.gasLimit > 0 => block.gasLimit \in bounds.minGasLimit .. bounds.maxGasLimit
    /\ UsageValid(block)

TxCountValid(block, bounds) == block.txCount > 0 => block.txCount <= bounds.maxMaxTx

AdaptiveValid(block, bounds) == GasLimitValid(block, bounds) /\ TxCountValid(block, bounds)

=============================================================================
