--------------------------- MODULE AttestedChain ----------------------------
(***************************************************************************)
(* What the validator promises to the network: it follows one gap-free     *)
(* chain that it only ever extends, and it signs each height of that chain *)
(* at most once, for the block the chain holds there.                      *)
(***************************************************************************)
EXTENDS Naturals, Sequences

CONSTANTS
    Block,   \* blocks, with a number and a hash
    Digest   \* Digest[h]: the 32-byte hash that is signed for hash string h

VARIABLES
    chain,   \* the blocks followed, by number
    signed   \* the attestations broadcast, oldest first

avars == <<chain, signed>>

AInit ==
    /\ chain = <<>>
    /\ signed = <<>>

\* The chain grows by the block that follows its last one.
Extend(b) ==
    /\ b.number > 0
    /\ b.number \notin DOMAIN chain
    /\ b.number > 1 => b.number - 1 \in DOMAIN chain
    /\ chain' = [n \in DOMAIN chain \cup {b.number} |->
                    IF n = b.number THEN b ELSE chain[n]]
    /\ UNCHANGED signed

\* A height not signed before is signed.
Sign(n) ==
    /\ n \in DOMAIN chain
    /\ \A i \in 1 .. Len(signed) : signed[i].number # n
    /\ signed' = Append(signed, [number |-> n, hash |-> Digest[chain[n].hash]])
    /\ UNCHANGED chain

ANext ==
    \/ \E b \in Block : Extend(b)
    \/ \E n \in DOMAIN chain : Sign(n)

ASpec == AInit /\ [][ANext]_avars

=============================================================================
