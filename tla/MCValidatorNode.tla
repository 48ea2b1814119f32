-------------------------- MODULE MCValidatorNode ---------------------------
(***************************************************************************)
(* Instances of ValidatorNode for TLC.  What a block feeds into the state  *)
(* root is its number and its body, which stands for Timestamp and         *)
(* GasUsed; a root is the sequence of what was fed into it, and every root *)
(* that leads to no claim is Torn.  The sequencer's chain has bodies "a".  *)
(***************************************************************************)
EXTENDS ValidatorNode

MCGenesis == <<>>

\* The root of the sequencer's chain up to n, and that of a fork at n.
Prefix(n) == [i \in 1 .. n |-> <<i, "a">>]

Forked(n) == [Prefix(n) EXCEPT ![n] = <<n, "b">>]

\* A root made directly on the genesis root for a block 2.
Skipping == <<<<2, "b">>>>

MCRoot == {Prefix(n) : n \in 0 .. MaxHead} \cup {Forked(2), Skipping, Torn}

B(n, body, h, r) == [number |-> n, body |-> body, hash |-> h, stateRoot |-> r]

MCZeroBlock == B(0, "", <<>>, NoClaim)

MCChain == [n \in 1 .. MaxHead |-> B(n, "a", <<"chain", n>>, Prefix(n))]

\* What peers announce: nothing; the sequencer's blocks, or these and a fork; or a
\* block 1 with a malformed hash that claims no root and a block 2 that claims a
\* root made on the genesis root.
Nothing == {}

Honest == {MCChain[n] : n \in 1 .. MaxHead}

Fork == {B(2, "b", <<"fork">>, Forked(2))}

Faulty == {B(1, "b", <<"junk">>, NoClaim),
           B(2, "b", <<"skipping">>, Skipping)}

HonestOrFork == Honest \cup Fork

MCBlock == HonestOrFork \cup Faulty \cup {MCZeroBlock}

\* Any number is hashed with any root.
MCNextRoot ==
    [r \in MCRoot |-> [b \in MCBlock |->
        LET s == IF r = Torn THEN <<Torn>> ELSE Append(r, <<b.number, b.body>>)
        IN IF s \in MCRoot THEN s ELSE Torn]]

\* A hash string that is no hex number converts to the zero hash.
MCHexToHash ==
    [h \in {b.hash : b \in MCBlock} |-> IF h \in {<<>>, <<"junk">>} THEN <<"zero">> ELSE h]

ASSUME Ver!NoClaimOnTorn

=============================================================================
