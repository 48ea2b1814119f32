------------------------ MODULE MCVerificationEngine ------------------------
(***************************************************************************)
(* An instance of VerificationEngine for TLC.  A root is the sequence of   *)
(* what was hashed into it, one <<number, body>> per block with the body   *)
(* standing for Timestamp and GasUsed; every root that leads to no claim   *)
(* is Torn.  Any number is hashed with any root.                           *)
(***************************************************************************)
EXTENDS VerificationEngine, Sequences, TLC

Hashed(n, body) == <<n, body>>

MCGenesis == <<>>

\* Blocks 1 and 2 of a chain, a block 2 made directly on the genesis root, and a
\* block 3 on top of a block 2 that claims nothing.
ClaimedRoot ==
    LET one == <<Hashed(1, "a")>>
    IN {one,
        Append(one, Hashed(2, "a")),
        <<Hashed(2, "b")>>,
        <<Hashed(2, "c"), Hashed(3, "a")>>}

MCRoot == UNION {{SubSeq(s, 1, n) : n \in 0 .. Len(s)} : s \in ClaimedRoot} \cup {Torn}

\* The last block of every claimed root, and two blocks that claim none.
MCZeroBlock == [number |-> 0, body |-> "", stateRoot |-> NoClaim]

MCBlock ==
    {[number |-> s[Len(s)][1], body |-> s[Len(s)][2], stateRoot |-> s] : s \in ClaimedRoot}
        \cup {MCZeroBlock, [number |-> 2, body |-> "c", stateRoot |-> NoClaim]}

MCNextRoot ==
    [r \in MCRoot |-> [b \in MCBlock |->
        LET s == IF r = Torn THEN <<Torn>> ELSE Append(r, Hashed(b.number, b.body))
        IN IF s \in MCRoot THEN s ELSE Torn]]

ASSUME NoClaimOnTorn

Symmetry == Permutations(Caller)

=============================================================================
