---------------------------- MODULE MCSyncEngine ----------------------------
(***************************************************************************)
(* Instances of SyncEngine for TLC.  Blocks are told apart by their number *)
(* and hash: "a" blocks are the sequencer's, "b" blocks are announced by a *)
(* peer that disagrees with it.                                            *)
(***************************************************************************)
EXTENDS SyncEngine

B(n, h) == [number |-> n, hash |-> h]

MCBlock == {B(n, h) : n \in 0 .. MaxHead + 1, h \in {"", "a", "b"}}

MCZeroBlock == B(0, "")

MCChain == [n \in 1 .. MaxHead |-> B(n, "a")]

NoGossip == {}

\* Announcements: a repeated one, one that disagrees with the sequencer, one
\* ahead of the sequencer.
HonestAndForked == {B(1, "a"), B(2, "b"), B(MaxHead + 1, "b")}

\* ... and one whose payload leaves out the number.
WithZero == HonestAndForked \cup {MCZeroBlock}

=============================================================================
