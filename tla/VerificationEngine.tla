------------------------- MODULE VerificationEngine -------------------------
(***************************************************************************)
(* The state-root check of internal/verification/engine.go.                *)
(*                                                                         *)
(* VerifyBlock reads Engine.stateRoot, derives the root the block should   *)
(* lead to, compares it with the root the block claims and, when they      *)
(* agree, makes it the new Engine.stateRoot.  The field has no lock and is *)
(* used by the sync goroutines (through the onNewBlock callback) and by    *)
(* the HTTP handlers of inso_verifyBlock: a data race.  stateRoot is a     *)
(* [32]byte, copied in two 16-byte moves, so a read may combine the halves *)
(* of two roots and two writes may leave one half each.                    *)
(***************************************************************************)
EXTENDS Naturals

CONSTANTS
    Caller,    \* the goroutines that call VerifyBlock
    Block,     \* the blocks they verify
    ZeroBlock, \* the zero L2Block
    Root,      \* 32-byte roots
    Genesis,   \* the root NewEngine derives
    Torn,      \* a root put together from the halves of two others
    NoClaim,   \* the empty StateRoot string
    NextRoot   \* NextRoot[r][b]: computeExpectedStateRoot of b when stateRoot = r

ASSUME VerificationAssumption ==
    /\ \A b \in Block : b.number \in Nat /\ b.stateRoot \in Root \cup {NoClaim}
    /\ ZeroBlock \in Block
    /\ Genesis \in Root
    /\ Torn \in Root
    /\ NoClaim \notin Root
    /\ NextRoot \in [Root -> [Block -> Root]]

VARIABLES
    rootLo,    \* first half of Engine.stateRoot, named by the root it belongs to
    rootHi,    \* second half
    vpc,       \* control point of each caller
    vblk,      \* the block each caller verifies
    expected,  \* expectedRoot (until it is computed: the first half read)
    verified   \* history: the blocks VerifyBlock has returned Valid for, and the roots

vvars == <<rootLo, rootHi, vpc, vblk, expected, verified>>

VPC == {"idle", "readLo", "readHi", "check", "writeLo", "writeHi",
        "valid", "invalid"}

Join(lo, hi) == IF lo = hi THEN lo ELSE Torn

VInit ==
    /\ rootLo = Genesis
    /\ rootHi = Genesis
    /\ vpc = [t \in Caller |-> "idle"]
    /\ vblk = [t \in Caller |-> ZeroBlock]
    /\ expected = [t \in Caller |-> Genesis]
    /\ verified = {}

-----------------------------------------------------------------------------

NoZeroCheck(b) == FALSE \* mutation: block 0 goes through

RefusesFirst(b) ==      \* mutation: off by one, block 1 is refused as well
    b.number <= 1

IsBlockZero(b) == b.number = 0

\* VerifyBlock is called; block 0 is refused outright.
VerifyBlock(t, b) ==
    /\ vpc[t] = "idle"
    /\ vblk' = [vblk EXCEPT ![t] = b]
    /\ vpc' = [vpc EXCEPT ![t] = IF IsBlockZero(b) THEN "invalid" ELSE "readLo"]
    /\ UNCHANGED <<rootLo, rootHi, expected, verified>>

\* computeExpectedStateRoot copies stateRoot, half by half, ...
ReadLo(t) ==
    /\ vpc[t] = "readLo"
    /\ expected' = [expected EXCEPT ![t] = rootLo]
    /\ vpc' = [vpc EXCEPT ![t] = "readHi"]
    /\ UNCHANGED <<rootLo, rootHi, vblk, verified>>

RootRead(t) == Join(expected[t], rootHi)

\* ... and hashes it with the block.
ReadHi(t) ==
    /\ vpc[t] = "readHi"
    /\ expected' = [expected EXCEPT ![t] = NextRoot[RootRead(t)][vblk[t]]]
    /\ vpc' = [vpc EXCEPT ![t] = "check"]
    /\ UNCHANGED <<rootLo, rootHi, vblk, verified>>

NoRootCheck(t) == TRUE  \* mutation: the comparison is dropped

RootAgrees(t) ==
    vblk[t].stateRoot # NoClaim => vblk[t].stateRoot = expected[t]

\* The claimed root is compared with the expected one.
Compare(t) ==
    /\ vpc[t] = "check"
    /\ vpc' = [vpc EXCEPT ![t] = IF RootAgrees(t) THEN "writeLo" ELSE "invalid"]
    /\ UNCHANGED <<rootLo, rootHi, vblk, expected, verified>>

\* e.stateRoot = expectedRoot, half by half.
WriteLo(t) ==
    /\ vpc[t] = "writeLo"
    /\ rootLo' = expected[t]
    /\ vpc' = [vpc EXCEPT ![t] = "writeHi"]
    /\ UNCHANGED <<rootHi, vblk, expected, verified>>

WriteHi(t) ==
    /\ vpc[t] = "writeHi"
    /\ rootHi' = expected[t]
    /\ vpc' = [vpc EXCEPT ![t] = "valid"]
    /\ verified' = verified \cup {[block |-> vblk[t], root |-> expected[t]]}
    /\ UNCHANGED <<rootLo, vblk, expected>>

VerifyStep(t) ==
    \/ ReadLo(t)
    \/ ReadHi(t)
    \/ Compare(t)
    \/ WriteLo(t)
    \/ WriteHi(t)

\* The caller takes the result; its locals go out of scope.
TakeResult(t) ==
    /\ vpc[t] \in {"valid", "invalid"}
    /\ vpc' = [vpc EXCEPT ![t] = "idle"]
    /\ vblk' = [vblk EXCEPT ![t] = ZeroBlock]
    /\ expected' = [expected EXCEPT ![t] = Genesis]
    /\ UNCHANGED <<rootLo, rootHi, verified>>

\* Every caller verifies any block at any time, as HTTP clients can.
VNext ==
    \E t \in Caller :
        \/ \E b \in Block : VerifyBlock(t, b)
        \/ VerifyStep(t)
        \/ TakeResult(t)

VSpec == VInit /\ [][VNext]_vvars

-----------------------------------------------------------------------------
(***************************************************************************)
(* Properties.                                                             *)
(***************************************************************************)

\* Roots and control points are well formed, and block 0 never gets as far as
\* the derivation of a root.
VTypeOK ==
    /\ rootLo \in Root
    /\ rootHi \in Root
    /\ vpc \in [Caller -> VPC]
    /\ vblk \in [Caller -> Block]
    /\ expected \in [Caller -> Root]
    /\ verified \subseteq [block : Block, root : Root]
    /\ \A t \in Caller : vpc[t] \notin {"idle", "invalid"} => vblk[t].number # 0

\* The roots stateRoot has been given so far: the genesis root and those of the
\* blocks found valid.
Reached == {Genesis} \cup {e.root : e \in verified}

(***************************************************************************)
(* Nobody claims a root that is derived from a value put together of the   *)
(* halves of two others.  Blocks may claim any other root, with any        *)
(* number, or none.                                                        *)
(***************************************************************************)
NoClaimOnTorn ==
    \A b \in Block : b.stateRoot # NoClaim => NextRoot[Torn][b] # b.stateRoot

(***************************************************************************)
(* What the race cannot do: a block that claims a root is found valid only *)
(* if the claim is derived from a root that stateRoot was given before, as *)
(* a whole, by NewEngine or for a block already found valid, whatever the  *)
(* interleaving of the unlocked reads and writes and whatever unclaimed    *)
(* blocks wrote meanwhile.  (Nothing ties the block's number to that root: *)
(* computeExpectedStateRoot hashes any number with any root.)              *)
(***************************************************************************)
ValidClaimsExtendReached ==
    [][\A e \in verified' \ verified :
          e.block.stateRoot # NoClaim =>
              \E r \in Reached : NextRoot[r][e.block] = e.block.stateRoot]_vvars

=============================================================================
