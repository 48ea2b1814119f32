------------------------- MODULE VerificationProofs -------------------------
(***************************************************************************)
(* Proofs about the unlocked state root of VerificationEngine, for every   *)
(* number of callers and every set of blocks.                              *)
(***************************************************************************)
EXTENDS VerificationEngine, TLAPS

-----------------------------------------------------------------------------
(***************************************************************************)
(* Type correctness.                                                       *)
(***************************************************************************)

\* A new engine has the types.
LEMMA InitVType == VInit => VTypeOK
BY VerificationAssumption DEF VInit, VTypeOK, VPC

\* Every step of every caller keeps the types.
LEMMA NextVType == VTypeOK /\ [VNext]_vvars => VTypeOK'
<1> SUFFICES ASSUME VTypeOK, [VNext]_vvars PROVE VTypeOK'
  OBVIOUS
<1> USE VerificationAssumption DEF VTypeOK, VPC
<1>1. ASSUME NEW t \in Caller, NEW b \in Block, VerifyBlock(t, b) PROVE VTypeOK'
  BY <1>1 DEF VerifyBlock, IsBlockZero
<1>2. ASSUME NEW t \in Caller, VerifyStep(t) PROVE VTypeOK'
  <2>1. CASE ReadLo(t)
    BY <2>1 DEF ReadLo
  <2>2. CASE ReadHi(t)
    BY <2>2 DEF ReadHi, RootRead, Join
  <2>3. CASE Compare(t)
    BY <2>3 DEF Compare
  <2>4. CASE WriteLo(t)
    BY <2>4 DEF WriteLo
  <2>5. CASE WriteHi(t)
    <3>1. [block |-> vblk[t], root |-> expected[t]] \in [block : Block, root : Root]
      OBVIOUS
    <3> QED
      BY <2>5, <3>1 DEF WriteHi
  <2> QED
    BY <1>2, <2>1, <2>2, <2>3, <2>4, <2>5 DEF VerifyStep
<1>3. ASSUME NEW t \in Caller, TakeResult(t) PROVE VTypeOK'
  BY <1>3 DEF TakeResult
<1>4. CASE UNCHANGED vvars
  BY <1>4 DEF vvars
<1> QED
  BY <1>1, <1>2, <1>3, <1>4 DEF VNext

\* The verification engine keeps its types: block 0 never gets as far as the
\* derivation of a root, and a torn read is still a root.
THEOREM VTypeCorrect == VSpec => []VTypeOK
BY InitVType, NextVType, PTL DEF VSpec

-----------------------------------------------------------------------------
(***************************************************************************)
(* Claims are derived from reached roots.                                  *)
(***************************************************************************)

\* b claims no root, or one it leads to from a reached root.
Justified(b) ==
    b.stateRoot # NoClaim => \E r \in Reached : NextRoot[r][b] = b.stateRoot

(***************************************************************************)
(* The inductive invariant.  The second half of stateRoot always belongs   *)
(* to a reached root, since the caller that writes it has just finished; a *)
(* root read with equal halves is therefore a reached one, and a root read *)
(* in two parts is Torn, from which no claim is derived.                   *)
(***************************************************************************)
OrderInv ==
    /\ rootHi \in Reached
    /\ \A e \in verified : Justified(e.block)
    /\ \A t \in Caller :
          /\ vpc[t] = "check" =>
                \E r \in Reached \cup {Torn} : expected[t] = NextRoot[r][vblk[t]]
          /\ vpc[t] \in {"writeLo", "writeHi"} => Justified(vblk[t])

\* Reached roots stay reached, and justified blocks justified.
LEMMA ReachedGrows ==
    ASSUME verified \subseteq verified'
    PROVE  Reached \subseteq Reached' /\ \A b : Justified(b) => Justified(b)'
BY DEF Reached, Justified

\* A new engine holds the genesis root.
LEMMA InitOrder == VInit => OrderInv
BY DEF VInit, OrderInv, Reached

\* OrderInv is inductive.
LEMMA NextOrder ==
    ASSUME NoClaimOnTorn
    PROVE  VTypeOK /\ OrderInv /\ [VNext]_vvars => OrderInv'
<1> SUFFICES ASSUME VTypeOK, OrderInv, [VNext]_vvars PROVE OrderInv'
  OBVIOUS
<1>0. /\ vpc \in [Caller -> VPC]
      /\ vblk \in [Caller -> Block]
      /\ expected \in [Caller -> Root]
  BY DEF VTypeOK
<1>1. ASSUME NEW t \in Caller, NEW b \in Block, VerifyBlock(t, b) PROVE OrderInv'
  BY <1>0, <1>1 DEF VerifyBlock, OrderInv, Reached, Justified
<1>2. ASSUME NEW t \in Caller, ReadLo(t) PROVE OrderInv'
  BY <1>0, <1>2 DEF ReadLo, OrderInv, Reached, Justified
<1>3. ASSUME NEW t \in Caller, ReadHi(t) PROVE OrderInv'
  <2>1. RootRead(t) \in Reached \cup {Torn}
    BY DEF RootRead, Join, OrderInv
  <2> QED
    BY <1>0, <1>3, <2>1 DEF ReadHi, OrderInv, Reached, Justified
<1>4. ASSUME NEW t \in Caller, Compare(t) PROVE OrderInv'
  <2>1. PICK r \in Reached \cup {Torn} : expected[t] = NextRoot[r][vblk[t]]
    BY <1>4 DEF Compare, OrderInv
  <2>2. ASSUME RootAgrees(t) PROVE Justified(vblk[t])
    <3>1. SUFFICES ASSUME vblk[t].stateRoot # NoClaim
                   PROVE  \E q \in Reached : NextRoot[q][vblk[t]] = vblk[t].stateRoot
      BY DEF Justified
    <3>2. NextRoot[r][vblk[t]] = vblk[t].stateRoot
      BY <2>1, <2>2, <3>1 DEF RootAgrees
    <3>3. r # Torn
      BY <3>1, <3>2, <1>0 DEF NoClaimOnTorn
    <3> QED
      BY <2>1, <3>2, <3>3
  <2> QED
    BY <1>0, <1>4, <2>2 DEF Compare, OrderInv, Reached, Justified
<1>5. ASSUME NEW t \in Caller, WriteLo(t) PROVE OrderInv'
  BY <1>0, <1>5 DEF WriteLo, OrderInv, Reached, Justified
<1>6. ASSUME NEW t \in Caller, WriteHi(t) PROVE OrderInv'
  <2> DEFINE e == [block |-> vblk[t], root |-> expected[t]]
  <2>1. /\ verified' = verified \cup {e}
        /\ rootHi' = expected[t]
        /\ UNCHANGED <<vblk, expected>>
        /\ vpc' = [vpc EXCEPT ![t] = "valid"]
    BY <1>6 DEF WriteHi
  <2>2. e.root = expected[t] /\ e.block = vblk[t]
    OBVIOUS
  <2> HIDE DEF e
  <2>3. Reached \subseteq Reached' /\ \A c : Justified(c) => Justified(c)'
    BY <2>1, ReachedGrows
  <2>4. rootHi' \in Reached'
    BY <2>1, <2>2 DEF Reached
  <2>5. ASSUME NEW u \in Caller, vpc'[u] = "check"
        PROVE  \E r \in Reached' \cup {Torn} : expected'[u] = NextRoot[r][vblk'[u]]
    BY <2>1, <2>3, <2>5, <1>0 DEF OrderInv
  <2>6. ASSUME NEW u \in Caller, vpc'[u] \in {"writeLo", "writeHi"}
        PROVE  Justified(vblk[u])'
    <3>1. Justified(vblk[u])
      BY <2>1, <2>6, <1>0 DEF OrderInv
    <3> QED
      BY <3>1, <2>1, <2>3 DEF Justified
  <2>7. ASSUME NEW d \in verified' PROVE Justified(d.block)'
    <3>1. Justified(d.block)
      BY <1>6, <2>1, <2>2 DEF WriteHi, OrderInv
    <3>2. d' = d
      OBVIOUS
    <3> QED
      BY <2>3, <3>1, <3>2 DEF Justified
  <2> QED
    BY <2>4, <2>5, <2>6, <2>7 DEF OrderInv
<1>7. ASSUME NEW t \in Caller, TakeResult(t) PROVE OrderInv'
  BY <1>0, <1>7 DEF TakeResult, OrderInv, Reached, Justified
<1>8. CASE UNCHANGED vvars
  BY <1>8 DEF vvars, OrderInv, Reached, Justified
<1> QED
  BY <1>1, <1>2, <1>3, <1>4, <1>5, <1>6, <1>7, <1>8 DEF VNext, VerifyStep

\* The only step that finds a block valid has justified it first.
LEMMA StepJustified ==
    ASSUME OrderInv, [VNext]_vvars, NEW e \in verified' \ verified
    PROVE  Justified(e.block)
<1>1. PICK t \in Caller : WriteHi(t)
  BY DEF VNext, VerifyStep, VerifyBlock, ReadLo, ReadHi, Compare, WriteLo, TakeResult, vvars
<1>2. e.block = vblk[t] /\ vpc[t] = "writeHi"
  BY <1>1 DEF WriteHi
<1> QED
  BY <1>2 DEF OrderInv

\* When nobody claims a root derived from two halves, a block that claims a root is
\* found valid only on top of a root stateRoot was given before as a whole, however
\* many callers race on stateRoot and however many of their blocks claim nothing.
THEOREM ClaimsSurviveRace ==
    ASSUME NoClaimOnTorn
    PROVE  VSpec => ValidClaimsExtendReached
<1>1. VTypeOK /\ OrderInv /\ [VNext]_vvars => OrderInv'
  BY NextOrder
<1>2. VSpec => [](VTypeOK /\ OrderInv)
  BY <1>1, InitOrder, VTypeCorrect, PTL DEF VSpec
<1>3. OrderInv /\ [VNext]_vvars =>
          [\A e \in verified' \ verified :
              e.block.stateRoot # NoClaim =>
                  \E r \in Reached : NextRoot[r][e.block] = e.block.stateRoot]_vvars
  BY StepJustified DEF Justified
<1> QED
  BY <1>2, <1>3, PTL DEF VSpec, ValidClaimsExtendReached

=============================================================================
