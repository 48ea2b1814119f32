------------------------- MODULE AttestationSigning -------------------------
(***************************************************************************)
(* Signatures of attestations (attestationHash, signAttestation and        *)
(* VerifyAttestation of internal/consensus/engine.go).  Hashes and         *)
(* addresses are arrays of bytes here, as in the code.                     *)
(***************************************************************************)
EXTENDS ConsensusEngine, Bytes

CONSTANTS
    HashLen,    \* bytes of a hash (32)
    AddrLen     \* bytes of an address (20)

ASSUME SigningAssumption ==
    /\ HashLen \in Nat
    /\ AddrLen \in Nat \ {0}
    /\ Number \subseteq Nat
    /\ Hash \subseteq [1 .. HashLen -> Byte]
    /\ Validator \subseteq [1 .. AddrLen -> Byte]

\* mutation: the hash goes through a big.Int and loses its leading zeros
TrimmedHash(h) ==
    LET zeros == {k \in 0 .. HashLen : \A i \in 1 .. k : h[i] = 0}
        lead == CHOOSE k \in zeros : \A z \in zeros : z <= k
    IN SubSeq(h, lead + 1, HashLen)

HashBytes(h) == h

\* The data whose Keccak digest is signed; a digest stands for its data.
AttestationHash(att) == BigBytes(att.number) \o HashBytes(att.hash) \o att.validator

NilSignature == [signer |-> <<>>, digest |-> <<>>]

\* crypto.Sign by the owner of an address, or nil when it fails.
SignAttestation(signer, att) ==
    IF att.signed THEN [signer |-> signer, digest |-> AttestationHash(att)]
                  ELSE NilSignature

\* External: SigToPub gives the signer for the digest that was signed, and a key
\* of nobody for another one.
Recovered(digest, sig) == IF sig.digest = digest THEN sig.signer ELSE <<>>

\* VerifyAttestation returns no error for an attestation and a signature.
VerifyAttestation(att, sig) ==
    /\ sig # NilSignature
    /\ Recovered(AttestationHash(att), sig) = att.validator
    /\ att.validator \in DOMAIN validators

\* A signature vouches for one attestation only: if VerifyAttestation takes a
\* broadcast signature for any number, hash and validator, they are those this
\* node signed, the signature was really made, and the node is a registered
\* validator.
SignatureBindsAttestation ==
    \A i \in 1 .. Len(broadcasts), h \in Hash, v \in Validator,
       n \in 0 .. Power[HashLen + AddrLen] :
        LET att == [number |-> n, hash |-> h, validator |-> v, signed |-> TRUE]
        IN VerifyAttestation(att, SignAttestation(Local, broadcasts[i]))
           => att = broadcasts[i] /\ Local \in DOMAIN validators

=============================================================================
