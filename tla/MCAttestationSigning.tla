------------------------ MODULE MCAttestationSigning ------------------------
(***************************************************************************)
(* An instance of AttestationSigning, ConsensusEngine and ReputationManager *)
(* for TLC: bytes with two values, hashes of two bytes, one of them with   *)
(* leading zeros, and two addresses of one byte.                           *)
(***************************************************************************)
EXTENDS AttestationSigning

MCLocal == <<0>>

MCValidator == {MCLocal, <<1>>}

MCHash == {<<0, 0>>, <<1, 0>>}

=============================================================================
