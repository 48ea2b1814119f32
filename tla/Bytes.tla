------------------------------- MODULE Bytes --------------------------------
(***************************************************************************)
(* Numbers as arrays of bytes, the way the code packs them before hashing. *)
(***************************************************************************)
EXTENDS Naturals, Sequences

CONSTANT ByteBase   \* values of a byte (256 in the code)

ASSUME ByteAssumption == ByteBase \in Nat \ {0, 1}

Byte == 0 .. ByteBase - 1

\* Powers of the base.
Power[k \in Nat] == IF k = 0 THEN 1 ELSE ByteBase * Power[k - 1]

\* The number of bytes of a number, without leading zeros: none for 0.
ByteLen(n) ==
    CHOOSE k \in 0 .. n : n < Power[k] /\ (k > 0 => Power[k - 1] <= n)

\* The bytes of a big.Int: big-endian, without leading zeros.
BigBytes(n) ==
    [i \in 1 .. ByteLen(n) |-> (n \div Power[ByteLen(n) - i]) % ByteBase]

=============================================================================
