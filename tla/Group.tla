------------------------------- MODULE Group -------------------------------
(***************************************************************************)
(* The prime-order group and its wire format: poprf-ristretto/src/group.rs *)
(* and the key types of poprf-ristretto/src/key.rs.                        *)
(*                                                                         *)
(* ristretto255 is a cyclic group of prime order generated by G, so every  *)
(* element is k*G for exactly one scalar k, and the model writes the       *)
(* element as that k.  The identity is 0, the generator is 1, and scalar   *)
(* multiplication and element addition are arithmetic modulo Order.        *)
(*                                                                         *)
(* A byte buffer that is handed to a parser is an integer: 0..Order-1 is   *)
(* the canonical encoding of that value, NonCanonical is any buffer of the *)
(* right length that encodes nothing, Truncated any buffer of the wrong    *)
(* length.                                                                 *)
(***************************************************************************)
EXTENDS Integers

CONSTANT Order          \* the order of the group, a prime

(* The order is a prime, stated as what the protocol needs of it: every    *)
(* non-zero residue has a multiplicative inverse.                          *)
ASSUME OrderAssumption == Order \in Nat /\ Order > 1

ASSUME InverseAssumption ==
  \A a \in 1..(Order - 1) : \E b \in 1..(Order - 1) : (a * b) % Order = 1

(***************************************************************************)
(* Results of fallible calls.                                              *)
(***************************************************************************)
Ok(v) == [ok |-> TRUE, val |-> v]
Err(e) == [ok |-> FALSE, err |-> e]

\* What a caller sees of a result that it does not use.
Outcome(res) == IF res.ok THEN "Ok" ELSE res.err

(***************************************************************************)
(* Scalars and elements.                                                   *)
(***************************************************************************)
Scalar == 0..(Order - 1)
Element == 0..(Order - 1)

identity == 0
generator == 1

scalar_add(a, b) == (a + b) % Order
scalar_sub(a, b) == (a - b) % Order
scalar_mul_scalar(a, b) == (a * b) % Order
scalar_mul(s, e) == (s * e) % Order
scalar_mul_gen(s) == scalar_mul(s, generator)
element_add(a, b) == (a + b) % Order

scalar_is_zero(s) == s = 0
is_identity(e) == e = identity

\* Scalar::invert: the inverse of 0 is 0 (x^(Order-2) in the library).
scalar_invert(s) ==
  IF s = 0 THEN 0
  ELSE CHOOSE b \in 1..(Order - 1) : (s * b) % Order = 1

\* random_scalar samples until the scalar is not zero.
RandomScalar == 1..(Order - 1)

(***************************************************************************)
(* Wire format.                                                            *)
(***************************************************************************)
NonCanonical == Order
Truncated == -1
Bytes == -1..Order           \* a slice, of any length
FixedBytes == 0..Order       \* a [u8; 32] argument: the length is right

deserialize_scalar(buf) ==
  IF buf \in {Truncated, NonCanonical} THEN Err("Deserialize") ELSE Ok(buf)

deserialize_element(buf) ==
  IF buf \in {Truncated, NonCanonical} THEN Err("Deserialize")
  ELSE IF is_identity(buf) THEN Err("InputValidation")
  ELSE Ok(buf)

(***************************************************************************)
(* Keys (key.rs).                                                          *)
(***************************************************************************)
SecretKey == RandomScalar
PublicKey == Element \ {identity}

\* Mutant: the zero key is not rejected.
secret_key_from_bytes_zero(buf) == deserialize_scalar(buf)

secret_key_from_bytes(buf) ==
  LET s == deserialize_scalar(buf)
  IN  IF ~s.ok THEN s
      ELSE IF scalar_is_zero(s.val) THEN Err("InputValidation")
      ELSE s

public_key_from_bytes(buf) == deserialize_element(buf)

public_key(sk) == scalar_mul_gen(sk)
=============================================================================
