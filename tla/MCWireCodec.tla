----------------------------- MODULE MCWireCodec -----------------------------
(***************************************************************************)
(* WireCodec with encodings to check it with: a scalar is a little-endian  *)
(* number, as in the library, an element a number that is scrambled.       *)
(***************************************************************************)
EXTENDS WireCodec

LittleEndian(n) == [p \in 1..PartLen |-> (n \div ByteBase^(p - 1)) % ByteBase]

MCEncodeScalar == [s \in Scalar |-> LittleEndian(s)]
MCEncodeElement == [e \in Element |-> LittleEndian((5 * e) % ByteBase^PartLen)]
=============================================================================
