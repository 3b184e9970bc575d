---- MODULE WireCodec ----
(***************************************************************************)
(* Wire types as bytes and as serde documents:                             *)
(* poprf-ristretto/src/serde_util.rs and the serde_impls of key.rs,        *)
(* dleq.rs and poprf.rs, over the parsers of module Group.                 *)
(*                                                                         *)
(* A value is passed on from one process to the next, each time in a       *)
(* format of the sender's choice, human-readable or binary.  Documents may *)
(* be damaged or rewritten on their way.                                   *)
(*                                                                         *)
(* A byte has two hex digits, a scalar or an element PartLen bytes; both   *)
(* are scaled down.  What bytes the group library encodes a scalar or an   *)
(* element in is left open, but that no two share one.  Characters are     *)
(* their codes.                                                            *)
(***************************************************************************)
EXTENDS Group, Sequences

CONSTANTS
  HexBase,        \* 16 in the code
  Ten,            \* 10 in the code: the digits before the letters
  PartLen,        \* 32 in the code
  EncodeScalar,   \* the canonical encodings, of the group library
  EncodeElement,
  MaxDamage,      \* bound: how often a value's documents are tampered with
  Nothing

ByteBase == HexBase * HexBase
Byte == 0..(ByteBase - 1)
PartBytes == [1..PartLen -> Byte]

\* The digits and the two alphabets are ranges of codes apart from each other.
ASSUME DigitAssumption ==
  /\ HexBase \in Nat /\ Ten \in 1..(HexBase - 1)
  /\ Ten <= 17 /\ HexBase - Ten <= 26

ASSUME EncodingAssumption ==
  /\ PartLen \in Nat \ {0}
  /\ EncodeScalar \in [Scalar -> PartBytes]
  /\ EncodeElement \in [Element -> PartBytes]
  /\ \A a, b \in Scalar : EncodeScalar[a] = EncodeScalar[b] => a = b
  /\ \A a, b \in Element : EncodeElement[a] = EncodeElement[b] => a = b

ASSUME DamageAssumption == MaxDamage \in Nat

(***************************************************************************)
(* The wire types: what their parts hold.                                  *)
(***************************************************************************)
KeyLayout == [SecretKey |-> <<"secret">>, PublicKey |-> <<"element">>]
ProofLayout == [Proof |-> <<"scalar", "scalar">>]
MessageLayout ==
  [BlindedElement |-> <<"element">>, EvaluatedElement |-> <<"element">>,
   PoprfBlindState |-> <<"scalar", "element">>, PoprfOutput |-> <<"raw", "raw">>]

Types == DOMAIN KeyLayout \cup DOMAIN ProofLayout \cup DOMAIN MessageLayout
Layout ==
  [t \in Types |-> CASE t \in DOMAIN KeyLayout     -> KeyLayout[t]
                     [] t \in DOMAIN ProofLayout   -> ProofLayout[t]
                     [] t \in DOMAIN MessageLayout -> MessageLayout[t]]

LEN(t) == Len(Layout[t]) * PartLen

\* The values that a part holds: keys are not zero, elements not the identity.
PartValues(kind) ==
  CASE kind = "secret"  -> SecretKey
    [] kind = "scalar"  -> Scalar
    [] kind = "element" -> PublicKey
    [] kind = "raw"     -> PartBytes

serialize_array(kind, v) ==
  CASE kind \in {"secret", "scalar"} -> EncodeScalar[v]
    [] kind = "element"              -> EncodeElement[v]
    [] kind = "raw"                  -> v

\* Mutant: what is not canonical is taken for another encoding of some value.
Encoded_reduced(encode, buf) ==
  IF \E v \in DOMAIN encode : encode[v] = buf
  THEN CHOOSE v \in DOMAIN encode : encode[v] = buf
  ELSE generator

\* What buf encodes, as the parsers of Group take it.
Encoded(encode, buf) ==
  IF \E v \in DOMAIN encode : encode[v] = buf
  THEN CHOOSE v \in DOMAIN encode : encode[v] = buf
  ELSE NonCanonical

ParsePart(kind, buf) ==
  CASE kind = "secret"  -> secret_key_from_bytes(Encoded(EncodeScalar, buf))
    [] kind = "scalar"  -> deserialize_scalar(Encoded(EncodeScalar, buf))
    [] kind = "element" -> deserialize_element(Encoded(EncodeElement, buf))
    [] kind = "raw"     -> Ok(buf)

\* Byte p of the whole is byte Within(p) of part Part(p).
Part(p) == ((p - 1) \div PartLen) + 1
Within(p) == ((p - 1) % PartLen) + 1

to_bytes(t, value) ==
  [p \in 1..LEN(t) |-> serialize_array(Layout[t][Part(p)], value[Part(p)])[Within(p)]]

Slice(buf, i) == [p \in 1..PartLen |-> buf[(i - 1) * PartLen + p]]

\* The first part that is refused decides the error.
from_bytes(t, buf) ==
  LET parts == [i \in DOMAIN Layout[t] |-> ParsePart(Layout[t][i], Slice(buf, i))]
      failed == {i \in DOMAIN parts : ~parts[i].ok}
      first == CHOOSE i \in failed : \A j \in failed : i <= j
  IN  IF Len(buf) # LEN(t) THEN Err("Deserialize")
      ELSE IF failed # {} THEN parts[first]
      ELSE Ok([i \in DOMAIN parts |-> parts[i].val])

(***************************************************************************)
(* Hex.                                                                    *)
(***************************************************************************)
Zero == 48
LowerA == 97
UpperA == 65

NIBBLE(n) == IF n < Ten THEN Zero + n ELSE LowerA + n - Ten

\* Mutant: the low digit comes first.
hex_encode_swapped(bytes) ==
  [p \in 1..(2 * Len(bytes)) |->
     LET b == bytes[(p + 1) \div 2]
     IN  NIBBLE(IF p % 2 = 0 THEN b \div HexBase ELSE b % HexBase)]

hex_encode(bytes) ==
  [p \in 1..(2 * Len(bytes)) |->
     LET b == bytes[(p + 1) \div 2]
     IN  NIBBLE(IF p % 2 = 1 THEN b \div HexBase ELSE b % HexBase)]

IsDigit(c) == c \in Zero..(Zero + Ten - 1)
IsLower(c) == c \in LowerA..(LowerA + HexBase - Ten - 1)
IsUpper(c) == c \in UpperA..(UpperA + HexBase - Ten - 1)

nibble_from_hex(c) ==
  IF IsDigit(c) THEN Ok(c - Zero)
  ELSE IF IsLower(c) THEN Ok(c - LowerA + Ten)
  ELSE IF IsUpper(c) THEN Ok(c - UpperA + Ten)
  ELSE Err("invalid hex")

hex_decode(n, text) ==
  LET nibble == [i \in DOMAIN text |-> nibble_from_hex(text[i])]
  IN  IF Len(text) # 2 * n \/ \E i \in DOMAIN text : ~nibble[i].ok THEN Err("invalid hex")
      ELSE Ok([i \in 1..n |-> nibble[2 * i - 1].val * HexBase + nibble[2 * i].val])

(***************************************************************************)
(* Documents.  shape is the visitor's method that the format calls.        *)
(***************************************************************************)
Shapes == {"str", "bytes", "borrowed_bytes", "byte_buf", "seq"}

ser_fixed(bytes, human) == IF human THEN hex_encode(bytes) ELSE bytes

visit_bytes(n, body) == IF Len(body) # n THEN Err("invalid_length") ELSE Ok(body)

\* Mutant: elements after the last byte are not noticed.
visit_seq_trailing(n, body) ==
  IF Len(body) < n THEN Err("invalid_length")
  ELSE IF \E i \in 1..n : body[i] \notin Byte THEN Err("invalid_value")
  ELSE Ok(SubSeq(body, 1, n))

\* next_element::<u8> refuses what is not a byte.
visit_seq(n, body) ==
  IF \E i \in DOMAIN body : i <= n + 1 /\ body[i] \notin Byte THEN Err("invalid_value")
  ELSE IF Len(body) # n THEN Err("invalid_length")
  ELSE Ok(body)

deser_fixed(n, doc) ==
  CASE doc.human /\ doc.shape = "str"                          -> hex_decode(n, doc.body)
    [] ~doc.human /\ doc.shape = "seq"                         -> visit_seq(n, doc.body)
    [] ~doc.human /\ doc.shape \notin {"str", "seq"}           -> visit_bytes(n, doc.body)
    [] OTHER                                                   -> Err("invalid_type")

deserialize(type, doc) ==
  LET bytes == deser_fixed(LEN(type), doc)
  IN  IF bytes.ok THEN from_bytes(type, bytes.val) ELSE bytes

(***************************************************************************)
(* A value on its way.                                                     *)
(***************************************************************************)
VARIABLES
  type,     \* its type
  origin,   \* the value at first
  held,     \* what the process that has it now parsed
  doc,      \* the document on its way, or Nothing
  damage    \* how often documents were tampered with

vars == <<type, origin, held, doc, damage>>

\* A blinded element may be the identity, of a blind that is zero; no reader
\* takes it back.
Values(t) ==
  {v \in [DOMAIN Layout[t] -> UNION {PartValues(Layout[t][i]) : i \in DOMAIN Layout[t]}] :
     \A i \in DOMAIN Layout[t] : v[i] \in PartValues(Layout[t][i])}

\* The document that a format of that shape makes of bytes.
Document(shape, bytes) ==
  [human |-> shape = "str", shape |-> shape, body |-> ser_fixed(bytes, shape = "str")]

Symbols(d) ==
  CASE d.shape = "str" -> UNION {(z - 1)..(z + 2) : z \in {Zero, LowerA, UpperA}}
    [] d.shape = "seq" -> Byte \cup {ByteBase}
    [] OTHER           -> Byte

Serialize(shape) ==
  /\ doc = Nothing /\ held.ok
  /\ doc' = Document(shape, to_bytes(type, held.val))
  /\ UNCHANGED <<type, origin, held, damage>>

\* Another sender may spell it differently, cut it, extend it, or mistake the shape.
Damage ==
  /\ doc # Nothing /\ damage < MaxDamage
  /\ \/ \E i \in DOMAIN doc.body, c \in Symbols(doc) : doc' = [doc EXCEPT !.body[i] = c]
     \/ doc.body # << >> /\ doc' = [doc EXCEPT !.body = SubSeq(@, 1, Len(@) - 1)]
     \/ \E c \in Symbols(doc) : doc' = [doc EXCEPT !.body = Append(@, c)]
     \/ \E human \in BOOLEAN : human # doc.human /\ doc' = [doc EXCEPT !.human = human]
  /\ damage' = damage + 1
  /\ UNCHANGED <<type, origin, held>>

Deserialize ==
  /\ doc # Nothing
  /\ held' = deserialize(type, doc)
  /\ doc' = Nothing
  /\ UNCHANGED <<type, origin, damage>>

Init ==
  /\ type \in Types
  /\ origin \in Values(type)
  /\ held = Ok(origin)
  /\ doc = Nothing
  /\ damage = 0

Next == (\E shape \in Shapes : Serialize(shape)) \/ Damage \/ Deserialize

Spec == Init /\ [][Next]_vars

(***************************************************************************)
(* Properties.                                                             *)
(***************************************************************************)
(* Type correctness.  What a process parsed is a value of its type: no     *)
(* zero key, identity element or stray number got in by a document.        *)
TypeOK ==
  /\ type \in Types /\ origin \in Values(type)
  /\ held.ok => held = Ok(held.val) /\ held.val \in Values(type)
  /\ doc # Nothing =>
       /\ doc \in [human : BOOLEAN, shape : Shapes, body : Seq(Int)]
       /\ doc.shape \notin {"str", "seq"} => doc.body \in Seq(Byte)
  /\ damage \in Nat

(* However often a value is passed on, and in whatever formats, it arrives *)
(* as it was: every writer and every reader of serde_util.rs fit together. *)
RelayedUnchanged == damage = 0 => held = Ok(origin)

\* Digit for digit, in either case.
Spells(text, bytes) ==
  LET written == hex_encode(bytes)
  IN  /\ Len(text) = Len(written)
      /\ \A i \in DOMAIN text : text[i] = written[i] \/ (IsUpper(text[i]) /\ text[i] + 32 = written[i])

Denotes(d, bytes) ==
  IF d.shape = "str" THEN d.human /\ Spells(d.body, bytes) ELSE ~d.human /\ d.body = bytes

(* "All from_bytes implementations enforce canonical encoding": serde is   *)
(* no way around them.  Every document, tampered with or not, gives what   *)
(* from_bytes gives of the bytes that it denotes, and is refused when it   *)
(* denotes none.                                                           *)
ReadsAsFromBytes ==
  doc # Nothing =>
    LET read == deserialize(type, doc)
        meant == {bytes \in [1..LEN(type) -> Byte] : Denotes(doc, bytes)}
    IN  IF meant = {} THEN ~read.ok ELSE \A bytes \in meant : read = from_bytes(type, bytes)

(* The encoding is canonical in every format: a document from which a      *)
(* value is read denotes the very bytes that to_bytes gives of that value, *)
(* so that two accepted documents that differ in more than the case of     *)
(* their digits hold different values.                                     *)
AcceptedIsCanonical ==
  doc # Nothing =>
    LET read == deserialize(type, doc)
    IN  read.ok => Denotes(doc, to_bytes(type, read.val))

(* The inductive invariant: a document that was not tampered with is one   *)
(* that the origin is written to.                                          *)
Untouched == doc # Nothing /\ damage = 0 => doc = Document(doc.shape, to_bytes(type, origin))

IInv == TypeOK /\ RelayedUnchanged /\ Untouched
====
