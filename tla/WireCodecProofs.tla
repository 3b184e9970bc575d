--------------------------- MODULE WireCodecProofs ---------------------------
(***************************************************************************)
(* Proofs about module WireCodec: the two directions of every conversion   *)
(* fit together, for every digit base, length, order and canonical         *)
(* encoding of scalars and elements.                                       *)
(***************************************************************************)
EXTENDS WireCodec, GroupProofs, SequenceTheorems

Digit == 0..(HexBase - 1)

(***************************************************************************)
(* Digits.                                                                 *)
(***************************************************************************)
(* Division with remainder by the digit base.                              *)
LEMMA HexDivMod ==
  ASSUME NEW x \in Int
  PROVE  /\ x % HexBase \in Digit
         /\ x \div HexBase \in Int
         /\ x = HexBase * (x \div HexBase) + (x % HexBase)
BY DigitAssumption DEF Digit

(* A byte has two digits.                                                  *)
LEMMA ByteDigits ==
  ASSUME NEW b \in Byte
  PROVE  /\ b \div HexBase \in Digit
         /\ b % HexBase \in Digit
         /\ (b \div HexBase) * HexBase + (b % HexBase) = b
<1> DEFINE q == b \div HexBase
           r == b % HexBase
<1>1. HexBase \in Nat /\ HexBase > 1 BY DigitAssumption
<1>2. b \in Int /\ 0 <= b /\ b < HexBase * HexBase BY <1>1 DEF Byte, ByteBase
<1>3. r \in Digit /\ q \in Int /\ b = HexBase * q + r BY <1>2, HexDivMod
<1>4. r \in 0..(HexBase - 1) BY <1>3 DEF Digit
<1> HIDE DEF q, r
<1>5. q < HexBase
  <2> SUFFICES ASSUME q >= HexBase PROVE FALSE BY <1>1, <1>3
  <2>1. HexBase * q >= HexBase * HexBase BY <1>1, <1>3
  <2> QED BY <1>1, <1>2, <1>3, <1>4, <2>1
<1>6. q >= 0
  <2> SUFFICES ASSUME q <= -1 PROVE FALSE BY <1>3
  <2>1. HexBase * q <= -HexBase BY <1>1, <1>3
  <2> QED BY <1>1, <1>2, <1>3, <1>4, <2>1
<1>7. q * HexBase = HexBase * q BY <1>1, <1>3
<1>8. q \in Digit BY <1>1, <1>3, <1>5, <1>6 DEF Digit
<1> QED BY <1>3, <1>7, <1>8 DEF q, r

(* Two digits make a byte.                                                 *)
LEMMA DigitsByte ==
  ASSUME NEW hi \in Digit, NEW lo \in Digit
  PROVE  /\ hi * HexBase + lo \in Byte
         /\ (hi * HexBase + lo) \div HexBase = hi
         /\ (hi * HexBase + lo) % HexBase = lo
<1> DEFINE b == hi * HexBase + lo
<1>1. HexBase \in Nat /\ HexBase > 1 BY DigitAssumption
<1>2. hi \in Nat /\ hi <= HexBase - 1 /\ lo \in Nat /\ lo <= HexBase - 1 BY <1>1 DEF Digit
<1>3. b \in Nat BY <1>1, <1>2
<1>4. b \in Byte
  <2>1. hi * HexBase <= (HexBase - 1) * HexBase BY <1>1, <1>2
  <2>2. (HexBase - 1) * HexBase = HexBase * HexBase - HexBase BY <1>1
  <2>3. hi * HexBase \in Nat /\ HexBase * HexBase \in Nat BY <1>1, <1>2
  <2> QED BY <1>1, <1>2, <2>1, <2>2, <2>3 DEF Byte, ByteBase
<1> DEFINE q == b \div HexBase
           r == b % HexBase
           d == hi - q
<1>5. r \in Digit /\ q \in Int /\ b = HexBase * q + r BY <1>3, HexDivMod
<1>6. r \in Nat /\ r <= HexBase - 1 BY <1>1, <1>5 DEF Digit
<1>7. d \in Int /\ HexBase * d = r - lo
  <2>1. b = HexBase * hi + lo BY <1>1, <1>2
  <2> HIDE DEF b, q, r
  <2> QED BY <1>1, <1>2, <1>5, <1>6, <2>1
<1> HIDE DEF b, r
<1>8. d = 0
  <2> HIDE DEF d
  <2>1. CASE d >= 1
    <3>1. HexBase * d >= HexBase BY <1>1, <1>7, <2>1
    <3> QED BY <1>1, <1>2, <1>6, <1>7, <3>1
  <2>2. CASE d <= -1
    <3>1. HexBase * d <= -HexBase BY <1>1, <1>7, <2>2
    <3> QED BY <1>1, <1>2, <1>6, <1>7, <3>1
  <2> QED BY <1>7, <2>1, <2>2
<1>9. r = lo BY <1>1, <1>2, <1>6, <1>7, <1>8
<1>10. q = hi
  <2> HIDE DEF q
  <2> QED BY <1>2, <1>5, <1>8
<1> QED BY <1>4, <1>9, <1>10 DEF b, r

\* c is how digit d is spelt, in either case.
SpeltAs(c, d) == c = NIBBLE(d) \/ (IsUpper(c) /\ c + 32 = NIBBLE(d))

LEMMA NibbleIsInt == \A d \in Digit : NIBBLE(d) \in Int
BY DigitAssumption DEF NIBBLE, Digit, Zero, LowerA

(* A digit is read as what it spells, and whatever is read spells it.      *)
LEMMA NibbleReads ==
  ASSUME NEW c \in Int, NEW d \in Digit, SpeltAs(c, d)
  PROVE  nibble_from_hex(c) = Ok(d)
<1>1. /\ HexBase \in Int /\ Ten \in Int /\ 1 <= Ten /\ Ten < HexBase
      /\ Ten <= 17 /\ HexBase - Ten <= 26
      /\ d \in Int /\ 0 <= d /\ d < HexBase
  BY DigitAssumption DEF Digit
<1>2. CASE d < Ten
  <2>1. c = 48 + d BY <1>1, <1>2 DEF SpeltAs, NIBBLE, IsUpper, Zero, UpperA
  <2>2. IsDigit(c) /\ c - 48 = d BY <1>1, <1>2, <2>1 DEF IsDigit, Zero
  <2> QED BY <2>2 DEF nibble_from_hex, Zero
<1>3. CASE d >= Ten
  <2>1. NIBBLE(d) = 97 + d - Ten BY <1>1, <1>3 DEF NIBBLE, LowerA
  <2>2. CASE c = NIBBLE(d)
    <3>1. ~IsDigit(c) /\ IsLower(c) /\ c - 97 + Ten = d
      BY <1>1, <1>3, <2>1, <2>2 DEF IsDigit, IsLower, Zero, LowerA
    <3> QED BY <3>1 DEF nibble_from_hex, LowerA
  <2>3. CASE IsUpper(c) /\ c + 32 = NIBBLE(d)
    <3>1. ~IsDigit(c) /\ ~IsLower(c) /\ c - 65 + Ten = d
      BY <1>1, <1>3, <2>1, <2>3 DEF IsDigit, IsLower, IsUpper, Zero, LowerA, UpperA
    <3> QED BY <2>3, <3>1 DEF nibble_from_hex, UpperA
  <2> QED BY <2>2, <2>3 DEF SpeltAs
<1> QED BY <1>1, <1>2, <1>3

LEMMA NibbleRead ==
  ASSUME NEW c \in Int, nibble_from_hex(c).ok
  PROVE  nibble_from_hex(c).val \in Digit /\ SpeltAs(c, nibble_from_hex(c).val)
<1> DEFINE d == nibble_from_hex(c).val
<1>1. /\ HexBase \in Int /\ Ten \in Int /\ 1 <= Ten /\ Ten < HexBase
      /\ Ten <= 17 /\ HexBase - Ten <= 26
  BY DigitAssumption
<1>2. CASE IsDigit(c)
  <2>1. d = c - 48 BY <1>2, Results DEF nibble_from_hex, Zero
  <2>2. d \in Int /\ 0 <= d /\ d < Ten /\ c = 48 + d
    BY <1>1, <1>2, <2>1 DEF IsDigit, Zero
  <2> HIDE DEF d
  <2>3. d \in Digit /\ SpeltAs(c, d) BY <1>1, <2>2 DEF Digit, SpeltAs, NIBBLE, Zero
  <2> QED BY <2>3 DEF d
<1>3. CASE ~IsDigit(c) /\ IsLower(c)
  <2>1. d = c - 97 + Ten BY <1>3, Results DEF nibble_from_hex, LowerA
  <2>2. d \in Int /\ Ten <= d /\ d < HexBase /\ c = 97 + d - Ten
    BY <1>1, <1>3, <2>1 DEF IsLower, LowerA
  <2> HIDE DEF d
  <2>3. d \in Digit /\ SpeltAs(c, d) BY <1>1, <2>2 DEF Digit, SpeltAs, NIBBLE, LowerA
  <2> QED BY <2>3 DEF d
<1>4. CASE ~IsDigit(c) /\ ~IsLower(c) /\ IsUpper(c)
  <2>1. d = c - 65 + Ten BY <1>4, Results DEF nibble_from_hex, UpperA
  <2>2. d \in Int /\ Ten <= d /\ d < HexBase /\ c + 32 = 97 + d - Ten
    BY <1>1, <1>4, <2>1 DEF IsUpper, UpperA
  <2> HIDE DEF d
  <2>3. d \in Digit /\ SpeltAs(c, d) BY <1>1, <1>4, <2>2 DEF Digit, SpeltAs, NIBBLE, LowerA
  <2> QED BY <2>3 DEF d
<1> QED BY <1>2, <1>3, <1>4, Results DEF nibble_from_hex

(***************************************************************************)
(* Hex.                                                                    *)
(***************************************************************************)
(* Characters 2i-1 and 2i are those of byte i, and there are no others.    *)
LEMMA Pairs ==
  ASSUME NEW n \in Nat
  PROVE  /\ \A i \in 1..n : /\ 2 * i - 1 \in 1..(2 * n) /\ 2 * i \in 1..(2 * n)
                            /\ (2 * i - 1 + 1) \div 2 = i /\ (2 * i + 1) \div 2 = i
                            /\ (2 * i - 1) % 2 = 1 /\ (2 * i) % 2 # 1
         /\ \A p \in 1..(2 * n) : \E i \in 1..n : p = 2 * i - 1 \/ p = 2 * i
<1>1. ASSUME NEW i \in 1..n
      PROVE  /\ 2 * i - 1 \in 1..(2 * n) /\ 2 * i \in 1..(2 * n)
             /\ (2 * i - 1 + 1) \div 2 = i /\ (2 * i + 1) \div 2 = i
             /\ (2 * i - 1) % 2 = 1 /\ (2 * i) % 2 # 1
  OBVIOUS
<1>2. ASSUME NEW p \in 1..(2 * n)
      PROVE  \E i \in 1..n : p = 2 * i - 1 \/ p = 2 * i
  <2> DEFINE i == (p + 1) \div 2
  <2>1. i \in 1..n /\ (p = 2 * i - 1 \/ p = 2 * i) OBVIOUS
  <2> QED BY <2>1
<1> QED BY <1>1, <1>2

(* hex_encode writes the two digits of every byte, the high one first.     *)
LEMMA HexEncoded ==
  ASSUME NEW n \in Nat, NEW bytes \in [1..n -> Byte]
  PROVE  /\ hex_encode(bytes) \in [1..(2 * n) -> Int]
         /\ hex_encode(bytes) \in Seq(Int) /\ Len(hex_encode(bytes)) = 2 * n
         /\ \A i \in 1..n : /\ hex_encode(bytes)[2 * i - 1] = NIBBLE(bytes[i] \div HexBase)
                            /\ hex_encode(bytes)[2 * i] = NIBBLE(bytes[i] % HexBase)
<1> DEFINE text == hex_encode(bytes)
<1>1. Len(bytes) = n OBVIOUS
<1>2. text = [p \in 1..(2 * n) |->
                NIBBLE(IF p % 2 = 1 THEN bytes[(p + 1) \div 2] \div HexBase
                       ELSE bytes[(p + 1) \div 2] % HexBase)]
  BY <1>1 DEF hex_encode
<1> HIDE DEF text
<1>3. \A i \in 1..n : /\ text[2 * i - 1] = NIBBLE(bytes[i] \div HexBase)
                      /\ text[2 * i] = NIBBLE(bytes[i] % HexBase)
  BY <1>2, Pairs
<1>4. \A i \in 1..n : NIBBLE(bytes[i] \div HexBase) \in Int /\ NIBBLE(bytes[i] % HexBase) \in Int
  BY ByteDigits, NibbleIsInt
<1>5. ASSUME NEW p \in 1..(2 * n) PROVE text[p] \in Int
  <2>1. PICK i \in 1..n : p = 2 * i - 1 \/ p = 2 * i BY Pairs
  <2>2. text[2 * i - 1] \in Int /\ text[2 * i] \in Int BY <1>3, <1>4
  <2> QED BY <2>1, <2>2
<1>6. text \in [1..(2 * n) -> Int] BY <1>2, <1>5
<1>7. text \in Seq(Int) /\ Len(text) = 2 * n BY <1>6
<1> QED BY <1>3, <1>6, <1>7 DEF text

(* Spelling bytes is spelling the digits of each.                          *)
LEMMA SpeltDigits ==
  ASSUME NEW n \in Nat, NEW text \in Seq(Int), NEW bytes \in [1..n -> Byte]
  PROVE  Spells(text, bytes) <=>
           /\ Len(text) = 2 * n
           /\ \A i \in 1..n : /\ SpeltAs(text[2 * i - 1], bytes[i] \div HexBase)
                              /\ SpeltAs(text[2 * i], bytes[i] % HexBase)
<1> DEFINE w == hex_encode(bytes)
<1>1. /\ Len(w) = 2 * n
      /\ \A i \in 1..n : /\ w[2 * i - 1] = NIBBLE(bytes[i] \div HexBase)
                         /\ w[2 * i] = NIBBLE(bytes[i] % HexBase)
  BY HexEncoded
<1>2. Spells(text, bytes) <=>
        /\ Len(text) = Len(w)
        /\ \A p \in DOMAIN text : text[p] = w[p] \/ (IsUpper(text[p]) /\ text[p] + 32 = w[p])
  BY DEF Spells
<1> HIDE DEF w
<1>3. SUFFICES ASSUME Len(text) = 2 * n
               PROVE  (\A p \in DOMAIN text :
                         text[p] = w[p] \/ (IsUpper(text[p]) /\ text[p] + 32 = w[p]))
                      <=> \A i \in 1..n : /\ SpeltAs(text[2 * i - 1], bytes[i] \div HexBase)
                                          /\ SpeltAs(text[2 * i], bytes[i] % HexBase)
  BY <1>1, <1>2
<1>4. DOMAIN text = 1..(2 * n) BY <1>3
<1>5. ASSUME \A p \in DOMAIN text :
               text[p] = w[p] \/ (IsUpper(text[p]) /\ text[p] + 32 = w[p]),
             NEW i \in 1..n
      PROVE  /\ SpeltAs(text[2 * i - 1], bytes[i] \div HexBase)
             /\ SpeltAs(text[2 * i], bytes[i] % HexBase)
  BY <1>1, <1>4, <1>5, Pairs DEF SpeltAs
<1>6. ASSUME \A i \in 1..n : /\ SpeltAs(text[2 * i - 1], bytes[i] \div HexBase)
                             /\ SpeltAs(text[2 * i], bytes[i] % HexBase),
             NEW p \in DOMAIN text
      PROVE  text[p] = w[p] \/ (IsUpper(text[p]) /\ text[p] + 32 = w[p])
  <2>1. PICK i \in 1..n : p = 2 * i - 1 \/ p = 2 * i BY <1>4, Pairs
  <2>2. /\ SpeltAs(text[2 * i - 1], bytes[i] \div HexBase)
        /\ SpeltAs(text[2 * i], bytes[i] % HexBase)
    BY <1>6
  <2>3. /\ w[2 * i - 1] = NIBBLE(bytes[i] \div HexBase)
        /\ w[2 * i] = NIBBLE(bytes[i] % HexBase)
    BY <1>1
  <2>4. CASE p = 2 * i - 1
    <3>1. SpeltAs(text[p], bytes[i] \div HexBase) /\ w[p] = NIBBLE(bytes[i] \div HexBase)
      BY <2>2, <2>3, <2>4
    <3> QED BY <3>1 DEF SpeltAs
  <2>5. CASE p = 2 * i
    <3>1. SpeltAs(text[p], bytes[i] % HexBase) /\ w[p] = NIBBLE(bytes[i] % HexBase)
      BY <2>2, <2>3, <2>5
    <3> QED BY <3>1 DEF SpeltAs
  <2> QED BY <2>1, <2>4, <2>5
<1> QED BY <1>5, <1>6

(* hex_decode gives the bytes that a text spells.                          *)
LEMMA HexDecodes ==
  ASSUME NEW n \in Nat, NEW text \in Seq(Int), NEW bytes \in [1..n -> Byte],
         Spells(text, bytes)
  PROVE  hex_decode(n, text) = Ok(bytes)
<1> DEFINE nibble == [p \in DOMAIN text |-> nibble_from_hex(text[p])]
<1>1. Len(text) = 2 * n /\ DOMAIN text = 1..(2 * n) BY SpeltDigits
<1>2. ASSUME NEW i \in 1..n
      PROVE  /\ nibble[2 * i - 1] = Ok(bytes[i] \div HexBase)
             /\ nibble[2 * i] = Ok(bytes[i] % HexBase)
  <2>1. 2 * i - 1 \in DOMAIN text /\ 2 * i \in DOMAIN text BY <1>1, Pairs
  <2>2. text[2 * i - 1] \in Int /\ text[2 * i] \in Int BY <2>1, ElementOfSeq
  <2>3. bytes[i] \div HexBase \in Digit /\ bytes[i] % HexBase \in Digit BY ByteDigits
  <2>4. /\ SpeltAs(text[2 * i - 1], bytes[i] \div HexBase)
        /\ SpeltAs(text[2 * i], bytes[i] % HexBase)
    BY SpeltDigits
  <2> QED BY <2>1, <2>2, <2>3, <2>4, NibbleReads
<1> HIDE DEF nibble
<1>3. ASSUME NEW p \in 1..(2 * n) PROVE nibble[p].ok
  <2>1. PICK i \in 1..n : p = 2 * i - 1 \/ p = 2 * i BY Pairs
  <2>2. /\ nibble[2 * i - 1] = Ok(bytes[i] \div HexBase)
        /\ nibble[2 * i] = Ok(bytes[i] % HexBase)
    BY <1>2
  <2>3. nibble[2 * i - 1].ok /\ nibble[2 * i].ok BY <2>2, Results
  <2> QED BY <2>1, <2>3
<1>4. [i \in 1..n |-> nibble[2 * i - 1].val * HexBase + nibble[2 * i].val] = bytes
  <2>1. ASSUME NEW i \in 1..n
        PROVE  nibble[2 * i - 1].val * HexBase + nibble[2 * i].val = bytes[i]
    <3>1. /\ nibble[2 * i - 1] = Ok(bytes[i] \div HexBase)
          /\ nibble[2 * i] = Ok(bytes[i] % HexBase)
      BY <1>2
    <3>2. /\ nibble[2 * i - 1].val = bytes[i] \div HexBase
          /\ nibble[2 * i].val = bytes[i] % HexBase
      BY <3>1, Results
    <3> QED BY <3>2, ByteDigits
  <2> QED BY <2>1
<1> QED BY <1>1, <1>3, <1>4 DEF hex_decode, nibble

(* What hex_decode accepts spells the bytes that it gives.                 *)
LEMMA HexDecoded ==
  ASSUME NEW n \in Nat, NEW text \in Seq(Int), hex_decode(n, text).ok
  PROVE  /\ hex_decode(n, text).val \in [1..n -> Byte]
         /\ Spells(text, hex_decode(n, text).val)
<1> DEFINE nibble == [p \in DOMAIN text |-> nibble_from_hex(text[p])]
           bytes == [i \in 1..n |-> nibble[2 * i - 1].val * HexBase + nibble[2 * i].val]
<1>1. /\ Len(text) = 2 * n /\ \A p \in DOMAIN text : nibble[p].ok
      /\ hex_decode(n, text) = Ok(bytes)
  BY Results DEF hex_decode
<1>2. DOMAIN text = 1..(2 * n) BY <1>1
<1>3. \A p \in DOMAIN text : nibble[p].val \in Digit /\ SpeltAs(text[p], nibble[p].val)
  <2> SUFFICES ASSUME NEW p \in DOMAIN text
               PROVE  nibble[p].val \in Digit /\ SpeltAs(text[p], nibble[p].val)
    OBVIOUS
  <2>1. text[p] \in Int BY ElementOfSeq, <1>2
  <2> QED BY <1>1, <2>1, NibbleRead
<1> HIDE DEF nibble
<1>4. ASSUME NEW i \in 1..n
      PROVE  /\ bytes[i] \in Byte
             /\ SpeltAs(text[2 * i - 1], bytes[i] \div HexBase)
             /\ SpeltAs(text[2 * i], bytes[i] % HexBase)
  <2>1. 2 * i - 1 \in DOMAIN text /\ 2 * i \in DOMAIN text BY <1>2, Pairs
  <2> DEFINE hi == nibble[2 * i - 1].val
             lo == nibble[2 * i].val
  <2>2. hi \in Digit /\ lo \in Digit /\ SpeltAs(text[2 * i - 1], hi) /\ SpeltAs(text[2 * i], lo)
    BY <1>3, <2>1
  <2>3. bytes[i] = hi * HexBase + lo OBVIOUS
  <2> HIDE DEF hi, lo, bytes
  <2> QED BY <2>2, <2>3, DigitsByte
<1>5. bytes \in [1..n -> Byte] BY <1>4
<1> HIDE DEF bytes
<1>6. Spells(text, bytes) BY <1>1, <1>4, <1>5, SpeltDigits
<1> QED BY <1>1, <1>5, <1>6, Results

(***************************************************************************)
(* Documents.                                                              *)
(***************************************************************************)
IsDoc(d) ==
  /\ d \in [human : BOOLEAN, shape : Shapes, body : Seq(Int)]
  /\ d.shape \notin {"str", "seq"} => d.body \in Seq(Byte)

LEMMA BytesAreInts == \A n \in Nat : \A b \in [1..n -> Byte] : b \in Seq(Byte) /\ b \in Seq(Int)
<1> SUFFICES ASSUME NEW n \in Nat, NEW b \in [1..n -> Byte]
             PROVE  b \in Seq(Byte) /\ b \in Seq(Int)
  OBVIOUS
<1>1. ByteBase \in Int /\ Byte \subseteq Int BY DigitAssumption DEF Byte, ByteBase
<1>2. b \in [1..n -> Int] BY <1>1
<1> QED BY <1>2

(* A document is read as the bytes that it denotes.                        *)
LEMMA ReadsDenoted ==
  ASSUME NEW n \in Nat, NEW d, IsDoc(d), NEW bytes \in [1..n -> Byte], Denotes(d, bytes)
  PROVE  deser_fixed(n, d) = Ok(bytes)
<1>1. d.body \in Seq(Int) /\ d.human \in BOOLEAN BY DEF IsDoc
<1>2. CASE d.shape = "str"
  <2>1. d.human /\ Spells(d.body, bytes) BY <1>2 DEF Denotes
  <2>2. hex_decode(n, d.body) = Ok(bytes) BY <1>1, <2>1, HexDecodes
  <2> QED BY <1>2, <2>1, <2>2 DEF deser_fixed
<1>3. CASE d.shape # "str"
  <2>1. ~d.human /\ d.body = bytes BY <1>3 DEF Denotes
  <2>2. Len(bytes) = n /\ DOMAIN bytes = 1..n OBVIOUS
  <2>3. visit_bytes(n, d.body) = Ok(bytes) BY <2>1, <2>2 DEF visit_bytes
  <2>4. visit_seq(n, d.body) = Ok(bytes) BY <2>1, <2>2 DEF visit_seq
  <2> QED BY <1>3, <2>1, <2>3, <2>4 DEF deser_fixed
<1> QED BY <1>2, <1>3

(* What is read from a document are bytes that it denotes.                 *)
LEMMA DenotesRead ==
  ASSUME NEW n \in Nat, NEW d, IsDoc(d), deser_fixed(n, d).ok
  PROVE  /\ deser_fixed(n, d).val \in [1..n -> Byte]
         /\ Denotes(d, deser_fixed(n, d).val)
<1>1. d.body \in Seq(Int) /\ d.human \in BOOLEAN BY DEF IsDoc
<1>2. DOMAIN d.body = 1..Len(d.body) BY <1>1
<1>3. CASE d.human /\ d.shape = "str"
  <2>1. deser_fixed(n, d) = hex_decode(n, d.body) BY <1>3 DEF deser_fixed
  <2>2. hex_decode(n, d.body).ok BY <2>1
  <2>3. /\ hex_decode(n, d.body).val \in [1..n -> Byte]
        /\ Spells(d.body, hex_decode(n, d.body).val)
    BY <1>1, <2>2, HexDecoded
  <2> QED BY <1>3, <2>1, <2>3 DEF Denotes
<1>4. CASE ~d.human /\ d.shape = "seq"
  <2>1. deser_fixed(n, d) = visit_seq(n, d.body) BY <1>4 DEF deser_fixed
  <2>2. /\ Len(d.body) = n /\ deser_fixed(n, d).val = d.body
        /\ \A i \in DOMAIN d.body : i <= n + 1 => d.body[i] \in Byte
    BY <2>1, Results DEF visit_seq
  <2>3. \A i \in 1..n : d.body[i] \in Byte BY <1>2, <2>2
  <2>4. d.body \in [1..n -> Byte] BY <1>1, <2>2, <2>3
  <2> QED BY <1>4, <2>2, <2>4 DEF Denotes
<1>5. CASE ~d.human /\ d.shape \notin {"str", "seq"}
  <2>1. deser_fixed(n, d) = visit_bytes(n, d.body) BY <1>5 DEF deser_fixed
  <2>2. Len(d.body) = n /\ deser_fixed(n, d).val = d.body BY <2>1, Results DEF visit_bytes
  <2>3. d.body \in [1..n -> Byte] BY <1>5, <2>2 DEF IsDoc
  <2> QED BY <1>5, <2>2, <2>3 DEF Denotes
<1> QED BY <1>1, <1>3, <1>4, <1>5, Results DEF deser_fixed

(* A document that a format makes of bytes denotes them.                   *)
LEMMA DocumentDenotes ==
  ASSUME NEW n \in Nat, NEW bytes \in [1..n -> Byte], NEW shape \in Shapes
  PROVE  IsDoc(Document(shape, bytes)) /\ Denotes(Document(shape, bytes), bytes)
<1> DEFINE d == Document(shape, bytes)
<1>1. /\ d.human = (shape = "str") /\ d.shape = shape
      /\ d.body = ser_fixed(bytes, shape = "str")
      /\ d = [human |-> d.human, shape |-> d.shape, body |-> d.body]
  BY DEF Document
<1> HIDE DEF d
<1>2. CASE shape = "str"
  <2>1. d.body = hex_encode(bytes) BY <1>1, <1>2 DEF ser_fixed
  <2>2. d.body \in Seq(Int) BY <2>1, HexEncoded
  <2>3. Spells(d.body, bytes) BY <2>1 DEF Spells
  <2> QED BY <1>1, <1>2, <2>2, <2>3 DEF IsDoc, Denotes, d
<1>3. CASE shape # "str"
  <2>1. d.body = bytes BY <1>1, <1>3 DEF ser_fixed
  <2>2. d.body \in Seq(Int) /\ d.body \in Seq(Byte) BY <2>1, BytesAreInts
  <2> QED BY <1>1, <1>3, <2>1, <2>2 DEF IsDoc, Denotes, d
<1> QED BY <1>2, <1>3

(***************************************************************************)
(* Values and their bytes.                                                 *)
(***************************************************************************)
Kinds == {"secret", "scalar", "element", "raw"}

LEMMA Layouts ==
  ASSUME NEW t \in Types
  PROVE  \E n \in {1, 2} : /\ Layout[t] \in [1..n -> Kinds]
                           /\ DOMAIN Layout[t] = 1..n
                           /\ LEN(t) = n * PartLen
<1>1. Types = {"SecretKey", "PublicKey", "Proof", "BlindedElement", "EvaluatedElement",
               "PoprfBlindState", "PoprfOutput"}
  BY DEF Types, KeyLayout, ProofLayout, MessageLayout
<1>2. /\ DOMAIN KeyLayout = {"SecretKey", "PublicKey"}
      /\ DOMAIN ProofLayout = {"Proof"}
      /\ DOMAIN MessageLayout = {"BlindedElement", "EvaluatedElement", "PoprfBlindState",
                                 "PoprfOutput"}
  BY DEF KeyLayout, ProofLayout, MessageLayout
<1>3. CASE t \in DOMAIN KeyLayout
  <2>1. Layout[t] = KeyLayout[t] BY <1>2, <1>3 DEF Layout
  <2>2. Layout[t] \in [1..1 -> Kinds] /\ Len(Layout[t]) = 1
    BY <1>2, <1>3, <2>1 DEF KeyLayout, Kinds
  <2> QED BY <2>2 DEF LEN
<1>4. CASE t \in DOMAIN ProofLayout
  <2>1. Layout[t] = ProofLayout[t] BY <1>2, <1>4 DEF Layout
  <2>2. Layout[t] \in [1..2 -> Kinds] /\ Len(Layout[t]) = 2
    BY <1>2, <1>4, <2>1 DEF ProofLayout, Kinds
  <2> QED BY <2>2 DEF LEN
<1>5. CASE t \in DOMAIN MessageLayout
  <2>1. Layout[t] = MessageLayout[t] BY <1>2, <1>5 DEF Layout
  <2>2. CASE t \in {"BlindedElement", "EvaluatedElement"}
    <3>1. Layout[t] = <<"element">> BY <2>1, <2>2 DEF MessageLayout
    <3>2. Layout[t] \in [1..1 -> Kinds] /\ Len(Layout[t]) = 1 BY <3>1 DEF Kinds
    <3> QED BY <3>2 DEF LEN
  <2>3. CASE t \in {"PoprfBlindState", "PoprfOutput"}
    <3>1. Layout[t] = <<"scalar", "element">> \/ Layout[t] = <<"raw", "raw">>
      BY <2>1, <2>3 DEF MessageLayout
    <3>2. Layout[t] \in [1..2 -> Kinds] /\ Len(Layout[t]) = 2 BY <3>1 DEF Kinds
    <3> QED BY <3>2 DEF LEN
  <2> QED BY <1>2, <1>5, <2>2, <2>3
<1> QED BY <1>1, <1>2, <1>3, <1>4, <1>5

(* A part is read back from the bytes that it is written to.               *)
LEMMA PartWritten ==
  ASSUME NEW kind \in Kinds, NEW v \in PartValues(kind)
  PROVE  /\ serialize_array(kind, v) \in PartBytes
         /\ ParsePart(kind, serialize_array(kind, v)) = Ok(v)
<1>1. \A a \in Scalar : Encoded(EncodeScalar, EncodeScalar[a]) = a
  <2> TAKE a \in Scalar
  <2>1. DOMAIN EncodeScalar = Scalar BY EncodingAssumption
  <2>2. \A b \in Scalar : EncodeScalar[b] = EncodeScalar[a] => b = a BY EncodingAssumption
  <2> QED BY <2>1, <2>2 DEF Encoded
<1>2. \A a \in Element : Encoded(EncodeElement, EncodeElement[a]) = a
  <2> TAKE a \in Element
  <2>1. DOMAIN EncodeElement = Element BY EncodingAssumption
  <2>2. \A b \in Element : EncodeElement[b] = EncodeElement[a] => b = a BY EncodingAssumption
  <2> QED BY <2>1, <2>2 DEF Encoded
<1>3. CASE kind \in {"secret", "scalar"}
  <2>1. v \in Scalar /\ (kind = "secret" => v # 0)
    BY <1>3, RandomScalarIsScalar DEF PartValues, SecretKey
  <2>2. v # Truncated /\ v # NonCanonical
    BY <2>1, OrderAssumption DEF Scalar, Truncated, NonCanonical
  <2>3. serialize_array(kind, v) = EncodeScalar[v] /\ EncodeScalar[v] \in PartBytes
    BY <1>3, <2>1, EncodingAssumption DEF serialize_array
  <2>4. deserialize_scalar(v) = Ok(v) BY <2>2 DEF deserialize_scalar
  <2>5. kind = "secret" => secret_key_from_bytes(v) = Ok(v)
    BY <2>1, <2>4, Results DEF secret_key_from_bytes, scalar_is_zero
  <2>6. ParsePart(kind, EncodeScalar[v])
          = IF kind = "secret" THEN secret_key_from_bytes(v) ELSE deserialize_scalar(v)
    BY <1>1, <1>3, <2>1 DEF ParsePart
  <2> QED BY <2>3, <2>4, <2>5, <2>6
<1>4. CASE kind = "element"
  <2>1. v \in Element /\ v # 0 BY <1>4 DEF PartValues, PublicKey, identity
  <2>2. v # Truncated /\ v # NonCanonical
    BY <2>1, OrderAssumption DEF Element, Truncated, NonCanonical
  <2>3. serialize_array(kind, v) = EncodeElement[v] /\ EncodeElement[v] \in PartBytes
    BY <1>4, <2>1, EncodingAssumption DEF serialize_array
  <2>4. deserialize_element(v) = Ok(v)
    BY <2>1, <2>2 DEF deserialize_element, is_identity, identity
  <2>5. ParsePart(kind, EncodeElement[v]) = deserialize_element(v)
    BY <1>2, <1>4, <2>1 DEF ParsePart
  <2> QED BY <2>3, <2>4, <2>5
<1>5. CASE kind = "raw"
  BY <1>5 DEF PartValues, serialize_array, ParsePart
<1> QED BY <1>3, <1>4, <1>5 DEF Kinds

(* What is read from a part is written to the same bytes.                  *)
LEMMA PartRead ==
  ASSUME NEW kind \in Kinds, NEW buf \in PartBytes, ParsePart(kind, buf).ok
  PROVE  /\ ParsePart(kind, buf).val \in PartValues(kind)
         /\ serialize_array(kind, ParsePart(kind, buf).val) = buf
<1>1. /\ DOMAIN EncodeScalar = Scalar /\ DOMAIN EncodeElement = Element
      /\ Scalar = Element /\ NonCanonical \in Bytes /\ Scalar \subseteq Bytes
  BY EncodingAssumption, OrderAssumption, FixedBytesAreBytes
     DEF NonCanonical, Bytes, Scalar, Element
<1>2. \A e \in {EncodeScalar, EncodeElement} :
        /\ Encoded(e, buf) \in Bytes
        /\ Encoded(e, buf) \in Scalar => e[Encoded(e, buf)] = buf
  <2> SUFFICES ASSUME NEW e \in {EncodeScalar, EncodeElement}
               PROVE  /\ Encoded(e, buf) \in Bytes
                      /\ Encoded(e, buf) \in Scalar => e[Encoded(e, buf)] = buf
    OBVIOUS
  <2>1. NonCanonical \notin Scalar BY OrderAssumption DEF NonCanonical, Scalar
  <2>2. CASE \E v \in DOMAIN e : e[v] = buf
    <3>1. Encoded(e, buf) \in DOMAIN e /\ e[Encoded(e, buf)] = buf BY <2>2 DEF Encoded
    <3> QED BY <1>1, <3>1
  <2>3. CASE ~\E v \in DOMAIN e : e[v] = buf
    BY <1>1, <2>1, <2>3 DEF Encoded
  <2> QED BY <2>2, <2>3
<1>3. CASE kind = "secret"
  <2> DEFINE x == Encoded(EncodeScalar, buf)
  <2>1. ParsePart(kind, buf) = secret_key_from_bytes(x) BY <1>3 DEF ParsePart
  <2>2. x \in Bytes BY <1>2
  <2> HIDE DEF x
  <2>3. secret_key_from_bytes(x).val = x /\ x \in SecretKey
    BY <2>1, <2>2, SecretKeyParsed
  <2>4. x \in Scalar BY <2>3, RandomScalarIsScalar DEF SecretKey
  <2>5. EncodeScalar[x] = buf BY <1>2, <2>4 DEF x
  <2> QED BY <1>3, <2>1, <2>3, <2>5 DEF PartValues, serialize_array
<1>4. CASE kind = "scalar"
  <2> DEFINE x == Encoded(EncodeScalar, buf)
  <2>1. ParsePart(kind, buf) = deserialize_scalar(x) BY <1>4 DEF ParsePart
  <2>2. x \in Bytes BY <1>2
  <2> HIDE DEF x
  <2>3. deserialize_scalar(x).val = x /\ x \in Scalar BY <2>1, <2>2, ParsedScalar
  <2>4. EncodeScalar[x] = buf BY <1>2, <2>3 DEF x
  <2> QED BY <1>4, <2>1, <2>3, <2>4 DEF PartValues, serialize_array
<1>5. CASE kind = "element"
  <2> DEFINE x == Encoded(EncodeElement, buf)
  <2>1. ParsePart(kind, buf) = deserialize_element(x) BY <1>5 DEF ParsePart
  <2>2. x \in Bytes BY <1>2
  <2> HIDE DEF x
  <2>3. deserialize_element(x).val = x /\ x \in Scalar \ {0} BY <2>1, <2>2, ParsedElement
  <2>4. EncodeElement[x] = buf BY <1>2, <2>3 DEF x
  <2> QED BY <1>1, <1>5, <2>1, <2>3, <2>4 DEF PartValues, PublicKey, identity, serialize_array
<1>6. CASE kind = "raw"
  BY <1>6, Results DEF PartValues, serialize_array, ParsePart
<1> QED BY <1>3, <1>4, <1>5, <1>6 DEF Kinds

(* Every position of a type of n parts is a position in one of its parts.  *)
LEMMA Positions ==
  ASSUME NEW n \in {1, 2}
  PROVE  /\ \A i \in 1..n, q \in 1..PartLen :
              /\ (i - 1) * PartLen + q \in 1..(n * PartLen)
              /\ Part((i - 1) * PartLen + q) = i
              /\ Within((i - 1) * PartLen + q) = q
         /\ \A p \in 1..(n * PartLen) :
              /\ Part(p) \in 1..n
              /\ Within(p) \in 1..PartLen
              /\ p = (Part(p) - 1) * PartLen + Within(p)
<1>1. PartLen \in Nat /\ PartLen >= 1 BY EncodingAssumption
<1>2. ASSUME NEW x \in 0..(n * PartLen - 1)
      PROVE  \/ /\ x < PartLen /\ x \div PartLen = 0 /\ x % PartLen = x
             \/ /\ n = 2 /\ x >= PartLen /\ x < 2 * PartLen
                /\ x \div PartLen = 1 /\ x % PartLen = x - PartLen
  <2> DEFINE d == x \div PartLen
             r == x % PartLen
  <2>1. x \in Nat /\ x < 2 * PartLen /\ (n = 1 => x < PartLen)
    BY <1>1
  <2>2. d \in Int /\ r \in Int /\ 0 <= r /\ r < PartLen /\ x = PartLen * d + r
    BY <1>1, <2>1
  <2> HIDE DEF d, r
  <2>3. d >= 0
    <3> SUFFICES ASSUME d <= -1 PROVE FALSE BY <2>2
    <3>1. PartLen * d <= -PartLen BY <1>1, <2>2
    <3> QED BY <1>1, <2>1, <2>2, <3>1
  <2>4. d <= 1
    <3> SUFFICES ASSUME d >= 2 PROVE FALSE BY <2>2
    <3>1. PartLen * d >= PartLen * 2 BY <1>1, <2>2
    <3> QED BY <1>1, <2>1, <2>2, <3>1
  <2>5. CASE d = 0
    <3>1. r = x /\ x < PartLen BY <1>1, <2>1, <2>2, <2>5
    <3> QED BY <2>5, <3>1 DEF d, r
  <2>6. CASE d = 1
    <3>1. r = x - PartLen /\ x >= PartLen BY <1>1, <2>1, <2>2, <2>6
    <3>2. n = 2 BY <2>1, <3>1, <1>1
    <3> QED BY <2>1, <2>6, <3>1, <3>2 DEF d, r
  <2> QED BY <2>2, <2>3, <2>4, <2>5, <2>6
<1>3. ASSUME NEW i \in 1..n, NEW q \in 1..PartLen
      PROVE  /\ (i - 1) * PartLen + q \in 1..(n * PartLen)
             /\ Part((i - 1) * PartLen + q) = i
             /\ Within((i - 1) * PartLen + q) = q
  <2> DEFINE p == (i - 1) * PartLen + q
  <2>1. i = 1 \/ (i = 2 /\ n = 2) OBVIOUS
  <2>2. p = IF i = 1 THEN q ELSE PartLen + q BY <1>1, <2>1
  <2>3. p \in 1..(n * PartLen) BY <1>1, <2>1, <2>2
  <2> HIDE DEF p
  <2>4. p - 1 \in 0..(n * PartLen - 1) BY <1>1, <2>3
  <2>5. \/ /\ p - 1 < PartLen /\ (p - 1) \div PartLen = 0 /\ (p - 1) % PartLen = p - 1
        \/ /\ n = 2 /\ p - 1 >= PartLen /\ p - 1 < 2 * PartLen
           /\ (p - 1) \div PartLen = 1 /\ (p - 1) % PartLen = p - 1 - PartLen
    BY <1>2, <2>4
  <2>6. Part(p) = i /\ Within(p) = q
    <3>1. CASE i = 1
      <4>1. p = q /\ p - 1 < PartLen BY <1>1, <2>2, <3>1
      <4>2. (p - 1) \div PartLen = 0 /\ (p - 1) % PartLen = q - 1 BY <1>1, <2>5, <4>1
      <4> QED BY <3>1, <4>2 DEF Part, Within
    <3>2. CASE i = 2
      <4>1. p = PartLen + q /\ p - 1 >= PartLen BY <1>1, <2>2, <3>2
      <4>2. (p - 1) \div PartLen = 1 /\ (p - 1) % PartLen = q - 1 BY <1>1, <2>5, <4>1
      <4> QED BY <3>2, <4>2 DEF Part, Within
    <3> QED BY <2>1, <3>1, <3>2
  <2> QED BY <2>3, <2>6 DEF p
<1>4. ASSUME NEW p \in 1..(n * PartLen)
      PROVE  /\ Part(p) \in 1..n
             /\ Within(p) \in 1..PartLen
             /\ p = (Part(p) - 1) * PartLen + Within(p)
  <2>1. p \in Int /\ p - 1 \in 0..(n * PartLen - 1) BY <1>1
  <2>2. \/ /\ p - 1 < PartLen /\ (p - 1) \div PartLen = 0 /\ (p - 1) % PartLen = p - 1
        \/ /\ n = 2 /\ p - 1 >= PartLen /\ p - 1 < 2 * PartLen
           /\ (p - 1) \div PartLen = 1 /\ (p - 1) % PartLen = p - 1 - PartLen
    BY <1>2, <2>1
  <2>3. CASE /\ p - 1 < PartLen /\ (p - 1) \div PartLen = 0 /\ (p - 1) % PartLen = p - 1
    <3>1. Part(p) = 1 /\ Within(p) = p BY <2>1, <2>3 DEF Part, Within
    <3> QED BY <1>1, <2>1, <2>3, <3>1
  <2>4. CASE /\ n = 2 /\ p - 1 >= PartLen /\ p - 1 < 2 * PartLen
             /\ (p - 1) \div PartLen = 1 /\ (p - 1) % PartLen = p - 1 - PartLen
    <3>1. Part(p) = 2 /\ Within(p) = p - PartLen BY <1>1, <2>1, <2>4 DEF Part, Within
    <3> QED BY <1>1, <2>1, <2>4, <3>1
  <2> QED BY <2>2, <2>3, <2>4
<1> QED BY <1>3, <1>4

LEMMA ValuesParts ==
  ASSUME NEW t \in Types, NEW v
  PROVE  v \in Values(t) <=>
           /\ v = [i \in DOMAIN Layout[t] |-> v[i]]
           /\ \A i \in DOMAIN Layout[t] : v[i] \in PartValues(Layout[t][i])
BY DEF Values

(* The bytes of a value are those of its parts, one after the other.       *)
LEMMA BytesOfParts ==
  ASSUME NEW t \in Types, NEW v \in Values(t)
  PROVE  /\ to_bytes(t, v) \in [1..LEN(t) -> Byte]
         /\ \A i \in DOMAIN Layout[t] : Slice(to_bytes(t, v), i) = serialize_array(Layout[t][i], v[i])
<1> DEFINE buf == to_bytes(t, v)
           w(i) == serialize_array(Layout[t][i], v[i])
<1>1. PICK n \in {1, 2} : /\ Layout[t] \in [1..n -> Kinds]
                          /\ DOMAIN Layout[t] = 1..n
                          /\ LEN(t) = n * PartLen
  BY Layouts
<1>2. \A i \in 1..n : w(i) \in PartBytes
  BY <1>1, ValuesParts, PartWritten
<1>3. buf = [p \in 1..(n * PartLen) |-> w(Part(p))[Within(p)]] BY <1>1 DEF to_bytes
<1> HIDE DEF buf, w
<1>4. \A p \in 1..(n * PartLen) : buf[p] \in Byte
  BY <1>2, <1>3, Positions DEF PartBytes
<1>5. ASSUME NEW i \in 1..n PROVE Slice(buf, i) = w(i)
  <2>1. ASSUME NEW q \in 1..PartLen PROVE buf[(i - 1) * PartLen + q] = w(i)[q]
    BY <1>3, Positions
  <2>2. w(i) = [q \in 1..PartLen |-> w(i)[q]] BY <1>2 DEF PartBytes
  <2> QED BY <2>1, <2>2 DEF Slice
<1> QED BY <1>1, <1>3, <1>4, <1>5 DEF buf, w

(* from_bytes takes back what to_bytes gives.                              *)
LEMMA FromToBytes ==
  ASSUME NEW t \in Types, NEW v \in Values(t)
  PROVE  from_bytes(t, to_bytes(t, v)) = Ok(v)
<1> DEFINE buf == to_bytes(t, v)
           parts == [i \in DOMAIN Layout[t] |-> ParsePart(Layout[t][i], Slice(buf, i))]
<1>1. PICK n \in {1, 2} : /\ Layout[t] \in [1..n -> Kinds]
                          /\ DOMAIN Layout[t] = 1..n
                          /\ LEN(t) = n * PartLen
  BY Layouts
<1>2. Len(buf) = LEN(t)
  <2>1. LEN(t) \in Nat BY <1>1, EncodingAssumption
  <2>2. buf \in [1..LEN(t) -> Byte] BY BytesOfParts
  <2> HIDE DEF buf
  <2> QED BY <2>1, <2>2
<1>3. \A i \in DOMAIN Layout[t] : parts[i] = Ok(v[i])
  <2> SUFFICES ASSUME NEW i \in DOMAIN Layout[t] PROVE parts[i] = Ok(v[i]) OBVIOUS
  <2>1. Slice(buf, i) = serialize_array(Layout[t][i], v[i]) BY BytesOfParts
  <2>2. v[i] \in PartValues(Layout[t][i]) /\ Layout[t][i] \in Kinds BY <1>1, ValuesParts
  <2> HIDE DEF buf
  <2> QED BY <2>1, <2>2, PartWritten
<1> HIDE DEF buf
<1>4. DOMAIN parts = DOMAIN Layout[t] OBVIOUS
<1> HIDE DEF parts
<1>5. {i \in DOMAIN parts : ~parts[i].ok} = {} BY <1>3, <1>4, Results
<1>6. [i \in DOMAIN parts |-> parts[i].val] = v
  <2>1. v = [i \in DOMAIN Layout[t] |-> v[i]] BY ValuesParts
  <2>2. \A i \in DOMAIN Layout[t] : parts[i].val = v[i] BY <1>3, Results
  <2> QED BY <1>4, <2>1, <2>2
<1> QED BY <1>2, <1>5, <1>6 DEF from_bytes, parts, buf

(* What from_bytes accepts is a value of the type, and to_bytes gives the  *)
(* same bytes for it: every value has one encoding.                        *)
THEOREM CanonicalEncoding ==
  ASSUME NEW t \in Types, NEW buf \in [1..LEN(t) -> Byte], from_bytes(t, buf).ok
  PROVE  /\ from_bytes(t, buf) = Ok(from_bytes(t, buf).val)
         /\ from_bytes(t, buf).val \in Values(t)
         /\ to_bytes(t, from_bytes(t, buf).val) = buf
<1> DEFINE parts == [i \in DOMAIN Layout[t] |-> ParsePart(Layout[t][i], Slice(buf, i))]
           failed == {i \in DOMAIN parts : ~parts[i].ok}
           first == CHOOSE i \in failed : \A j \in failed : i <= j
           v == [i \in DOMAIN parts |-> parts[i].val]
<1>1. PICK n \in {1, 2} : /\ Layout[t] \in [1..n -> Kinds]
                          /\ DOMAIN Layout[t] = 1..n
                          /\ LEN(t) = n * PartLen
  BY Layouts
<1>2. from_bytes(t, buf) = IF Len(buf) # LEN(t) THEN Err("Deserialize")
                           ELSE IF failed # {} THEN parts[first] ELSE Ok(v)
  BY DEF from_bytes
<1>3. DOMAIN parts = 1..n BY <1>1
<1> HIDE DEF parts
<1>4. failed # {} => first \in failed
  <2>1. failed \subseteq {1, 2} BY <1>1, <1>3
  <2> HIDE DEF failed
  <2>2. CASE 1 \in failed
    <3>1. \A j \in failed : 1 <= j BY <2>1
    <3> QED BY <2>2, <3>1
  <2>3. CASE failed # {} /\ 1 \notin failed
    <3> HIDE DEF failed
    <3>1. failed = {2} BY <2>1, <2>3
    <3>2. \A j \in failed : 2 <= j BY <3>1
    <3> QED BY <3>1, <3>2
  <2> HIDE DEF failed
  <2> QED BY <2>2, <2>3
<1>5. failed = {} /\ from_bytes(t, buf) = Ok(v)
  <2>1. ~Err("Deserialize").ok BY Results
  <2>2. failed # {} => ~parts[first].ok BY <1>4
  <2> HIDE DEF failed, first, v
  <2> QED BY <1>2, <2>1, <2>2
<1>6. ASSUME NEW i \in 1..n
      PROVE  /\ v[i] \in PartValues(Layout[t][i])
             /\ serialize_array(Layout[t][i], v[i]) = Slice(buf, i)
  <2>1. Slice(buf, i) \in PartBytes
    <3>1. ASSUME NEW q \in 1..PartLen PROVE buf[(i - 1) * PartLen + q] \in Byte
      <4>1. (i - 1) * PartLen + q \in 1..LEN(t) BY <1>1, Positions
      <4> QED BY <4>1
    <3> QED BY <3>1 DEF Slice, PartBytes
  <2>2. parts[i] = ParsePart(Layout[t][i], Slice(buf, i)) BY <1>1 DEF parts
  <2>3. parts[i].ok /\ v[i] = parts[i].val /\ Layout[t][i] \in Kinds BY <1>1, <1>3, <1>5
  <2> QED BY <2>1, <2>2, <2>3, PartRead
<1>7. v \in Values(t)
  <2>1. DOMAIN Layout[t] = 1..n /\ v = [i \in 1..n |-> v[i]] BY <1>1, <1>3
  <2> HIDE DEF v
  <2> QED BY <1>6, <2>1, ValuesParts
<1> HIDE DEF v
<1>8. to_bytes(t, v) = buf
  <2>1. ASSUME NEW p \in 1..(n * PartLen)
        PROVE  serialize_array(Layout[t][Part(p)], v[Part(p)])[Within(p)] = buf[p]
    <3>1. /\ Part(p) \in 1..n /\ Within(p) \in 1..PartLen
          /\ p = (Part(p) - 1) * PartLen + Within(p)
      BY Positions
    <3>2. serialize_array(Layout[t][Part(p)], v[Part(p)]) = Slice(buf, Part(p)) BY <1>6, <3>1
    <3>3. Slice(buf, Part(p))[Within(p)] = buf[(Part(p) - 1) * PartLen + Within(p)]
      BY <3>1 DEF Slice
    <3> QED BY <3>1, <3>2, <3>3
  <2> QED BY <1>1, <2>1 DEF to_bytes
<1> QED BY <1>5, <1>7, <1>8, Results

(***************************************************************************)
(* Every step preserves IInv.                                              *)
(***************************************************************************)
LEMMA LengthIsNat == \A t \in Types : LEN(t) \in Nat
BY Layouts, EncodingAssumption

LEMMA InvSplit ==
  IInv <=> /\ type \in Types /\ origin \in Values(type)
           /\ held.ok => held = Ok(held.val) /\ held.val \in Values(type)
           /\ doc # Nothing => IsDoc(doc)
           /\ damage \in Nat
           /\ damage = 0 => held = Ok(origin)
           /\ doc # Nothing /\ damage = 0 =>
                doc = Document(doc.shape, to_bytes(type, origin))
BY DEF IInv, TypeOK, RelayedUnchanged, Untouched, IsDoc

(* The document of a value is a document and is read as that value.        *)
LEMMA ReadsBack ==
  ASSUME NEW t \in Types, NEW v \in Values(t), NEW shape \in Shapes
  PROVE  /\ IsDoc(Document(shape, to_bytes(t, v)))
         /\ deserialize(t, Document(shape, to_bytes(t, v))) = Ok(v)
<1> DEFINE buf == to_bytes(t, v)
           d == Document(shape, buf)
<1>1. LEN(t) \in Nat /\ buf \in [1..LEN(t) -> Byte] BY LengthIsNat, BytesOfParts
<1>2. from_bytes(t, buf) = Ok(v) BY FromToBytes
<1> HIDE DEF buf
<1>3. IsDoc(d) /\ Denotes(d, buf) BY <1>1, DocumentDenotes
<1> HIDE DEF d
<1>4. deser_fixed(LEN(t), d) = Ok(buf) BY <1>1, <1>3, ReadsDenoted
<1>5. deserialize(t, d) = Ok(v) BY <1>2, <1>4, Results DEF deserialize
<1> QED BY <1>3, <1>5 DEF d, buf

(* What is read from a document, of a type, is a value of that type, and   *)
(* the document denotes its bytes.                                         *)
LEMMA ReadCanonical ==
  ASSUME NEW t \in Types, NEW d, IsDoc(d), deserialize(t, d).ok
  PROVE  /\ deserialize(t, d) = Ok(deserialize(t, d).val)
         /\ deserialize(t, d).val \in Values(t)
         /\ Denotes(d, to_bytes(t, deserialize(t, d).val))
<1> DEFINE bytes == deser_fixed(LEN(t), d)
<1>1. bytes.ok /\ deserialize(t, d) = from_bytes(t, bytes.val) BY DEF deserialize
<1>2. bytes.val \in [1..LEN(t) -> Byte] /\ Denotes(d, bytes.val)
  BY <1>1, LengthIsNat, DenotesRead
<1> HIDE DEF bytes
<1> QED BY <1>1, <1>2, CanonicalEncoding

LEMMA SerializeInv ==
  ASSUME IInv, NEW shape \in Shapes, Serialize(shape)
  PROVE  IInv'
<1> DEFINE d == Document(shape, to_bytes(type, held.val))
<1>1. held.val \in Values(type) /\ type \in Types BY InvSplit DEF Serialize
<1>2. doc' = d /\ UNCHANGED <<type, origin, held, damage>> BY DEF Serialize
<1>3. IsDoc(d) BY <1>1, ReadsBack
<1>4. damage = 0 => held.val = origin BY InvSplit, Results
<1>5. damage = 0 => d = Document(d.shape, to_bytes(type, origin))
  BY <1>4 DEF Document
<1> HIDE DEF d
<1> QED BY <1>2, <1>3, <1>5, InvSplit
        DEF IInv, TypeOK, RelayedUnchanged, Untouched, IsDoc

(* A document that was tampered with is still a document.                  *)
LEMMA DamagedIsDoc ==
  ASSUME NEW d, IsDoc(d)
  PROVE  /\ \A i \in DOMAIN d.body, c \in Symbols(d) : IsDoc([d EXCEPT !.body[i] = c])
         /\ d.body # << >> => IsDoc([d EXCEPT !.body = SubSeq(@, 1, Len(@) - 1)])
         /\ \A c \in Symbols(d) : IsDoc([d EXCEPT !.body = Append(@, c)])
         /\ \A human \in BOOLEAN : IsDoc([d EXCEPT !.human = human])
<1>1. /\ d \in [human : BOOLEAN, shape : Shapes, body : Seq(Int)]
      /\ d.shape \notin {"str", "seq"} => d.body \in Seq(Byte)
  BY DEF IsDoc
<1>2. Symbols(d) \subseteq Int /\ (d.shape \notin {"str", "seq"} => Symbols(d) \subseteq Byte)
  <2>1. ByteBase \in Int /\ Byte \subseteq Int BY DigitAssumption DEF Byte, ByteBase
  <2>2. CASE d.shape = "str" BY <2>2 DEF Symbols, Zero, LowerA, UpperA
  <2>3. CASE d.shape = "seq" BY <2>1, <2>3 DEF Symbols
  <2>4. CASE d.shape \notin {"str", "seq"} BY <2>1, <2>4 DEF Symbols
  <2> QED BY <2>2, <2>3, <2>4
<1>3. ASSUME NEW body \in Seq(Int), d.shape \notin {"str", "seq"} => body \in Seq(Byte)
      PROVE  IsDoc([d EXCEPT !.body = body])
  BY <1>1, <1>3 DEF IsDoc
<1>4. ASSUME NEW i \in DOMAIN d.body, NEW c \in Symbols(d)
      PROVE  IsDoc([d EXCEPT !.body[i] = c])
  <2>1. [d.body EXCEPT ![i] = c] \in Seq(Int) BY <1>1, <1>2, ExceptSeq
  <2>2. d.shape \notin {"str", "seq"} => [d.body EXCEPT ![i] = c] \in Seq(Byte)
    BY <1>1, <1>2, ExceptSeq
  <2>3. [d EXCEPT !.body[i] = c] = [d EXCEPT !.body = [d.body EXCEPT ![i] = c]] OBVIOUS
  <2> QED BY <1>3, <2>1, <2>2, <2>3
<1>5. ASSUME d.body # << >>
      PROVE  IsDoc([d EXCEPT !.body = SubSeq(@, 1, Len(@) - 1)])
  <2> DEFINE body == SubSeq(d.body, 1, Len(d.body) - 1)
  <2>1. body \in Seq(Int) BY <1>1, SubSeqProperties
  <2>2. d.shape \notin {"str", "seq"} => body \in Seq(Byte) BY <1>1, SubSeqProperties
  <2> QED BY <1>3, <2>1, <2>2
<1>6. ASSUME NEW c \in Symbols(d) PROVE IsDoc([d EXCEPT !.body = Append(@, c)])
  <2>1. Append(d.body, c) \in Seq(Int) BY <1>1, <1>2
  <2>2. d.shape \notin {"str", "seq"} => Append(d.body, c) \in Seq(Byte) BY <1>1, <1>2
  <2> QED BY <1>3, <2>1, <2>2
<1>7. \A human \in BOOLEAN : IsDoc([d EXCEPT !.human = human]) BY <1>1 DEF IsDoc
<1> QED BY <1>4, <1>5, <1>6, <1>7

LEMMA DamageInv == ASSUME IInv, Damage PROVE IInv'
<1>1. doc # Nothing /\ IsDoc(doc) /\ damage \in Nat BY InvSplit DEF Damage
<1>2. damage' = damage + 1 /\ UNCHANGED <<type, origin, held>> BY DEF Damage
<1>3. IsDoc(doc')
  <2>1. \A i \in DOMAIN doc.body, c \in Symbols(doc) : IsDoc([doc EXCEPT !.body[i] = c])
    BY <1>1, DamagedIsDoc
  <2>2. doc.body # << >> => IsDoc([doc EXCEPT !.body = SubSeq(@, 1, Len(@) - 1)])
    BY <1>1, DamagedIsDoc
  <2>3. \A c \in Symbols(doc) : IsDoc([doc EXCEPT !.body = Append(@, c)])
    BY <1>1, DamagedIsDoc
  <2>4. \A human \in BOOLEAN : IsDoc([doc EXCEPT !.human = human]) BY <1>1, DamagedIsDoc
  <2>5. CASE \E i \in DOMAIN doc.body, c \in Symbols(doc) : doc' = [doc EXCEPT !.body[i] = c]
    BY <2>1, <2>5
  <2>6. CASE doc.body # << >> /\ doc' = [doc EXCEPT !.body = SubSeq(@, 1, Len(@) - 1)]
    BY <2>2, <2>6
  <2>7. CASE \E c \in Symbols(doc) : doc' = [doc EXCEPT !.body = Append(@, c)]
    BY <2>3, <2>7
  <2>8. CASE \E human \in BOOLEAN : human # doc.human /\ doc' = [doc EXCEPT !.human = human]
    BY <2>4, <2>8
  <2> QED BY <2>5, <2>6, <2>7, <2>8 DEF Damage
<1>4. damage' \in Nat /\ damage' # 0 BY <1>1, <1>2
<1> QED BY <1>2, <1>3, <1>4, InvSplit
        DEF IInv, TypeOK, RelayedUnchanged, Untouched, IsDoc

LEMMA DeserializeInv == ASSUME IInv, Deserialize PROVE IInv'
<1> DEFINE read == deserialize(type, doc)
<1>1. /\ held' = read /\ doc' = Nothing /\ UNCHANGED <<type, origin, damage>>
      /\ doc # Nothing
  BY DEF Deserialize
<1>2. type \in Types /\ origin \in Values(type) /\ IsDoc(doc) BY <1>1, InvSplit
<1>3. read.ok => read = Ok(read.val) /\ read.val \in Values(type) BY <1>2, ReadCanonical
<1>4. damage = 0 => read = Ok(origin)
  <2> SUFFICES ASSUME damage = 0 PROVE read = Ok(origin) OBVIOUS
  <2>1. doc = Document(doc.shape, to_bytes(type, origin)) BY <1>1, InvSplit
  <2>2. doc.shape \in Shapes BY <1>2 DEF IsDoc
  <2>3. deserialize(type, Document(doc.shape, to_bytes(type, origin))) = Ok(origin)
    BY <1>2, <2>2, ReadsBack
  <2> QED BY <2>1, <2>3
<1> HIDE DEF read
<1> QED BY <1>1, <1>2, <1>3, <1>4, InvSplit
        DEF IInv, TypeOK, RelayedUnchanged, Untouched, IsDoc

(***************************************************************************)
(* The theorems.                                                           *)
(***************************************************************************)
(* Whatever was written, damaged and read, what is held is a value of its  *)
(* type, and without damage both it and the document under way stand for   *)
(* the value that was there at first.                                      *)
THEOREM InductiveInvariant == Spec => []IInv
<1>1. Init => IInv
  <2> SUFFICES ASSUME Init PROVE IInv OBVIOUS
  <2>1. type \in Types /\ origin \in Values(type) /\ held = Ok(origin) /\ doc = Nothing
        /\ damage = 0
    BY DEF Init
  <2> QED BY <2>1, Results, InvSplit
<1>2. IInv /\ [Next]_vars => IInv'
  <2> SUFFICES ASSUME IInv, [Next]_vars PROVE IInv' OBVIOUS
  <2>1. CASE UNCHANGED vars
    BY <2>1 DEF vars, IInv, TypeOK, RelayedUnchanged, Untouched
  <2> QED BY <2>1, SerializeInv, DamageInv, DeserializeInv DEF Next
<1> QED BY <1>1, <1>2, PTL DEF Spec

(* What a process has parsed from any chain of documents, tampered with or *)
(* not, is a value of its type.                                            *)
THEOREM TypeCorrect == Spec => []TypeOK
<1>1. IInv => TypeOK BY DEF IInv
<1> QED BY <1>1, InductiveInvariant, PTL

(* A value passed on any number of times, in any formats, arrives as it    *)
(* was.                                                                    *)
THEOREM RelayKeeps == Spec => []RelayedUnchanged
<1>1. IInv => RelayedUnchanged BY DEF IInv
<1> QED BY <1>1, InductiveInvariant, PTL

(* serde is no way around from_bytes: a document is read as the bytes that *)
(* it denotes, and refused if it denotes none.                             *)
THEOREM ReadsFaithfully == Spec => []ReadsAsFromBytes
<1>1. IInv => ReadsAsFromBytes
  <2> SUFFICES ASSUME IInv, doc # Nothing
               PROVE  LET read == deserialize(type, doc)
                          meant == {bytes \in [1..LEN(type) -> Byte] : Denotes(doc, bytes)}
                      IN  IF meant = {} THEN ~read.ok
                          ELSE \A bytes \in meant : read = from_bytes(type, bytes)
    BY DEF ReadsAsFromBytes
  <2> DEFINE bytes == deser_fixed(LEN(type), doc)
  <2>1. IsDoc(doc) /\ LEN(type) \in Nat BY InvSplit, LengthIsNat
  <2>2. \A b \in [1..LEN(type) -> Byte] : Denotes(doc, b) => bytes = Ok(b)
    BY <2>1, ReadsDenoted
  <2>3. bytes.ok => bytes.val \in [1..LEN(type) -> Byte] /\ Denotes(doc, bytes.val)
    BY <2>1, DenotesRead
  <2>4. deserialize(type, doc) = IF bytes.ok THEN from_bytes(type, bytes.val) ELSE bytes
    BY DEF deserialize
  <2> HIDE DEF bytes
  <2> QED BY <2>2, <2>3, <2>4, Results
<1> QED BY <1>1, InductiveInvariant, PTL

(* The encoding is canonical in every format: what is accepted denotes the *)
(* bytes that to_bytes gives of the value read.                            *)
THEOREM CanonicalDocuments == Spec => []AcceptedIsCanonical
<1>1. IInv => AcceptedIsCanonical BY InvSplit, ReadCanonical DEF AcceptedIsCanonical
<1> QED BY <1>1, InductiveInvariant, PTL
=============================================================================
