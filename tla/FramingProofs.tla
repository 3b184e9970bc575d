---- MODULE FramingProofs ----
(***************************************************************************)
(* The byte strings of module Framing determine what was hashed.           *)
(*                                                                         *)
(* A length prefix makes concatenation cancellable: two prefixed strings   *)
(* that begin two equal byte strings are equal, and so is what follows     *)
(* them.  Each kind of transcript then binds its own values, and two kinds *)
(* that share a hash differ in their first two bytes or in what is left.   *)
(***************************************************************************)
EXTENDS Framing, SequenceTheorems, TLAPS

Bytes == Seq(Byte)

(***************************************************************************)
(* Arithmetic of the two-byte prefix.                                      *)
(***************************************************************************)
LEMMA DivModBase ==
  ASSUME NEW x \in Nat
  PROVE  /\ x % Base \in Byte
         /\ x \div Base \in Nat
         /\ x = Base * (x \div Base) + (x % Base)
BY BaseAssumption DEF Byte

LEMMA U16Type == U16 \in Nat /\ U16 > 1
<1>1. Base * Base \in Nat BY BaseAssumption
<1>2. Base * Base >= 2 * Base BY BaseAssumption
<1> QED BY <1>1, <1>2, BaseAssumption DEF U16

LEMMA I2ospType ==
  ASSUME NEW x \in Nat
  PROVE  i2osp_2(x) \in Bytes /\ Len(i2osp_2(x)) = 2
<1>1. x \div Base \in Nat /\ x % Base \in Byte BY DivModBase
<1>2. (x \div Base) % Base \in Byte BY <1>1, DivModBase
<1> QED BY <1>1, <1>2 DEF i2osp_2, Bytes

(* Below U16 the high byte is not reduced.                                 *)
LEMMA HighByte ==
  ASSUME NEW x \in 0..(U16 - 1)
  PROVE  (x \div Base) % Base = x \div Base
<1> DEFINE q == x \div Base
<1>1. x \in Nat /\ x < Base * Base BY U16Type, BaseAssumption DEF U16
<1>2. q \in Nat /\ x = Base * q + (x % Base) /\ x % Base \in Nat
  BY <1>1, DivModBase DEF Byte
<1> HIDE DEF q
<1>3. q < Base
  <2>1. SUFFICES ASSUME q >= Base PROVE FALSE BY <1>2, BaseAssumption
  <2>2. Base * q >= Base * Base BY <1>2, <2>1, BaseAssumption
  <2>3. Base * q \in Int /\ Base * Base \in Int BY <1>2, BaseAssumption
  <2> QED BY <1>1, <1>2, <2>2, <2>3
<1>4. q % Base = q BY <1>2, <1>3, BaseAssumption
<1> QED BY <1>4 DEF q

LEMMA I2ospInjective ==
  ASSUME NEW x \in 0..(U16 - 1), NEW y \in 0..(U16 - 1), i2osp_2(x) = i2osp_2(y)
  PROVE  x = y
<1>1. x \in Nat /\ y \in Nat BY U16Type
<1>2. x % Base = y % Base /\ (x \div Base) % Base = (y \div Base) % Base
  BY DEF i2osp_2
<1>3. x \div Base = y \div Base BY <1>2, HighByte
<1>4. x = Base * (x \div Base) + (x % Base) /\ y = Base * (y \div Base) + (y % Base)
  BY <1>1, DivModBase
<1> QED BY <1>2, <1>3, <1>4

\* Quotient and remainder are the only ones there are.
LEMMA DivModUnique ==
  ASSUME NEW n \in Nat \ {0}, NEW a \in Nat, NEW l \in 0..(n - 1)
  PROVE  (n * a + l) \div n = a /\ (n * a + l) % n = l
<1> DEFINE x == n * a + l
           d == x \div n
           r == x % n
<1>0. n * a \in Nat BY Z3
<1>1. x \in Nat BY <1>0
<1>2. d \in Nat /\ r \in 0..(n - 1) /\ x = n * d + r BY <1>1
<1>3. n * a + l = n * d + r BY <1>2
<1> HIDE DEF x, d, r
<1>4. a = d
  <2>1. CASE a > d
    <3>1. n * a >= n * (d + 1) BY <1>2, <2>1
    <3>2. n * (d + 1) = n * d + n BY <1>2
    <3>3. n * d \in Nat BY <1>2
    <3> QED BY <1>0, <1>2, <1>3, <3>1, <3>2, <3>3
  <2>2. CASE d > a
    <3>1. n * d >= n * (a + 1) BY <1>2, <2>2
    <3>2. n * (a + 1) = n * a + n OBVIOUS
    <3>3. n * d \in Nat BY <1>2
    <3> QED BY <1>0, <1>2, <1>3, <3>1, <3>2, <3>3
  <2> QED BY <1>2, <2>1, <2>2
<1>5. l = r
  <2>1. n * a = n * d BY <1>4
  <2>2. n * d \in Nat BY <1>0, <2>1
  <2> QED BY <1>0, <1>2, <1>3, <2>1, <2>2
<1> QED BY <1>4, <1>5 DEF d, r, x

(* What the cast to u16 drops.                                             *)
LEMMA I2ospWraps ==
  ASSUME NEW x \in Nat
  PROVE  x % U16 \in 0..(U16 - 1) /\ i2osp_2(x) = i2osp_2(x % U16)
<1> DEFINE q == x \div U16
           m == x % U16
           h == m \div Base
           l == m % Base
<1>1. q \in Nat /\ m \in 0..(U16 - 1) /\ x = U16 * q + m BY U16Type
<1>2. m \in Nat BY <1>1, U16Type
<1>3. h \in Nat /\ l \in 0..(Base - 1) /\ m = Base * h + l
  BY <1>2, DivModBase DEF Byte
<1>4. h % Base \in 0..(Base - 1) /\ h % Base = h
  BY <1>1, <1>3, HighByte, DivModBase DEF Byte
<1> HIDE DEF q, m, h, l
<1>5. h \in 0..(Base - 1) BY <1>4
<1>6. U16 * q = Base * (Base * q) BY <1>1, BaseAssumption DEF U16
<1>7. Base * q \in Nat /\ Base * q + h \in Nat BY <1>1, <1>3, BaseAssumption
<1>8. Base * (Base * q + h) = Base * (Base * q) + Base * h
  BY <1>1, <1>3, <1>7, BaseAssumption
<1>9. x = Base * (Base * q + h) + l
  <2>1. Base * (Base * q) \in Nat /\ Base * h \in Nat BY <1>3, <1>7, BaseAssumption
  <2> QED BY <1>1, <1>3, <1>6, <1>8, <2>1
<1>10. x \div Base = Base * q + h /\ x % Base = l
  <2>1. Base \in Nat \ {0} BY BaseAssumption
  <2> DEFINE a == Base * q + h
  <2>2. a \in Nat /\ x = Base * a + l BY <1>7, <1>9
  <2> HIDE DEF a
  <2>3. (Base * a + l) \div Base = a /\ (Base * a + l) % Base = l
    BY <1>3, <2>1, <2>2, DivModUnique
  <2> QED BY <2>2, <2>3 DEF a
<1>11. (x \div Base) % Base = h
  <2>1. Base \in Nat \ {0} BY BaseAssumption
  <2>2. (Base * q + h) % Base = h BY <1>1, <1>5, <2>1, DivModUnique
  <2> QED BY <1>10, <2>2
<1>12. i2osp_2(x) = <<h, l>> BY <1>10, <1>11 DEF i2osp_2
<1>13. i2osp_2(m) = <<h, l>> BY <1>4 DEF i2osp_2, h, l
<1> QED BY <1>1, <1>12, <1>13 DEF m

(* Of a number that nothing bounds, two bytes tell the residue.            *)
LEMMA I2ospTells ==
  ASSUME NEW x \in Nat, NEW y \in Nat
  PROVE  i2osp_2(x) = i2osp_2(y) <=> x % U16 = y % U16
BY I2ospWraps, I2ospInjective

(***************************************************************************)
(* Cancelling the beginning of a concatenation.                            *)
(***************************************************************************)
LEMMA Concat ==
  ASSUME NEW s \in Bytes, NEW t \in Bytes
  PROVE  /\ s \o t \in Bytes
         /\ Len(s) \in Nat /\ Len(t) \in Nat
         /\ Len(s \o t) = Len(s) + Len(t)
         /\ \A i \in 1..Len(s) : (s \o t)[i] = s[i]
<1>1. /\ s \o t \in Seq(Byte)
      /\ Len(s \o t) = Len(s) + Len(t)
      /\ \A i \in 1..(Len(s) + Len(t)) :
           (s \o t)[i] = IF i <= Len(s) THEN s[i] ELSE t[i - Len(s)]
  BY ConcatProperties DEF Bytes
<1>2. Len(s) \in Nat /\ Len(t) \in Nat BY LenProperties DEF Bytes
<1> QED BY <1>1, <1>2 DEF Bytes

LEMMA CancelPrefix ==
  ASSUME NEW a \in Bytes, NEW b \in Bytes, NEW s \in Bytes, NEW t \in Bytes,
         Len(a) = Len(b), a \o s = b \o t
  PROVE  a = b /\ s = t
<1>1. \A i \in 1..Len(a) : (a \o s)[i] = a[i] BY Concat
<1>2. \A i \in 1..Len(b) : (b \o t)[i] = b[i] BY Concat
<1>3. \A i \in 1..Len(a) : a[i] = b[i] BY <1>1, <1>2
<1>4. a = b BY <1>3, SeqEqual DEF Bytes
<1>5. \A u, v, w \in Seq(Byte) : u \o v = u \o w => v = w BY ConcatSimplifications
<1> QED BY <1>4, <1>5 DEF Bytes

(* What the prefix is for: it says where the string ends.                  *)
LEMMA LpType ==
  ASSUME NEW x \in Bytes
  PROVE  lp(x) \in Bytes /\ Len(lp(x)) >= 2
<1>1. Len(x) \in Nat BY LenProperties DEF Bytes
<1> DEFINE u == i2osp_2(Len(x))
<1>2. u \in Bytes /\ Len(u) = 2 BY <1>1, I2ospType
<1> HIDE DEF u
<1>3. u \o x \in Bytes /\ Len(u \o x) = Len(u) + Len(x) BY <1>2, Concat
<1>4. Len(u \o x) >= 2 BY <1>1, <1>2, <1>3
<1> QED BY <1>3, <1>4 DEF lp, u

LEMMA LpCancel ==
  ASSUME NEW x \in Bytes, NEW y \in Bytes, NEW s \in Bytes, NEW t \in Bytes,
         Len(x) < U16, Len(y) < U16, lp(x) \o s = lp(y) \o t
  PROVE  x = y /\ s = t
<1>1. Len(x) \in 0..(U16 - 1) /\ Len(y) \in 0..(U16 - 1)
  BY U16Type, LenProperties DEF Bytes
<1> DEFINE u == i2osp_2(Len(x))
           v == i2osp_2(Len(y))
<1>2. u \in Bytes /\ v \in Bytes /\ Len(u) = Len(v) BY <1>1, I2ospType, U16Type
<1>3. (u \o x) \o s = (v \o y) \o t BY DEF lp
<1> HIDE DEF u, v
<1>4. u \o (x \o s) = v \o (y \o t)
  <2>1. u \in Seq(Byte) /\ x \in Seq(Byte) /\ s \in Seq(Byte) BY <1>2 DEF Bytes
  <2>2. v \in Seq(Byte) /\ y \in Seq(Byte) /\ t \in Seq(Byte) BY <1>2 DEF Bytes
  <2>3. (u \o x) \o s = u \o (x \o s) BY <2>1, ConcatAssociative, SMT
  <2>4. (v \o y) \o t = v \o (y \o t) BY <2>2, ConcatAssociative, SMT
  <2> QED BY <1>3, <2>3, <2>4
<1>5. x \o s \in Bytes /\ y \o t \in Bytes BY Concat
<1>6. u = v /\ x \o s = y \o t
  <2> DEFINE d == x \o s
             e == y \o t
  <2>1. d \in Bytes /\ e \in Bytes /\ u \o d = v \o e BY <1>4, <1>5
  <2> HIDE DEF d, e
  <2>2. u = v /\ d = e BY <1>2, <2>1, CancelPrefix
  <2> QED BY <2>2 DEF d, e
<1>7. Len(x) = Len(y) BY <1>1, <1>6, I2ospInjective DEF u, v
<1> QED BY <1>6, <1>7, CancelPrefix

LEMMA LpInjective ==
  ASSUME NEW x \in Bytes, NEW y \in Bytes, Len(x) < U16, Len(y) < U16, lp(x) = lp(y)
  PROVE  x = y
<1>1. Len(x) \in 0..(U16 - 1) /\ Len(y) \in 0..(U16 - 1)
  BY U16Type, LenProperties DEF Bytes
<1> DEFINE u == i2osp_2(Len(x))
           v == i2osp_2(Len(y))
<1>2. u \in Bytes /\ v \in Bytes /\ Len(u) = Len(v) BY <1>1, I2ospType, U16Type
<1>3. u \o x = v \o y BY DEF lp
<1> HIDE DEF u, v
<1> QED BY <1>2, <1>3, CancelPrefix

\* How a transcript begins.
Head2(m) == <<m[1], m[2]>>

LEMMA ConcatHead ==
  ASSUME NEW a \in Bytes, NEW s \in Bytes, Len(a) >= 2
  PROVE  Head2(a \o s) = Head2(a)
<1>1. 1 \in 1..Len(a) /\ 2 \in 1..Len(a) BY Concat
<1>2. \A i \in 1..Len(a) : (a \o s)[i] = a[i] BY Concat
<1>3. (a \o s)[1] = a[1] /\ (a \o s)[2] = a[2] BY <1>1, <1>2
<1> QED BY <1>3 DEF Head2

LEMMA LpHead ==
  ASSUME NEW x \in Bytes, NEW s \in Bytes
  PROVE  Head2(lp(x) \o s) = i2osp_2(Len(x))
<1> DEFINE u == i2osp_2(Len(x))
<1>1. Len(x) \in Nat BY LenProperties DEF Bytes
<1>2. u \in Bytes /\ Len(u) = 2 BY <1>1, I2ospType
<1>3. Head2(u) = u BY DEF Head2, u, i2osp_2
<1> HIDE DEF u
<1>4. Head2(u \o x) = u BY <1>2, <1>3, ConcatHead
<1>5. lp(x) \in Bytes /\ Len(lp(x)) >= 2 BY LpType
<1>6. Head2(lp(x) \o s) = Head2(lp(x)) BY <1>5, ConcatHead
<1>7. lp(x) = u \o x BY DEF lp, u
<1> QED BY <1>4, <1>6, <1>7 DEF u

(***************************************************************************)
(* What is hashed.                                                         *)
(***************************************************************************)
LEMMA CheckedType ==
  ASSUME NEW x \in Checked
  PROVE  x \in Strings /\ x \in Bytes /\ Len(x) < U16
<1>1. x \in Bytes /\ LpLenOk(Len(x)) /\ x \in Strings
  BY FramingAssumption DEF Checked, Bytes
<1>2. Len(x) \in Nat BY <1>1, LenProperties DEF Bytes
<1> QED BY <1>1, <1>2, U16Type DEF LpLenOk, MAX_LP_LEN

LEMMA FixedLength ==
  ASSUME NEW n \in Nat, NEW e \in [1..n -> Byte]
  PROVE  e \in Bytes /\ Len(e) = n
BY DEF Bytes

LEMMA ElementType ==
  ASSUME NEW e \in Elements
  PROVE  e \in Bytes /\ Len(e) = ELEMENT_LEN /\ Len(e) < U16
<1>1. ELEMENT_LEN \in Nat /\ ELEMENT_LEN < U16 BY FramingAssumption, U16Type
<1>2. e \in [1..ELEMENT_LEN -> Byte] BY FramingAssumption
<1> QED BY <1>1, <1>2, FixedLength

LEMMA DigestType ==
  ASSUME NEW e \in Digests
  PROVE  e \in Bytes /\ Len(e) = HASH_LEN /\ Len(e) < U16
<1>1. HASH_LEN \in Nat /\ HASH_LEN < U16 BY FramingAssumption, U16Type
<1>2. e \in [1..HASH_LEN -> Byte] BY FramingAssumption
<1> QED BY <1>1, <1>2, FixedLength

LEMMA LabelType ==
  /\ INFO \in Bytes /\ FINALIZE \in Bytes /\ CHALLENGE \in Bytes
  /\ COMPOSITE \in Bytes /\ SEED_DST \in Bytes /\ Len(SEED_DST) < U16
BY FramingAssumption DEF Bytes

\* A string with its prefix in front of the rest of a transcript.
LEMMA LpConcat ==
  ASSUME NEW x \in Bytes, NEW s \in Bytes
  PROVE  lp(x) \o s \in Bytes /\ Len(lp(x) \o s) >= 2
<1>1. lp(x) \in Bytes /\ Len(lp(x)) >= 2 BY LpType
<1>2. /\ lp(x) \o s \in Bytes
      /\ Len(lp(x)) \in Nat /\ Len(s) \in Nat
      /\ Len(lp(x) \o s) = Len(lp(x)) + Len(s)
  BY <1>1, Concat
<1> QED BY <1>1, <1>2

(***************************************************************************)
(* Each kind of transcript binds its values.                               *)
(***************************************************************************)
LEMMA InfoBinds ==
  ASSUME NEW x \in Checked, NEW y \in Checked, framed_info(x) = framed_info(y)
  PROVE  x = y
<1>1. x \in Bytes /\ y \in Bytes /\ Len(x) < U16 /\ Len(y) < U16 BY CheckedType
<1>2. lp(x) \in Bytes /\ lp(y) \in Bytes BY <1>1, LpType
<1>3. lp(x) = lp(y) BY <1>2, LabelType, CancelPrefix DEF framed_info
<1> QED BY <1>1, <1>3, LpInjective

LEMMA FinalizeBinds ==
  ASSUME NEW x \in Checked, NEW y \in Checked, NEW i \in Checked, NEW j \in Checked,
         NEW m \in Elements, NEW n \in Elements,
         finalize_from(lp_hasher(x), i, m) = finalize_from(lp_hasher(y), j, n)
  PROVE  x = y /\ i = j /\ m = n
<1>1. x \in Bytes /\ y \in Bytes /\ Len(x) < U16 /\ Len(y) < U16 BY CheckedType
<1>2. i \in Bytes /\ j \in Bytes /\ Len(i) < U16 /\ Len(j) < U16 BY CheckedType
<1>3. m \in Bytes /\ n \in Bytes /\ Len(m) < U16 /\ Len(n) < U16 BY ElementType
<1> DEFINE s == lp(m) \o FINALIZE
           t == lp(n) \o FINALIZE
<1>4. s \in Bytes /\ t \in Bytes BY <1>3, LpConcat, LabelType
<1>5. s = t => m = n BY <1>3, LabelType, LpCancel
<1>6. lp(x) \o (lp(i) \o s) = lp(y) \o (lp(j) \o t) BY DEF finalize_from, lp_hasher
<1> HIDE DEF s, t
<1>7. lp(i) \o s \in Bytes /\ lp(j) \o t \in Bytes BY <1>2, <1>4, LpConcat
<1>8. x = y /\ lp(i) \o s = lp(j) \o t BY <1>1, <1>6, <1>7, LpCancel
<1>9. i = j /\ s = t BY <1>2, <1>4, <1>8, LpCancel
<1> QED BY <1>5, <1>8, <1>9

LEMMA DeriveBinds ==
  ASSUME NEW s \in KeySeeds, NEW t \in KeySeeds, NEW i \in Checked, NEW j \in Checked,
         NEW c \in Counters, NEW d \in Counters,
         derive_input(s, i, c) = derive_input(t, j, d)
  PROVE  s = t /\ i = j /\ c = d
<1>1. s \in [1..SEED_LEN -> Byte] /\ t \in [1..SEED_LEN -> Byte] /\ SEED_LEN \in Nat
  BY FramingAssumption
<1>2. s \in Bytes /\ t \in Bytes /\ Len(s) = SEED_LEN /\ Len(t) = SEED_LEN
  BY <1>1, FixedLength
<1>3. i \in Bytes /\ j \in Bytes /\ Len(i) < U16 /\ Len(j) < U16 BY CheckedType
<1> DEFINE u == <<c>>
           v == <<d>>
<1>4. u \in Bytes /\ v \in Bytes /\ (u = v => c = d) BY FramingAssumption DEF Bytes
<1>5. s \o (lp(i) \o u) = t \o (lp(j) \o v) BY DEF derive_input
<1> HIDE DEF u, v
<1> DEFINE p == lp(i) \o u
           q == lp(j) \o v
<1>6. p \in Bytes /\ q \in Bytes BY <1>3, <1>4, LpConcat
<1>7. s \o p = t \o q BY <1>5
<1>8. p = q => i = j /\ u = v BY <1>3, <1>4, LpCancel
<1> HIDE DEF p, q
<1>9. s = t /\ p = q BY <1>2, <1>6, <1>7, CancelPrefix
<1> QED BY <1>4, <1>8, <1>9

LEMMA SeedBinds ==
  ASSUME NEW a \in Elements, NEW b \in Elements, composite_seed(a) = composite_seed(b)
  PROVE  a = b
<1>1. a \in Bytes /\ b \in Bytes /\ Len(a) < U16 /\ Len(b) < U16 BY ElementType
<1>2. lp(SEED_DST) \in Bytes BY LabelType, LpType
<1>3. lp(a) \o lp(SEED_DST) = lp(b) \o lp(SEED_DST) BY DEF composite_seed
<1> QED BY <1>1, <1>2, <1>3, LpCancel

(* Of the index, only what its two bytes tell.                             *)
LEMMA WeightBinds ==
  ASSUME NEW r \in Digests, NEW s \in Digests, NEW i \in Indices, NEW j \in Indices,
         NEW a \in Elements, NEW b \in Elements, NEW c \in Elements, NEW d \in Elements,
         composite_di(r, i, a, c) = composite_di(s, j, b, d)
  PROVE  r = s /\ i % U16 = j % U16 /\ a = b /\ c = d
<1>1. r \in Bytes /\ s \in Bytes /\ Len(r) < U16 /\ Len(s) < U16 BY DigestType
<1>2. a \in Bytes /\ b \in Bytes /\ Len(a) < U16 /\ Len(b) < U16 BY ElementType
<1>3. c \in Bytes /\ d \in Bytes /\ Len(c) < U16 /\ Len(d) < U16 BY ElementType
<1>4. i \in Nat /\ j \in Nat BY DEF Indices
<1>5. /\ i2osp_2(i) \in Bytes /\ Len(i2osp_2(i)) = 2
      /\ i2osp_2(j) \in Bytes /\ Len(i2osp_2(j)) = 2
  BY <1>4, I2ospType
<1>6. i2osp_2(i) = i2osp_2(j) => i % U16 = j % U16 BY <1>4, I2ospTells
<1> DEFINE p3 == lp(c) \o COMPOSITE
           q3 == lp(d) \o COMPOSITE
           p2 == lp(a) \o p3
           q2 == lp(b) \o q3
           p1 == i2osp_2(i) \o p2
           q1 == i2osp_2(j) \o q2
<1>7. p3 \in Bytes /\ q3 \in Bytes /\ (p3 = q3 => c = d)
  BY <1>3, LabelType, LpConcat, LpCancel
<1> HIDE DEF p3, q3
<1>8. p2 \in Bytes /\ q2 \in Bytes /\ (p2 = q2 => a = b /\ p3 = q3)
  BY <1>2, <1>7, LpConcat, LpCancel
<1> HIDE DEF p2, q2
<1>9. p1 \in Bytes /\ q1 \in Bytes BY <1>5, <1>8, Concat
<1>10. p1 = q1 => i2osp_2(i) = i2osp_2(j) /\ p2 = q2 BY <1>5, <1>8, CancelPrefix
<1>11. lp(r) \o p1 = lp(s) \o q1 BY DEF composite_di, p2, q2, p3, q3
<1> HIDE DEF p1, q1
<1>12. r = s /\ p1 = q1 BY <1>1, <1>9, <1>11, LpCancel
<1> QED BY <1>6, <1>7, <1>8, <1>10, <1>12

(* And pairs whose indices are 2^16 apart are weighed alike.               *)
LEMMA WeightWraps ==
  ASSUME NEW r \in Digests, NEW i \in Indices, NEW j \in Indices,
         NEW a \in Elements, NEW c \in Elements, i % U16 = j % U16
  PROVE  composite_di(r, i, a, c) = composite_di(r, j, a, c)
<1>1. i \in Nat /\ j \in Nat BY DEF Indices
<1>2. i2osp_2(i) = i2osp_2(j) BY <1>1, I2ospTells
<1> QED BY <1>2 DEF composite_di

LEMMA ElementCancel ==
  ASSUME NEW a \in Elements, NEW b \in Elements, NEW s \in Bytes, NEW t \in Bytes
  PROVE  /\ lp(a) \o s \in Bytes /\ lp(b) \o t \in Bytes
         /\ lp(a) \o s = lp(b) \o t => a = b /\ s = t
<1>1. a \in Bytes /\ b \in Bytes /\ Len(a) < U16 /\ Len(b) < U16 BY ElementType
<1> QED BY <1>1, LpConcat, LpCancel

(***************************************************************************)
(* Kinds that share a hash are told apart.                                 *)
(***************************************************************************)
(* By how they begin: "In", the length of a digest, that of an element.    *)
LEMMA InfoHead ==
  ASSUME NEW x \in Checked
  PROVE  Head2(framed_info(x)) = Head2(INFO)
<1>1. lp(x) \in Bytes BY CheckedType, LpType
<1> QED BY <1>1, LabelType, DomainAssumption, ConcatHead DEF framed_info

LEMMA WeightHead ==
  ASSUME NEW r \in Digests, NEW i \in Indices, NEW a \in Elements, NEW b \in Elements
  PROVE  Head2(composite_di(r, i, a, b)) = i2osp_2(HASH_LEN)
<1> DEFINE s1 == lp(a) \o (lp(b) \o COMPOSITE)
           s == i2osp_2(i) \o s1
<1>1. s1 \in Bytes BY ElementType, LabelType, LpConcat
<1>2. i \in Nat BY DEF Indices
<1> HIDE DEF s1
<1>3. s \in Bytes BY <1>1, <1>2, I2ospType, Concat
<1>4. composite_di(r, i, a, b) = lp(r) \o s BY DEF composite_di, s1
<1> HIDE DEF s
<1>5. Head2(lp(r) \o s) = i2osp_2(Len(r)) BY <1>3, DigestType, LpHead
<1> QED BY <1>4, <1>5, DigestType

LEMMA ChallengeHead ==
  ASSUME NEW a0 \in Elements, NEW a1 \in Elements, NEW a2 \in Elements,
         NEW a3 \in Elements, NEW a4 \in Elements
  PROVE  Head2(challenge(a0, a1, a2, a3, a4)) = i2osp_2(ELEMENT_LEN)
<1> DEFINE s3 == lp(a3) \o (lp(a4) \o CHALLENGE)
           s == lp(a1) \o (lp(a2) \o s3)
<1>1. s3 \in Bytes BY ElementType, LabelType, LpConcat
<1> HIDE DEF s3
<1>2. s \in Bytes BY <1>1, ElementType, LpConcat
<1>3. challenge(a0, a1, a2, a3, a4) = lp(a0) \o s BY DEF challenge, s3
<1> HIDE DEF s
<1>4. Head2(lp(a0) \o s) = i2osp_2(Len(a0)) BY <1>2, ElementType, LpHead
<1> QED BY <1>3, <1>4, ElementType

(* By what is left when the two strings of a seed are read as input and    *)
(* info: nothing, where an output has an element still to come.            *)
LEMMA DigestHashesDiffer ==
  ASSUME NEW x \in Checked, NEW i \in Checked, NEW n \in Elements, NEW b \in Elements
  PROVE  finalize_from(lp_hasher(x), i, n) # composite_seed(b)
<1> SUFFICES ASSUME finalize_from(lp_hasher(x), i, n) = composite_seed(b)
             PROVE  FALSE
  OBVIOUS
<1>1. x \in Bytes /\ i \in Bytes /\ Len(x) < U16 /\ Len(i) < U16 BY CheckedType
<1>2. n \in Bytes /\ b \in Bytes /\ Len(b) < U16 BY ElementType
<1> DEFINE s == lp(n) \o FINALIZE
           e == << >>
<1>3. s \in Bytes /\ Len(s) >= 2 BY <1>2, LabelType, LpConcat
<1>4. e \in Bytes /\ Len(e) = 0 BY EmptySeq DEF Bytes
<1>5. lp(SEED_DST) \in Bytes BY LabelType, LpType
<1>6. lp(SEED_DST) \o e = lp(SEED_DST) BY <1>5, ConcatEmptySeq DEF Bytes
<1>7. lp(x) \o (lp(i) \o s) = lp(b) \o lp(SEED_DST)
  BY DEF finalize_from, lp_hasher, composite_seed
<1> HIDE DEF s, e
<1>8. lp(i) \o s \in Bytes BY <1>1, <1>3, LpConcat
<1>9. lp(i) \o s = lp(SEED_DST) BY <1>1, <1>2, <1>5, <1>7, <1>8, LpCancel
<1>10. lp(i) \o s = lp(SEED_DST) \o e BY <1>6, <1>9
<1>11. SEED_DST \in Bytes /\ Len(SEED_DST) < U16 BY LabelType
<1>12. s = e BY <1>1, <1>3, <1>4, <1>10, <1>11, LpCancel
<1> QED BY <1>3, <1>4, <1>12

(***************************************************************************)
(* From transcripts to hash calls.                                         *)
(***************************************************************************)
Binds(q, r) == q.msg = r.msg <=> Told(q.of) = Told(r.of)

LEMMA InfoQueriesBind ==
  ASSUME NEW q \in InfoQueries, NEW r \in InfoQueries
  PROVE  Binds(q, r)
<1>1. PICK x \in Checked : q = InfoQuery(x) BY DEF InfoQueries
<1>2. PICK y \in Checked : r = InfoQuery(y) BY DEF InfoQueries
<1>3. framed_info(x) = framed_info(y) <=> x = y BY InfoBinds
<1> QED BY <1>1, <1>2, <1>3 DEF InfoQuery, Query, Binds, Told

LEMMA FinalizeQueriesBind ==
  ASSUME NEW q \in FinalizeQueries, NEW r \in FinalizeQueries
  PROVE  Binds(q, r)
<1>1. PICK x \in Checked, i \in Checked, m \in Elements :
        q = FinalizeQuery(lp_hasher(x), x, i, m)
  BY DEF FinalizeQueries
<1>2. PICK y \in Checked, j \in Checked, n \in Elements :
        r = FinalizeQuery(lp_hasher(y), y, j, n)
  BY DEF FinalizeQueries
<1>3. finalize_from(lp_hasher(x), i, m) = finalize_from(lp_hasher(y), j, n)
        <=> x = y /\ i = j /\ m = n
  BY FinalizeBinds
<1> QED BY <1>1, <1>2, <1>3 DEF FinalizeQuery, Query, Binds, Told

LEMMA DeriveQueriesBind ==
  ASSUME NEW q \in DeriveQueries, NEW r \in DeriveQueries
  PROVE  Binds(q, r)
<1>1. PICK s \in KeySeeds, i \in Checked, c \in Counters : q = DeriveQuery(s, i, c)
  BY DEF DeriveQueries
<1>2. PICK t \in KeySeeds, j \in Checked, d \in Counters : r = DeriveQuery(t, j, d)
  BY DEF DeriveQueries
<1>3. derive_input(s, i, c) = derive_input(t, j, d) <=> s = t /\ i = j /\ c = d
  BY DeriveBinds
<1> QED BY <1>1, <1>2, <1>3 DEF DeriveQuery, Query, Binds, Told

LEMMA SeedQueriesBind ==
  ASSUME NEW q \in SeedQueries, NEW r \in SeedQueries
  PROVE  Binds(q, r)
<1>1. PICK a \in Elements : q = SeedQuery(a) BY DEF SeedQueries
<1>2. PICK b \in Elements : r = SeedQuery(b) BY DEF SeedQueries
<1>3. composite_seed(a) = composite_seed(b) <=> a = b BY SeedBinds
<1> QED BY <1>1, <1>2, <1>3 DEF SeedQuery, Query, Binds, Told

LEMMA WeightQueriesBind ==
  ASSUME NEW q \in WeightQueries, NEW p \in WeightQueries
  PROVE  Binds(q, p)
<1>1. PICK r \in Digests, i \in Indices, a \in Elements, c \in Elements :
        q = WeightQuery(r, i, a, c)
  BY DEF WeightQueries
<1>2. PICK s \in Digests, j \in Indices, b \in Elements, d \in Elements :
        p = WeightQuery(s, j, b, d)
  BY DEF WeightQueries
<1>3. composite_di(r, i, a, c) = composite_di(s, j, b, d)
        <=> r = s /\ i % U16 = j % U16 /\ a = b /\ c = d
  BY WeightBinds, WeightWraps
<1>4. ASSUME NEW t \in Digests, NEW n \in Indices, NEW x \in Elements, NEW y \in Elements
      PROVE  Told(WeightQuery(t, n, x, y).of) = [use |-> "weight", args |-> <<t, n % U16, x, y>>]
  BY DEF Told, WeightQuery, Query
<1>5. /\ q.msg = composite_di(r, i, a, c)
      /\ p.msg = composite_di(s, j, b, d)
  BY <1>1, <1>2 DEF WeightQuery, Query
<1>6. Told(q.of) = Told(p.of) <=> <<r, i % U16, a, c>> = <<s, j % U16, b, d>>
  <2>1. Told(q.of) = [use |-> "weight", args |-> <<r, i % U16, a, c>>] BY <1>1, <1>4, Zenon
  <2>2. Told(p.of) = [use |-> "weight", args |-> <<s, j % U16, b, d>>] BY <1>2, <1>4, Zenon
  <2> DEFINE v == <<r, i % U16, a, c>>
             w == <<s, j % U16, b, d>>
  <2> HIDE DEF v, w
  <2>3. [use |-> "weight", args |-> v] = [use |-> "weight", args |-> w] <=> v = w
    OBVIOUS
  <2> QED BY <2>1, <2>2, <2>3 DEF v, w
<1> QED BY <1>3, <1>5, <1>6 DEF Binds

LEMMA ChallengeQueriesBind ==
  ASSUME NEW q \in ChallengeQueries, NEW r \in ChallengeQueries
  PROVE  Binds(q, r)
<1>1. PICK a0 \in Elements, a1 \in Elements, a2 \in Elements, a3 \in Elements, a4 \in Elements :
        q = ChallengeQuery(a0, a1, a2, a3, a4)
  BY SMTT(60) DEF ChallengeQueries
<1>2. PICK b0 \in Elements, b1 \in Elements, b2 \in Elements, b3 \in Elements, b4 \in Elements :
        r = ChallengeQuery(b0, b1, b2, b3, b4)
  BY SMTT(60) DEF ChallengeQueries
<1>3. challenge(a0, a1, a2, a3, a4) = challenge(b0, b1, b2, b3, b4)
        <=> a0 = b0 /\ a1 = b1 /\ a2 = b2 /\ a3 = b3 /\ a4 = b4
  <2>1. SUFFICES ASSUME challenge(a0, a1, a2, a3, a4) = challenge(b0, b1, b2, b3, b4)
                 PROVE  a0 = b0 /\ a1 = b1 /\ a2 = b2 /\ a3 = b3 /\ a4 = b4
    OBVIOUS
  <2> DEFINE p4 == lp(a4) \o CHALLENGE
             q4 == lp(b4) \o CHALLENGE
             p3 == lp(a3) \o p4
             q3 == lp(b3) \o q4
             p2 == lp(a2) \o p3
             q2 == lp(b2) \o q3
             p1 == lp(a1) \o p2
             q1 == lp(b1) \o q2
  <2>2. p4 \in Bytes /\ q4 \in Bytes /\ (p4 = q4 => a4 = b4)
    BY LabelType, ElementCancel
  <2> HIDE DEF p4, q4
  <2>3. p3 \in Bytes /\ q3 \in Bytes /\ (p3 = q3 => a3 = b3 /\ p4 = q4)
    BY <2>2, ElementCancel
  <2> HIDE DEF p3, q3
  <2>4. p2 \in Bytes /\ q2 \in Bytes /\ (p2 = q2 => a2 = b2 /\ p3 = q3)
    BY <2>3, ElementCancel
  <2> HIDE DEF p2, q2
  <2>5. p1 \in Bytes /\ q1 \in Bytes /\ (p1 = q1 => a1 = b1 /\ p2 = q2)
    BY <2>4, ElementCancel
  <2>6. lp(a0) \o p1 = lp(b0) \o q1 BY <2>1 DEF challenge, p2, q2, p3, q3, p4, q4
  <2> HIDE DEF p1, q1
  <2>7. lp(a0) \o p1 = lp(b0) \o q1 => a0 = b0 /\ p1 = q1 BY <2>5, ElementCancel
  <2> QED BY <2>2, <2>3, <2>4, <2>5, <2>6, <2>7
<1> QED BY <1>1, <1>2, <1>3 DEF ChallengeQuery, Query, Binds, Told

(* The records say which kind they are.                                    *)
LEMMA Kinds ==
  /\ \A q \in InfoQueries : q.fn = "HashToScalar" /\ q.of.use = "info"
  /\ \A q \in FinalizeQueries : q.fn = "SHA512" /\ q.of.use = "finalize"
  /\ \A q \in DeriveQueries : q.fn = "DeriveKeyPair" /\ q.of.use = "derive"
  /\ \A q \in SeedQueries : q.fn = "SHA512" /\ q.of.use = "seed"
  /\ \A q \in WeightQueries : q.fn = "HashToScalar" /\ q.of.use = "weight"
  /\ \A q \in ChallengeQueries : q.fn = "HashToScalar" /\ q.of.use = "challenge"
<1>1. \A q \in InfoQueries : q.fn = "HashToScalar" /\ q.of.use = "info"
  BY DEF InfoQueries, InfoQuery, Query
<1>2. \A q \in FinalizeQueries : q.fn = "SHA512" /\ q.of.use = "finalize"
  BY DEF FinalizeQueries, FinalizeQuery, Query
<1>3. \A q \in DeriveQueries : q.fn = "DeriveKeyPair" /\ q.of.use = "derive"
  BY DEF DeriveQueries, DeriveQuery, Query
<1>4. \A q \in SeedQueries : q.fn = "SHA512" /\ q.of.use = "seed"
  BY DEF SeedQueries, SeedQuery, Query
<1>5. \A q \in WeightQueries : q.fn = "HashToScalar" /\ q.of.use = "weight"
  BY DEF WeightQueries, WeightQuery, Query
<1>6. \A q \in ChallengeQueries : q.fn = "HashToScalar" /\ q.of.use = "challenge"
  BY DEF ChallengeQueries, ChallengeQuery, Query
<1> QED BY <1>1, <1>2, <1>3, <1>4, <1>5, <1>6

LEMMA DifferentKindsDiffer ==
  /\ \A q \in InfoQueries, r \in WeightQueries : q.msg # r.msg
  /\ \A q \in InfoQueries, r \in ChallengeQueries : q.msg # r.msg
  /\ \A q \in WeightQueries, r \in ChallengeQueries : q.msg # r.msg
  /\ \A q \in FinalizeQueries, r \in SeedQueries : q.msg # r.msg
<1>1. ASSUME NEW q \in InfoQueries
      PROVE  Head2(q.msg) = Head2(INFO)
  <2>1. PICK x \in Checked : q = InfoQuery(x) BY DEF InfoQueries
  <2> QED BY <2>1, InfoHead DEF InfoQuery, Query
<1>2. ASSUME NEW q \in WeightQueries
      PROVE  Head2(q.msg) = i2osp_2(HASH_LEN)
  <2>1. PICK s \in Digests, i \in Indices, a \in Elements, b \in Elements :
          q = WeightQuery(s, i, a, b)
    BY DEF WeightQueries
  <2> QED BY <2>1, WeightHead DEF WeightQuery, Query
<1>3. ASSUME NEW q \in ChallengeQueries
      PROVE  Head2(q.msg) = i2osp_2(ELEMENT_LEN)
  <2>1. PICK a0 \in Elements, a1 \in Elements, a2 \in Elements, a3 \in Elements,
             a4 \in Elements :
          q = ChallengeQuery(a0, a1, a2, a3, a4)
    BY SMTT(60) DEF ChallengeQueries
  <2> QED BY <2>1, ChallengeHead DEF ChallengeQuery, Query
<1>4. i2osp_2(HASH_LEN) # i2osp_2(ELEMENT_LEN)
  BY I2ospInjective, FramingAssumption, DomainAssumption
<1>5. Head2(INFO) # i2osp_2(HASH_LEN) /\ Head2(INFO) # i2osp_2(ELEMENT_LEN)
  BY DomainAssumption DEF Head2
<1>6. ASSUME NEW q \in FinalizeQueries, NEW r \in SeedQueries
      PROVE  q.msg # r.msg
  <2>1. PICK x \in Checked, i \in Checked, n \in Elements :
          q = FinalizeQuery(lp_hasher(x), x, i, n)
    BY DEF FinalizeQueries
  <2>2. PICK b \in Elements : r = SeedQuery(b) BY DEF SeedQueries
  <2> QED BY <2>1, <2>2, DigestHashesDiffer DEF FinalizeQuery, SeedQuery, Query
<1> QED BY <1>1, <1>2, <1>3, <1>4, <1>5, <1>6

LEMMA ToldUse ==
  ASSUME NEW q \in AllQueries
  PROVE  Told(q.of).use = q.of.use
BY DEF Told, AllQueries, InfoQueries, FinalizeQueries, DeriveQueries, SeedQueries,
       WeightQueries, ChallengeQueries, InfoQuery, FinalizeQuery, DeriveQuery, SeedQuery,
       WeightQuery, ChallengeQuery, Query

LEMMA AllQueriesBind ==
  ASSUME NEW q \in AllQueries, NEW r \in AllQueries, q.fn = r.fn
  PROVE  Binds(q, r)
<1>1. CASE q.fn = "HashToScalar"
  <2>1. q \in InfoQueries \cup WeightQueries \cup ChallengeQueries
    BY <1>1, Kinds DEF AllQueries
  <2>2. r \in InfoQueries \cup WeightQueries \cup ChallengeQueries
    BY <1>1, Kinds DEF AllQueries
  <2>3. CASE q.of.use = r.of.use
    BY <2>1, <2>2, <2>3, Kinds, InfoQueriesBind, WeightQueriesBind, ChallengeQueriesBind
  <2>4. CASE q.of.use # r.of.use
    <3>1. q.msg # r.msg BY <2>1, <2>2, <2>4, Kinds, DifferentKindsDiffer
    <3> QED BY <2>4, <3>1, ToldUse DEF Binds
  <2> QED BY <2>3, <2>4
<1>2. CASE q.fn = "SHA512"
  <2>1. q \in FinalizeQueries \cup SeedQueries /\ r \in FinalizeQueries \cup SeedQueries
    BY <1>2, Kinds DEF AllQueries
  <2>2. CASE q.of.use = r.of.use
    BY <2>1, <2>2, Kinds, FinalizeQueriesBind, SeedQueriesBind
  <2>3. CASE q.of.use # r.of.use
    <3>1. q.msg # r.msg BY <2>1, <2>3, Kinds, DifferentKindsDiffer
    <3> QED BY <2>3, <3>1, ToldUse DEF Binds
  <2> QED BY <2>2, <2>3
<1>3. CASE q.fn = "DeriveKeyPair"
  <2>1. q \in DeriveQueries /\ r \in DeriveQueries BY <1>3, Kinds DEF AllQueries
  <2> QED BY <2>1, DeriveQueriesBind
<1> QED BY <1>1, <1>2, <1>3, Kinds DEF AllQueries

(***************************************************************************)
(* The invariant: every call that was made has the transcript of its kind. *)
(***************************************************************************)
LEMMA AskKeeps ==
  ASSUME NEW q \in AllQueries, queries \subseteq AllQueries, Ask(q)
  PROVE  queries' \subseteq AllQueries
BY DEF Ask

(* Every reachable state has only transcripts of the six kinds, and the    *)
(* table in hand, if any, has absorbed the input it is recorded with.      *)
THEOREM InductiveInvariant == Spec => []IInv
<1>1. Init => IInv BY DEF Init, IInv
<1>2. IInv /\ [Next]_vars => IInv'
  <2> SUFFICES ASSUME IInv, [Next]_vars PROVE IInv' OBVIOUS
  <2> USE DEF IInv
  <2>1. ASSUME NEW info \in Strings, FramedInfo(info) PROVE IInv'
    <3>1. info \in Checked BY <2>1 DEF FramedInfo, Checked
    <3>2. InfoQuery(info) \in AllQueries BY <3>1 DEF AllQueries, InfoQueries
    <3> QED BY <2>1, <3>2, AskKeeps DEF FramedInfo
  <2>2. ASSUME NEW input \in Strings, NEW info \in Strings, NEW n \in Elements,
               FinalizeHash(input, info, n)
        PROVE  IInv'
    <3>1. input \in Checked /\ info \in Checked BY <2>2 DEF FinalizeHash, Checked
    <3>2. FinalizeQuery(lp_hasher(input), input, info, n) \in AllQueries
      BY <3>1 DEF AllQueries, FinalizeQueries
    <3> QED BY <2>2, <3>2, AskKeeps DEF FinalizeHash
  <2>3. ASSUME NEW input \in Strings, InputTableNew(input) PROVE IInv'
    BY <2>3 DEF InputTableNew, Checked
  <2>4. ASSUME NEW info \in Strings, NEW n \in Elements, EvaluateTable(info, n)
        PROVE  IInv'
    <3>1. info \in Checked /\ table.of \in Checked /\ table.prefix = lp_hasher(table.of)
      BY <2>4 DEF EvaluateTable, Checked
    <3>2. FinalizeQuery(table.prefix, table.of, info, n) \in AllQueries
      BY <3>1 DEF AllQueries, FinalizeQueries
    <3> QED BY <2>4, <3>2, AskKeeps DEF EvaluateTable
  <2>5. ASSUME NEW seed \in KeySeeds, NEW info \in Strings, NEW c \in Counters,
               DeriveKeyPair(seed, info, c)
        PROVE  IInv'
    <3>1. info \in Checked BY <2>5 DEF DeriveKeyPair, Checked
    <3>2. DeriveQuery(seed, info, c) \in AllQueries BY <3>1 DEF AllQueries, DeriveQueries
    <3> QED BY <2>5, <3>2, AskKeeps DEF DeriveKeyPair
  <2>6. ASSUME NEW b \in Elements, CompositeSeed(b) PROVE IInv'
    <3>1. SeedQuery(b) \in AllQueries BY DEF AllQueries, SeedQueries
    <3> QED BY <2>6, <3>1, AskKeeps DEF CompositeSeed
  <2>7. ASSUME NEW seed \in Digests, NEW i \in Indices, NEW ci \in Elements,
               NEW di \in Elements, CompositeDi(seed, i, ci, di)
        PROVE  IInv'
    <3>1. WeightQuery(seed, i, ci, di) \in AllQueries BY DEF AllQueries, WeightQueries
    <3> QED BY <2>7, <3>1, AskKeeps DEF CompositeDi
  <2>8. ASSUME NEW bm \in Elements, NEW a0 \in Elements, NEW a1 \in Elements,
               NEW a2 \in Elements, NEW a3 \in Elements, Challenge(bm, a0, a1, a2, a3)
        PROVE  IInv'
    <3>1. ChallengeQuery(bm, a0, a1, a2, a3) \in AllQueries
      BY DEF AllQueries, ChallengeQueries
    <3> QED BY <2>8, <3>1, AskKeeps DEF Challenge
  <2>9. CASE UNCHANGED vars BY <2>9 DEF vars
  <2> QED BY <2>1, <2>2, <2>3, <2>4, <2>5, <2>6, <2>7, <2>8, <2>9 DEF Next
<1> QED BY <1>1, <1>2, PTL DEF Spec

(* No two different uses of one hash are applied to the same bytes,        *)
(* however long the batches: an index that wraps is told modulo 2^16.      *)
THEOREM TranscriptsDetermine == Spec => []TranscriptsBind
<1>1. IInv => TranscriptsBind
  <2> SUFFICES ASSUME IInv, NEW q \in queries, NEW r \in queries, q.fn = r.fn
               PROVE  q.msg = r.msg <=> Told(q.of) = Told(r.of)
    BY DEF TranscriptsBind
  <2>1. q \in AllQueries /\ r \in AllQueries BY DEF IInv
  <2> QED BY <2>1, AllQueriesBind DEF Binds
<1> QED BY <1>1, InductiveInvariant, PTL
====
