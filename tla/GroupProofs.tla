----------------------------- MODULE GroupProofs -----------------------------
(***************************************************************************)
(* Facts about the arithmetic of module Group, for every prime order.      *)
(***************************************************************************)
EXTENDS Group, TLAPS

(* Division with remainder by the group order.                             *)
LEMMA DivMod ==
  ASSUME NEW x \in Int
  PROVE  /\ x % Order \in Scalar
         /\ x \div Order \in Int
         /\ x = Order * (x \div Order) + (x % Order)
BY OrderAssumption DEF Scalar

(* Two residues that differ by a multiple of the order are the same.       *)
LEMMA SmallMultiple ==
  ASSUME NEW d \in Int, NEW a \in Scalar, NEW b \in Scalar, a = b + Order * d
  PROVE  d = 0
<1>1. CASE d >= 1
  <2>1. Order * d >= Order BY OrderAssumption, <1>1
  <2> QED BY <2>1, OrderAssumption DEF Scalar
<1>2. CASE d <= -1
  <2>1. Order * d <= -Order BY OrderAssumption, <1>2
  <2> QED BY <2>1, OrderAssumption DEF Scalar
<1> QED BY <1>1, <1>2

(* The remainder is unique.                                                *)
LEMMA ModUnique ==
  ASSUME NEW x \in Int, NEW q \in Int, NEW r \in Scalar, x = Order * q + r
  PROVE  x % Order = r
<1> DEFINE d == q - (x \div Order)
<1>1. /\ x % Order \in Scalar /\ x \div Order \in Int
      /\ x = Order * (x \div Order) + (x % Order)
  BY DivMod
<1>2. d \in Int BY <1>1
<1>3. x % Order = r + Order * d BY <1>1, OrderAssumption DEF Scalar
<1>4. d = 0 BY <1>1, <1>2, <1>3, SmallMultiple
<1> QED BY <1>3, <1>4, OrderAssumption DEF Scalar

(* Adding a multiple of the order does not change the residue.             *)
LEMMA ModShift ==
  ASSUME NEW x \in Int, NEW k \in Int
  PROVE  (x + Order * k) % Order = x % Order
<1> DEFINE q == x \div Order
           r == x % Order
<1>1. r \in Scalar /\ q \in Int /\ x = Order * q + r BY DivMod
<1>2. x + Order * k \in Int /\ q + k \in Int BY <1>1, OrderAssumption
<1>3. x + Order * k = Order * (q + k) + r BY <1>1, OrderAssumption DEF Scalar
<1> HIDE DEF q, r
<1>4. (x + Order * k) % Order = r BY <1>1, <1>2, <1>3, ModUnique
<1> QED BY <1>4 DEF r

(* A residue is its own remainder.                                         *)
LEMMA ModSmall ==
  ASSUME NEW r \in Scalar
  PROVE  r % Order = r
<1>1. r \in Int /\ r = Order * 0 + r BY OrderAssumption DEF Scalar
<1> QED BY <1>1, ModUnique

(* Multiplying by a product reduced first is multiplying by the product.   *)
LEMMA MulMod ==
  ASSUME NEW a \in Int, NEW x \in Int
  PROVE  (a * (x % Order)) % Order = (a * x) % Order
<1> DEFINE q == x \div Order
           r == x % Order
<1>1. r \in Scalar /\ q \in Int /\ x = Order * q + r BY DivMod
<1>2. r \in Int BY <1>1 DEF Scalar
<1> HIDE DEF q, r
<1>3. a * x = a * r + Order * (a * q)
  <2>1. a * x = a * (Order * q + r) BY <1>1
  <2>2. a * (Order * q + r) = a * (Order * q) + a * r BY <1>1, <1>2, OrderAssumption
  <2>3. a * (Order * q) = Order * (a * q) BY <1>1, OrderAssumption
  <2>4. a * r \in Int /\ a * q \in Int /\ Order * (a * q) \in Int
    BY <1>1, <1>2, OrderAssumption
  <2> QED BY <2>1, <2>2, <2>3, <2>4
<1>4. a * r \in Int /\ a * q \in Int BY <1>1, <1>2
<1>5. (a * x) % Order = (a * r) % Order BY <1>3, <1>4, ModShift
<1> QED BY <1>5 DEF r

(* Scalar multiplication gives elements, associates with the product of    *)
(* scalars, and 1 is neutral.                                              *)
LEMMA MulClosed ==
  ASSUME NEW a \in Scalar, NEW b \in Scalar
  PROVE  scalar_mul(a, b) \in Scalar
<1>1. a * b \in Int BY OrderAssumption DEF Scalar
<1> QED BY <1>1, DivMod DEF scalar_mul

LEMMA MulCommutes ==
  ASSUME NEW a \in Scalar, NEW b \in Scalar
  PROVE  scalar_mul(a, b) = scalar_mul(b, a)
<1>1. a * b = b * a BY OrderAssumption DEF Scalar
<1> QED BY <1>1 DEF scalar_mul

LEMMA MulAssoc ==
  ASSUME NEW a \in Scalar, NEW b \in Scalar, NEW c \in Scalar
  PROVE  scalar_mul(a, scalar_mul(b, c)) = scalar_mul(scalar_mul(a, b), c)
<1> a \in Int /\ b \in Int /\ c \in Int BY OrderAssumption DEF Scalar
<1>1. b * c \in Int /\ a * b \in Int /\ (a * b) % Order \in Int
  <2>1. b * c \in Int /\ a * b \in Int OBVIOUS
  <2> QED BY <2>1, DivMod, OrderAssumption DEF Scalar
<1>2. (a * ((b * c) % Order)) % Order = (a * (b * c)) % Order BY <1>1, MulMod
<1>3. (c * ((a * b) % Order)) % Order = (c * (a * b)) % Order BY <1>1, MulMod
<1>4. a * (b * c) = c * (a * b) OBVIOUS
<1>5. c * ((a * b) % Order) = ((a * b) % Order) * c BY <1>1
<1> QED BY <1>2, <1>3, <1>4, <1>5 DEF scalar_mul

LEMMA MulOne ==
  ASSUME NEW a \in Scalar
  PROVE  scalar_mul(1, a) = a /\ scalar_mul_gen(a) = a
<1>1. 1 * a = a /\ a * 1 = a BY OrderAssumption DEF Scalar
<1> QED BY <1>1, ModSmall DEF scalar_mul, scalar_mul_gen, generator

LEMMA MulZero ==
  ASSUME NEW a \in Scalar
  PROVE  scalar_mul(0, a) = 0 /\ scalar_mul(a, 0) = 0
<1>1. 0 \in Scalar BY OrderAssumption DEF Scalar
<1>2. 0 * a = 0 /\ a * 0 = 0 BY OrderAssumption DEF Scalar
<1> QED BY <1>1, <1>2, ModSmall DEF scalar_mul

(* scalar_invert returns the inverse of every scalar but zero.             *)
LEMMA InverseCancels ==
  ASSUME NEW a \in RandomScalar
  PROVE  /\ scalar_invert(a) \in RandomScalar
         /\ scalar_mul(scalar_invert(a), a) = 1
         /\ scalar_mul(a, scalar_invert(a)) = 1
<1>1. a \in 1..(Order - 1) /\ a # 0 BY OrderAssumption DEF RandomScalar
<1>2. PICK b \in 1..(Order - 1) : (a * b) % Order = 1 BY <1>1, InverseAssumption
<1> DEFINE inv == CHOOSE d \in 1..(Order - 1) : (a * d) % Order = 1
<1>3. inv \in 1..(Order - 1) /\ (a * inv) % Order = 1 BY <1>2
<1>4. scalar_invert(a) = inv BY <1>1 DEF scalar_invert
<1> HIDE DEF inv
<1>5. a * inv = inv * a BY <1>1, <1>3, OrderAssumption
<1> QED BY <1>3, <1>4, <1>5 DEF RandomScalar, scalar_mul

LEMMA RandomScalarIsScalar ==
  /\ RandomScalar = Scalar \ {0}
  /\ Element = Scalar
  /\ identity = 0
BY OrderAssumption DEF RandomScalar, Scalar, Element, identity

(* A product is zero only if a factor is: the group has no element of      *)
(* smaller order.                                                          *)
LEMMA NoZeroDivisor ==
  ASSUME NEW a \in RandomScalar, NEW e \in Scalar, scalar_mul(a, e) = 0
  PROVE  e = 0
<1> a \in Scalar BY RandomScalarIsScalar
<1> DEFINE b == scalar_invert(a)
<1>1. b \in Scalar /\ scalar_mul(b, a) = 1 BY InverseCancels, RandomScalarIsScalar
<1> HIDE DEF b
<1>2. scalar_mul(b, scalar_mul(a, e)) = scalar_mul(1, e) BY <1>1, MulAssoc
<1>3. scalar_mul(b, 0) = 0 BY <1>1, MulZero
<1> QED BY <1>2, <1>3, MulOne

(* If k cancels b, and k*x cancels y, then y is b*x.                       *)
LEMMA Cancellation ==
  ASSUME NEW k \in Scalar, NEW b \in Scalar, NEW x \in Scalar, NEW y \in Scalar,
         element_add(k, b) = 0, element_add(scalar_mul(k, x), y) = 0
  PROVE  y = scalar_mul(b, x)
<1> k \in Int /\ b \in Int /\ x \in Int /\ y \in Int BY OrderAssumption DEF Scalar
<1> DEFINE q1 == (k + b) \div Order
           q2 == (k * x) \div Order
           r == (k * x) % Order
           q3 == (r + y) \div Order
<1>1. q1 \in Int /\ k + b = Order * q1
  <2>1. k + b \in Int /\ (k + b) % Order = 0 BY DEF element_add
  <2> QED BY <2>1, DivMod, OrderAssumption
<1>2. q2 \in Int /\ r \in Int /\ k * x = Order * q2 + r
  <2>1. k * x \in Int OBVIOUS
  <2> QED BY <2>1, DivMod, OrderAssumption DEF Scalar
<1>3. q3 \in Int /\ r + y = Order * q3
  <2>1. r + y \in Int /\ (r + y) % Order = 0 BY <1>2 DEF element_add, scalar_mul
  <2> QED BY <2>1, DivMod, OrderAssumption
<1> HIDE DEF q1, q2, q3, r
<1>4. b * x = Order * (q1 * x) - k * x
  <2>1. (k + b) * x = k * x + b * x OBVIOUS
  <2>2. (Order * q1) * x = Order * (q1 * x) BY <1>1, OrderAssumption
  <2>3. k * x \in Int /\ b * x \in Int OBVIOUS
  <2> QED BY <1>1, <2>1, <2>2, <2>3
<1> DEFINE p == q1 * x
<1>5. p \in Int BY <1>1
<1> HIDE DEF p
<1>6. b * x = Order * p - Order * q2 - Order * q3 + y
  <2>1. Order * p \in Int /\ Order * q2 \in Int /\ Order * q3 \in Int
    BY <1>2, <1>3, <1>5, OrderAssumption
  <2> QED BY <1>2, <1>3, <1>4, <2>1 DEF p
<1>7. b * x = Order * (p - q2 - q3) + y BY <1>2, <1>3, <1>5, <1>6, OrderAssumption
<1>8. b * x \in Int /\ p - q2 - q3 \in Int BY <1>2, <1>3, <1>5
<1>9. (b * x) % Order = y BY <1>7, <1>8, ModUnique
<1> QED BY <1>9 DEF scalar_mul

(* 0 - k cancels k, also after both are multiplied.                        *)
LEMMA NegationCancels ==
  ASSUME NEW k \in Scalar, NEW x \in Scalar
  PROVE  /\ scalar_sub(0, k) \in Scalar
         /\ element_add(scalar_mul(scalar_sub(0, k), x), scalar_mul(k, x)) = 0
<1> k \in Int /\ x \in Int BY OrderAssumption DEF Scalar
<1> DEFINE n == scalar_sub(0, k)
           q1 == (0 - k) \div Order
<1>1. n \in Scalar /\ q1 \in Int /\ 0 - k = Order * q1 + n
  <2>1. 0 - k \in Int OBVIOUS
  <2> QED BY <2>1, DivMod DEF scalar_sub
<1> HIDE DEF q1, n
<1>2. n \in Int BY <1>1, OrderAssumption DEF Scalar
<1> DEFINE q2 == (n * x) \div Order
           r2 == (n * x) % Order
           q3 == (k * x) \div Order
           r3 == (k * x) % Order
<1>3. r2 \in Int /\ q2 \in Int /\ n * x = Order * q2 + r2
  <2>1. n * x \in Int BY <1>2
  <2>2. r2 \in Scalar /\ q2 \in Int /\ n * x = Order * q2 + r2 BY <2>1, DivMod
  <2> QED BY <2>2, OrderAssumption DEF Scalar
<1>4. r3 \in Int /\ q3 \in Int /\ k * x = Order * q3 + r3
  <2>1. k * x \in Int OBVIOUS
  <2> QED BY <2>1, DivMod, OrderAssumption DEF Scalar
<1> HIDE DEF q2, q3, r2, r3
<1>5. n * x + k * x = (0 - Order * q1) * x
  <2>1. n + k = 0 - Order * q1 BY <1>1, <1>2, OrderAssumption
  <2>2. (n + k) * x = n * x + k * x BY <1>2
  <2> QED BY <2>1, <2>2
<1>6. (0 - Order * q1) * x = Order * (0 - q1 * x) BY <1>1, OrderAssumption
<1> DEFINE p == q1 * x
<1>7. p \in Int BY <1>1
<1> HIDE DEF p
<1>8. r2 + r3 = Order * (0 - p - q2 - q3) + 0
  <2>1. Order * q2 + r2 + (Order * q3 + r3) = Order * (0 - p)
    BY <1>3, <1>4, <1>5, <1>6 DEF p
  <2> QED BY <2>1, <1>3, <1>4, <1>7, OrderAssumption
<1>9. r2 + r3 \in Int /\ 0 - p - q2 - q3 \in Int /\ 0 \in Scalar
  BY <1>3, <1>4, <1>7, OrderAssumption DEF Scalar
<1>10. (r2 + r3) % Order = 0 BY <1>8, <1>9, ModUnique
<1> QED BY <1>1, <1>10 DEF element_add, scalar_mul, r2, r3, n

(* Unblinding: if t*e is h blinded by b, then e with the blind taken off   *)
(* is h multiplied by the inverse of t.  This is the correctness of Blind, *)
(* BlindEvaluate and Finalize put together.                                *)
THEOREM UnblindIsEvaluate ==
  ASSUME NEW t \in RandomScalar, NEW b \in RandomScalar,
         NEW h \in Scalar, NEW e \in Scalar,
         scalar_mul(t, e) = scalar_mul(b, h)
  PROVE  scalar_mul(scalar_invert(b), e) = scalar_mul(scalar_invert(t), h)
<1> DEFINE ti == scalar_invert(t)
           bi == scalar_invert(b)
<1>1. /\ t \in Scalar /\ b \in Scalar /\ ti \in Scalar /\ bi \in Scalar
      /\ scalar_mul(ti, t) = 1 /\ scalar_mul(bi, b) = 1
  BY InverseCancels, RandomScalarIsScalar
<1> HIDE DEF ti, bi
<1> USE <1>1
<1>2. e = scalar_mul(ti, scalar_mul(b, h))
  <2>1. scalar_mul(ti, scalar_mul(t, e)) = scalar_mul(1, e) BY MulAssoc
  <2> QED BY <2>1, MulOne
<1>3. e = scalar_mul(b, scalar_mul(ti, h))
  <2>1. scalar_mul(ti, scalar_mul(b, h)) = scalar_mul(scalar_mul(ti, b), h) BY MulAssoc
  <2>2. scalar_mul(b, scalar_mul(ti, h)) = scalar_mul(scalar_mul(b, ti), h) BY MulAssoc
  <2> QED BY <1>2, <2>1, <2>2, MulCommutes
<1>4. scalar_mul(ti, h) \in Scalar BY MulClosed
<1>5. scalar_mul(bi, e) = scalar_mul(1, scalar_mul(ti, h)) BY <1>3, <1>4, MulAssoc
<1>6. scalar_mul(bi, e) = scalar_mul(ti, h) BY <1>4, <1>5, MulOne
<1> QED BY <1>6 DEF ti, bi

(* Blinding hides the input: any blinded element other than the identity   *)
(* is the blinding of any input that does not hash to the identity, by     *)
(* exactly one blind.                                                      *)
THEOREM BlindingHides ==
  ASSUME NEW h \in Scalar \ {0}, NEW e \in Scalar \ {0}
  PROVE  /\ \E b \in RandomScalar : scalar_mul(b, h) = e
         /\ \A b1, b2 \in RandomScalar :
              scalar_mul(b1, h) = scalar_mul(b2, h) => b1 = b2
<1> DEFINE hi == scalar_invert(h)
<1>1. h \in RandomScalar /\ h \in Scalar /\ e \in Scalar BY RandomScalarIsScalar
<1>2. hi \in RandomScalar /\ hi \in Scalar /\ scalar_mul(hi, h) = 1 /\ scalar_mul(h, hi) = 1
  BY <1>1, InverseCancels, RandomScalarIsScalar
<1> HIDE DEF hi
<1>3. \E b \in RandomScalar : scalar_mul(b, h) = e
  <2> DEFINE b == scalar_mul(e, hi)
  <2>1. b \in Scalar BY <1>1, <1>2, MulClosed
  <2>2. scalar_mul(b, h) = scalar_mul(e, scalar_mul(hi, h)) BY <1>1, <1>2, MulAssoc
  <2>3. 1 \in Scalar BY OrderAssumption DEF Scalar
  <2>4. scalar_mul(b, h) = e BY <2>2, <2>3, <1>1, <1>2, MulCommutes, MulOne
  <2>5. b # 0
    <3>1. SUFFICES ASSUME b = 0 PROVE FALSE OBVIOUS
    <3>2. scalar_mul(0, h) = 0 BY <1>1, MulZero
    <3> QED BY <2>4, <3>1, <3>2
  <2> QED BY <2>1, <2>4, <2>5, RandomScalarIsScalar
<1>4. ASSUME NEW b1 \in RandomScalar, NEW b2 \in RandomScalar,
             scalar_mul(b1, h) = scalar_mul(b2, h)
      PROVE  b1 = b2
  <2>1. b1 \in Scalar /\ b2 \in Scalar BY RandomScalarIsScalar
  <2>2. scalar_mul(hi, scalar_mul(h, b1)) = scalar_mul(1, b1) BY <1>1, <1>2, <2>1, MulAssoc
  <2>3. scalar_mul(hi, scalar_mul(h, b2)) = scalar_mul(1, b2) BY <1>1, <1>2, <2>1, MulAssoc
  <2>4. scalar_mul(h, b1) = scalar_mul(h, b2) BY <1>1, <1>4, <2>1, MulCommutes
  <2> QED BY <2>1, <2>2, <2>3, <2>4, MulOne
<1> QED BY <1>3, <1>4

(***************************************************************************)
(* Results and parsers.                                                    *)
(***************************************************************************)
LEMMA Results ==
  /\ \A v : Ok(v).ok /\ Ok(v).val = v
  /\ \A e : ~Err(e).ok
BY DEF Ok, Err

(* A buffer that deserialize_element accepts is read as it is and is not   *)
(* the identity.                                                           *)
LEMMA ParsedElement ==
  ASSUME NEW buf \in Bytes, deserialize_element(buf).ok
  PROVE  deserialize_element(buf).val = buf /\ buf \in Scalar \ {0}
BY OrderAssumption
   DEF deserialize_element, Ok, Err, Bytes, Truncated, NonCanonical, is_identity, identity,
       Scalar

LEMMA ParsedScalar ==
  ASSUME NEW buf \in Bytes, deserialize_scalar(buf).ok
  PROVE  deserialize_scalar(buf).val = buf /\ buf \in Scalar
BY OrderAssumption
   DEF deserialize_scalar, Ok, Err, Bytes, Truncated, NonCanonical, Scalar

LEMMA FixedBytesAreBytes ==
  FixedBytes \subseteq Bytes /\ Scalar \subseteq Bytes
BY OrderAssumption DEF FixedBytes, Bytes, Scalar

LEMMA SecretKeyParsed ==
  ASSUME NEW buf \in Bytes, secret_key_from_bytes(buf).ok
  PROVE  /\ secret_key_from_bytes(buf).val = buf
         /\ buf \in SecretKey
<1>1. deserialize_scalar(buf).ok /\ deserialize_scalar(buf).val # 0
  BY Results DEF secret_key_from_bytes, scalar_is_zero
<1>2. deserialize_scalar(buf).val = buf /\ buf \in Scalar BY <1>1, ParsedScalar
<1> QED BY <1>1, <1>2, RandomScalarIsScalar
        DEF secret_key_from_bytes, scalar_is_zero, SecretKey
=============================================================================
