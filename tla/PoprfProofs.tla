---------------------------- MODULE PoprfProofs ----------------------------
(***************************************************************************)
(* Soundness and completeness of the DLEQ proof of module Dleq, for every  *)
(* prime order, batch length and proof; and what the calls of one issuance *)
(* give when they are put together.                                        *)
(***************************************************************************)
EXTENDS Poprf, GroupProofs

(* A composite has no terms when all its points are the identity.          *)
LEMMA NoTerms ==
  ASSUME NEW d, NEW P, Terms(d, P) = {}
  PROVE  \A i \in DOMAIN P : P[i] = 0
BY DEF Terms, is_identity, identity

LEMMA TermsOfIdentity ==
  ASSUME NEW d, NEW P, \A i \in DOMAIN P : P[i] = 0
  PROVE  Terms(d, P) = {}
BY DEF Terms, is_identity, identity

(* If the response of a proof leaves nothing at its own challenge, the     *)
(* coefficient of that challenge is the identity everywhere.               *)
LEMMA NothingAtChallenge ==
  ASSUME NEW d, NEW s, NEW X, NEW c, NEW Y,
         \A term \in Respond(d, s, X, c, Y).chals : term[1] # c
  PROVE  \A i \in DOMAIN X : Coefficient(c, s, X, c, Y)[i] = 0
<1>1. Terms(d, Coefficient(c, s, X, c, Y)) = {}
  <2>1. SUFFICES ASSUME Terms(d, Coefficient(c, s, X, c, Y)) # {} PROVE FALSE
    OBVIOUS
  <2>2. <<c, Terms(d, Coefficient(c, s, X, c, Y))>> \in Respond(d, s, X, c, Y).chals
    BY <2>1 DEF Respond
  <2> QED BY <2>2
<1>2. DOMAIN Coefficient(c, s, X, c, Y) = DOMAIN X BY DEF Coefficient
<1> QED BY <1>1, <1>2, NoTerms

(* Soundness: if verify_proof accepts a proof with a grounded challenge    *)
(* for a public key b that is not the identity, then every D_i is b*C_i    *)
(* (b stands for its discrete logarithm): one proof covers each element of *)
(* the batch.  The identity checks on tweaked keys are what gives b # 0.   *)
THEOREM VerifySound ==
  ASSUME NEW b \in Scalar, b # 0,
         NEW C, C \in [DOMAIN C -> Scalar], NEW D, D \in [DOMAIN C -> Scalar],
         NEW proof, proof.s.chal \in Scalar, Grounded(proof.c),
         verify_proof(generator, b, C, D, proof)
  PROVE  \A i \in DOMAIN C : D[i] = scalar_mul(b, C[i])
<1> DEFINE S == DOMAIN C
           c == proof.c
           s == proof.s
           mz == compute_composites(b, C, D)
           t2 == Respond(Unit, s, <<generator>>, c, <<b>>)
           t3 == Respond(mz.d, s, mz.m, c, mz.z)
<1>1. c = hash_to_scalar([b |-> b, m |-> Terms(mz.d, mz.m), z |-> Terms(mz.d, mz.z),
                          t2 |-> t2, t3 |-> t3])
  BY DEF verify_proof, ExpectedChallenge, Challenge
<1>2. "hash" \in DOMAIN c /\ c.hash.t2 = t2 /\ c.hash.t3 = t3
  BY <1>1 DEF hash_to_scalar
<1>3. /\ \A term \in t2.chals : term[1] # c
      /\ \A term \in t3.chals : term[1] # c
  BY <1>2 DEF Grounded
<1>4. mz.m = C /\ mz.z = D BY DEF compute_composites
<1> HIDE DEF c, s
<1>5. Coefficient(c, s, <<generator>>, c, <<b>>)[1] = 0
  BY <1>3, NothingAtChallenge
<1>6. \A i \in S : Coefficient(c, s, C, c, D)[i] = 0
  BY <1>3, <1>4, NothingAtChallenge
<1>7. 0 \in Scalar /\ 1 \in Scalar BY OrderAssumption DEF Scalar
<1>8. c = s.of /\ element_add(s.chal, b) = 0
  <2>1. element_add(IF c = s.of THEN scalar_mul(s.chal, 1) ELSE 0, b) = 0
    BY <1>5 DEF Coefficient, generator, identity
  <2>2. scalar_mul(s.chal, 1) = s.chal BY <1>7, MulOne, MulCommutes DEF s
  <2>3. CASE c # s.of
    <3>1. element_add(0, b) = b BY ModSmall, OrderAssumption DEF element_add, Scalar
    <3> QED BY <2>1, <2>3, <3>1
  <2> QED BY <2>1, <2>2, <2>3
<1>9. \A i \in S : element_add(scalar_mul(s.chal, C[i]), D[i]) = 0
  BY <1>6, <1>8 DEF Coefficient
<1> QED BY <1>8, <1>9, Cancellation DEF s

(* The hypotheses of VerifySound, in one predicate, and their consequence. *)
Accepted(b, C, D, proof) ==
  /\ b \in Scalar /\ b # 0
  /\ C \in [DOMAIN C -> Scalar] /\ D \in [DOMAIN C -> Scalar]
  /\ proof.s.chal \in Scalar /\ Grounded(proof.c)
  /\ verify_proof(generator, b, C, D, proof)

LEMMA AcceptedSound ==
  ASSUME NEW b, NEW C, NEW D, NEW proof, Accepted(b, C, D, proof)
  PROVE  \A i \in DOMAIN C : D[i] = scalar_mul(b, C[i])
BY VerifySound DEF Accepted

(* Completeness: verify_proof accepts the proof of the server that holds   *)
(* k, for elements D it evaluated to C, whatever the proof randomness.     *)
THEOREM GenerateVerifies ==
  ASSUME NEW k \in Scalar, NEW S, NEW C \in [S -> Scalar], NEW r
  PROVE  verify_proof(generator, k, C, Scaled(k, C),
                      generate_proof_with_r(k, generator, k, C, Scaled(k, C), r))
<1> DEFINE D == Scaled(k, C)
           mz == compute_composites(k, C, D)
           t2 == [one |-> Terms(Unit, Scaled(r, <<generator>>)), chals |-> {}]
           t3 == [one |-> Terms(mz.d, Scaled(r, C)), chals |-> {}]
           c == Challenge(k, mz, t2, t3)
           s == Linear(r, scalar_sub(0, k), c)
<1>1. compute_composites_fast(k, k, C, D) = mz
  BY DEF compute_composites, compute_composites_fast
<1>2. mz.m = C /\ mz.z = D BY DEF compute_composites
<1>3. generate_proof_with_r(k, generator, k, C, D, r) = [c |-> c, s |-> s]
  BY <1>1, <1>2 DEF generate_proof_with_r
<1>4. s.one = r /\ s.chal = scalar_sub(0, k) /\ s.of = c BY DEF Linear
<1> HIDE DEF c, s, mz
<1>5. 0 \in Scalar /\ 1 \in Scalar BY OrderAssumption DEF Scalar
<1>6. \A h \in {s.of, c} : Terms(Unit, Coefficient(h, s, <<generator>>, c, <<k>>)) = {}
  <2>1. \A i \in DOMAIN <<generator>> :
          Coefficient(c, s, <<generator>>, c, <<k>>)[i] = 0
    <3>1. element_add(scalar_mul(scalar_sub(0, k), 1), scalar_mul(k, 1)) = 0
      BY <1>5, NegationCancels
    <3>2. scalar_mul(k, 1) = k BY <1>5, MulOne, MulCommutes
    <3> QED BY <1>4, <3>1, <3>2 DEF Coefficient, generator
  <2>2. DOMAIN Coefficient(c, s, <<generator>>, c, <<k>>) = DOMAIN <<generator>>
    BY DEF Coefficient
  <2> QED BY <1>4, <2>1, <2>2, TermsOfIdentity
<1>7. \A h \in {s.of, c} : Terms(mz.d, Coefficient(h, s, C, c, D)) = {}
  <2>1. \A i \in S : Coefficient(c, s, C, c, D)[i] = 0
    <3> TAKE i \in S
    <3>1. Coefficient(c, s, C, c, D)[i] = element_add(scalar_mul(scalar_sub(0, k), C[i]), D[i])
      BY <1>4 DEF Coefficient
    <3>2. D[i] = scalar_mul(k, C[i]) BY DEF Scaled
    <3> QED BY <3>1, <3>2, NegationCancels
  <2>2. DOMAIN Coefficient(c, s, C, c, D) = S BY DEF Coefficient
  <2> QED BY <1>4, <2>1, <2>2, TermsOfIdentity
<1>8. Respond(Unit, s, <<generator>>, c, <<k>>) = t2 BY <1>4, <1>6 DEF Respond
<1>9. Respond(mz.d, s, mz.m, c, mz.z) = t3 BY <1>2, <1>4, <1>7 DEF Respond
<1>10. ExpectedChallenge(generator, k, C, D, [c |-> c, s |-> s]) = Challenge(k, mz, t2, t3)
  BY <1>8, <1>9 DEF ExpectedChallenge, mz
<1> QED BY <1>3, <1>10 DEF verify_proof, c

(***************************************************************************)
(* The server's tweaked key.                                               *)
(***************************************************************************)
(* A t that compute_t returns is the sum of key and info, and not zero.    *)
LEMMA ComputedT ==
  ASSUME NEW sk \in SecretKey, NEW info \in Infos, compute_t(sk, info).ok
  PROVE  /\ compute_t(sk, info).val \in RandomScalar
         /\ compute_t(sk, info).val = scalar_add(sk, HashToScalar[info])
<1>1. compute_t(sk, info) = Ok(scalar_add(sk, HashToScalar[info]))
      /\ scalar_add(sk, HashToScalar[info]) # 0
  BY Results DEF compute_t, scalar_is_zero
<1>2. sk \in Scalar /\ HashToScalar[info] \in Scalar
  BY HashAssumption, RandomScalarIsScalar DEF SecretKey
<1>3. sk + HashToScalar[info] \in Int BY <1>2, OrderAssumption DEF Scalar
<1>4. scalar_add(sk, HashToScalar[info]) \in Scalar BY <1>3, DivMod DEF scalar_add
<1> QED BY <1>1, <1>4, Results, RandomScalarIsScalar

LEMMA PublicKeyIsKey ==
  ASSUME NEW k \in SecretKey
  PROVE  public_key(k) = k /\ k \in PublicKey
BY MulOne, RandomScalarIsScalar DEF SecretKey, PublicKey, public_key

LEMMA TweakedKeyIsElement ==
  ASSUME NEW pk \in PublicKey, NEW info \in Infos
  PROVE  TweakedKey(pk, info) \in Scalar
<1>1. HashToScalar[info] \in Scalar BY HashAssumption
<1>2. pk \in Scalar BY RandomScalarIsScalar DEF PublicKey
<1>3. scalar_mul_gen(HashToScalar[info]) = HashToScalar[info] BY <1>1, MulOne
<1>4. HashToScalar[info] + pk \in Int BY <1>1, <1>2, OrderAssumption DEF Scalar
<1> QED BY <1>3, <1>4, DivMod DEF TweakedKey, element_add

(* The server that holds the key of pk computes the key that its client    *)
(* tweaked.                                                                *)
LEMMA ServerComputesTweaked ==
  ASSUME NEW sk \in SecretKey, NEW info \in Infos, check_lp_len(info),
         TweakedKey(public_key(sk), info) # 0
  PROVE  /\ compute_t(sk, info) = Ok(TweakedKey(public_key(sk), info))
         /\ TweakedKey(public_key(sk), info) \in RandomScalar
<1> DEFINE m == HashToScalar[info]
           T == TweakedKey(public_key(sk), info)
<1>1. m \in Scalar /\ sk \in Scalar BY HashAssumption, RandomScalarIsScalar DEF SecretKey
<1>2. public_key(sk) = sk /\ public_key(sk) \in PublicKey BY PublicKeyIsKey
<1>3. T = scalar_add(sk, m)
  <2>1. T = (m + sk) % Order BY <1>1, <1>2, MulOne DEF TweakedKey, element_add
  <2>2. m + sk = sk + m BY <1>1, OrderAssumption DEF Scalar
  <2> QED BY <2>1, <2>2 DEF scalar_add
<1>4. T \in RandomScalar BY <1>2, TweakedKeyIsElement, RandomScalarIsScalar
<1> HIDE DEF T
<1> QED BY <1>3, <1>4 DEF compute_t, scalar_is_zero, T

(***************************************************************************)
(* The calls of one issuance, put together.                                *)
(***************************************************************************)
(* What Blind returns, when it returns.                                    *)
LEMMA Blinded ==
  ASSUME NEW pk, NEW input \in Inputs, NEW info, NEW blind,
         blind_with_inner(pk, input, info, blind).ok
  PROVE  /\ check_lp_len(input) /\ check_lp_len(info)
         /\ TweakedKey(pk, info) # 0
         /\ HashToGroup[input] \in Scalar \ {0}
         /\ LET b == blind_with_inner(pk, input, info, blind).val
            IN  /\ b.state.blind = blind /\ b.state.tweaked_key = TweakedKey(pk, info)
                /\ b.blinded = scalar_mul(blind, HashToGroup[input])
<1>1. HashToGroup[input] \in Scalar BY HashAssumption, RandomScalarIsScalar
<1> QED BY <1>1, Results, RandomScalarIsScalar DEF blind_with_inner, is_identity

(* An element evaluated under t is taken back by t.                        *)
LEMMA EvaluatedBack ==
  ASSUME NEW t \in RandomScalar, NEW b \in Scalar
  PROVE  /\ scalar_mul(scalar_invert(t), b) \in Scalar
         /\ scalar_mul(t, scalar_mul(scalar_invert(t), b)) = b
<1>1. /\ t \in Scalar /\ scalar_invert(t) \in Scalar
      /\ scalar_mul(t, scalar_invert(t)) = 1
  BY InverseCancels, RandomScalarIsScalar
<1> QED BY <1>1, MulAssoc, MulClosed, MulOne

(* What the server answers to one blinded element, when it answers.        *)
LEMMA Answered ==
  ASSUME NEW sk, NEW info, NEW b, NEW r, blind_evaluate_with_r_inner(sk, b, info, r).ok
  PROVE  /\ compute_t(sk, info).ok /\ b # 0
         /\ blind_evaluate_with_r_inner(sk, b, info, r)
              = Ok(EvaluateWith(compute_t(sk, info).val, <<b>>, r))
         /\ blind_evaluate_with_r_inner(sk, b, info, r).val.evaluated
              = <<scalar_mul(scalar_invert(compute_t(sk, info).val), b)>>
<1>1. /\ compute_t(sk, info).ok /\ b # 0
      /\ blind_evaluate_with_r_inner(sk, b, info, r)
           = Ok(EvaluateWith(compute_t(sk, info).val, <<b>>, r))
  BY Results DEF blind_evaluate_with_r_inner, is_identity, identity
<1>2. EvaluateWith(compute_t(sk, info).val, <<b>>, r).evaluated
        = <<scalar_mul(scalar_invert(compute_t(sk, info).val), b)>>
  BY DEF EvaluateWith, Scaled
<1> QED BY <1>1, <1>2, Results

(* Issuance is correct: between a client and the server whose key it       *)
(* pinned, what Blind opened with a blind other than zero is evaluated and *)
(* finalized, and the output is that of the offline Evaluate.              *)
THEOREM IssuanceCorrect ==
  ASSUME NEW sk \in SecretKey, NEW input \in Inputs, NEW info \in Infos,
         NEW blind \in RandomScalar, NEW r,
         NEW opened, opened = blind_with_inner(public_key(sk), input, info, blind), opened.ok,
         NEW answer, answer = blind_evaluate_with_r_inner(sk, opened.val.blinded, info, r)
  PROVE  /\ answer.ok
         /\ evaluate(sk, input, info).ok
         /\ finalize(input, opened.val.state, answer.val.evaluated[1],
                     opened.val.blinded, answer.val.proof, info)
              = evaluate(sk, input, info)
<1> DEFINE h == HashToGroup[input]
           T == TweakedKey(public_key(sk), info)
           b == opened.val.blinded
           e == scalar_mul(scalar_invert(T), b)
           p == generate_proof_with_r(T, generator, T, <<e>>, <<b>>, r)
<1>1. /\ check_lp_len(input) /\ check_lp_len(info) /\ T # 0
      /\ h \in Scalar \ {0} /\ b = scalar_mul(blind, h)
      /\ opened.val.state.blind = blind /\ opened.val.state.tweaked_key = T
  BY Blinded
<1>2. T \in RandomScalar /\ T \in Scalar /\ compute_t(sk, info) = Ok(T)
  BY <1>1, ServerComputesTweaked, RandomScalarIsScalar
<1>3. b \in Scalar /\ b # 0
  <2>1. blind \in Scalar /\ h \in Scalar /\ h # 0 BY <1>1, RandomScalarIsScalar
  <2> HIDE DEF h
  <2> QED BY <1>1, <2>1, MulClosed, NoZeroDivisor
<1> HIDE DEF T, b
<1>4. e \in Scalar /\ scalar_mul(T, e) = b BY <1>2, <1>3, EvaluatedBack
<1>5. EvaluateWith(T, <<b>>, r) = [evaluated |-> <<e>>, proof |-> p]
  <2>1. Scaled(scalar_invert(T), <<b>>) = <<e>> BY DEF Scaled
  <2>2. scalar_mul_gen(T) = T BY <1>2, MulOne
  <2> QED BY <2>1, <2>2 DEF EvaluateWith
<1> HIDE DEF e, p
<1>6. answer = Ok([evaluated |-> <<e>>, proof |-> p])
  BY <1>2, <1>3, <1>5, Results DEF blind_evaluate_with_r_inner, is_identity, identity, b
<1>7. answer.ok /\ answer.val.evaluated[1] = e /\ answer.val.proof = p BY <1>6, Results
<1>8. verify_proof(generator, T, <<e>>, <<b>>, p)
  <2>1. Scaled(T, <<e>>) = <<b>> BY <1>4 DEF Scaled
  <2>2. <<e>> \in [{1} -> Scalar] BY <1>4
  <2>3. verify_proof(generator, T, <<e>>, Scaled(T, <<e>>),
                     generate_proof_with_r(T, generator, T, <<e>>, Scaled(T, <<e>>), r))
    BY <1>2, <2>2, GenerateVerifies
  <2> QED BY <2>1, <2>3 DEF p
<1>9. finalize(input, opened.val.state, e, b, p, info)
        = Ok(finalize_hash(input, info, scalar_mul(scalar_invert(blind), e)))
  BY <1>1, <1>8 DEF finalize, unblind_and_hash
<1>10. scalar_mul(scalar_invert(blind), e) = scalar_mul(scalar_invert(T), h)
  <2>1. h \in Scalar BY <1>1
  <2> HIDE DEF h
  <2> QED BY <1>1, <1>2, <1>4, <2>1, UnblindIsEvaluate
<1>11. evaluate(sk, input, info)
         = Ok(finalize_hash(input, info, scalar_mul(scalar_invert(T), h)))
  BY <1>1, <1>2, Results, RandomScalarIsScalar DEF evaluate, is_identity
<1> QED BY <1>7, <1>9, <1>10, <1>11, Results DEF b

(* A mismatch is detected: an element that was evaluated under another key *)
(* or another info than the client tweaked its key with is rejected with   *)
(* the error Verify, whatever grounded proof comes with it, and for every  *)
(* blind.                                                                  *)
THEOREM MismatchRejected ==
  ASSUME NEW pk \in PublicKey, NEW input \in Inputs, NEW info \in Infos,
         NEW blind \in Scalar,
         NEW opened, opened = blind_with_inner(pk, input, info, blind), opened.ok,
         NEW sk \in SecretKey, NEW server_info \in Infos, NEW r,
         NEW answer,
         answer = blind_evaluate_with_r_inner(sk, opened.val.blinded, server_info, r),
         answer.ok,
         TweakedKey(public_key(sk), server_info) # TweakedKey(pk, info),
         NEW proof, proof.s.chal \in Scalar, Grounded(proof.c)
  PROVE  finalize(input, opened.val.state, answer.val.evaluated[1],
                  opened.val.blinded, proof, info) = Err("Verify")
<1> DEFINE h == HashToGroup[input]
           T == TweakedKey(pk, info)
           t == compute_t(sk, server_info).val
           b == opened.val.blinded
           e == scalar_mul(scalar_invert(t), b)
<1>1. /\ check_lp_len(input) /\ check_lp_len(info) /\ T # 0
      /\ h \in Scalar /\ b = scalar_mul(blind, h)
      /\ opened.val.state.tweaked_key = T
  BY Blinded
<1>2. T \in Scalar /\ b \in Scalar BY <1>1, MulClosed, TweakedKeyIsElement
<1>3. compute_t(sk, server_info).ok /\ b # 0 /\ answer.val.evaluated[1] = e
  <2>1. answer = blind_evaluate_with_r_inner(sk, b, server_info, r) OBVIOUS
  <2> HIDE DEF b
  <2>2. blind_evaluate_with_r_inner(sk, b, server_info, r).ok BY <2>1
  <2>3. compute_t(sk, server_info).ok /\ b # 0 BY <2>2, Answered
  <2>4. answer.val.evaluated = <<e>>
    <3>1. blind_evaluate_with_r_inner(sk, b, server_info, r).val.evaluated
            = <<scalar_mul(scalar_invert(compute_t(sk, server_info).val), b)>>
      BY <2>2, Answered
    <3> QED BY <2>1, <3>1
  <2> QED BY <2>3, <2>4
<1>4. t \in RandomScalar /\ t \in Scalar /\ t # T
  <2>1. t \in RandomScalar /\ t = scalar_add(sk, HashToScalar[server_info])
    BY <1>3, ComputedT
  <2>2. t = TweakedKey(public_key(sk), server_info)
    <3>1. HashToScalar[server_info] \in Scalar /\ sk \in Scalar
      BY HashAssumption, RandomScalarIsScalar DEF SecretKey
    <3>2. HashToScalar[server_info] + sk = sk + HashToScalar[server_info]
      BY <3>1, OrderAssumption DEF Scalar
    <3>3. public_key(sk) = sk /\ scalar_mul_gen(HashToScalar[server_info]) = HashToScalar[server_info]
      BY <3>1, PublicKeyIsKey, MulOne
    <3> QED BY <2>1, <3>2, <3>3 DEF TweakedKey, element_add, scalar_add
  <2> QED BY <2>1, <2>2, RandomScalarIsScalar
<1> HIDE DEF T, t, b
<1>5. e \in Scalar /\ scalar_mul(t, e) = b BY <1>2, <1>4, EvaluatedBack
<1>6. e # 0 BY <1>3, <1>4, <1>5, MulZero
<1> HIDE DEF e
<1>7. ~verify_proof(generator, T, <<e>>, <<b>>, proof)
  <2> SUFFICES ASSUME verify_proof(generator, T, <<e>>, <<b>>, proof) PROVE FALSE OBVIOUS
  <2>1. DOMAIN <<e>> = {1} /\ <<e>> \in [DOMAIN <<e>> -> Scalar]
        /\ <<b>> \in [DOMAIN <<e>> -> Scalar]
    BY <1>2, <1>5
  <2>2. \A i \in DOMAIN <<e>> : <<b>>[i] = scalar_mul(T, <<e>>[i])
    BY <1>1, <1>2, <2>1, VerifySound DEF T
  <2>3. b = scalar_mul(T, e) BY <2>1, <2>2
  <2>4. T \in RandomScalar BY <1>1, <1>2, RandomScalarIsScalar DEF T
  <2>5. t = T BY <1>4, <1>5, <1>6, <2>3, <2>4, <1>2, BlindingHides, RandomScalarIsScalar, <1>3
  <2> QED BY <1>4, <2>5
<1> QED BY <1>1, <1>3, <1>7 DEF finalize, T, b, e

(* The entry points for one element and those for a batch are written      *)
(* apart; on one element they are the same, errors included.               *)
THEOREM BatchOfOne ==
  ASSUME NEW sk, NEW input, NEW info, NEW state, NEW evaluated, NEW blinded, NEW proof, NEW r
  PROVE  /\ blind_evaluate_batch_with_r_inner(sk, <<blinded>>, info, r)
              = blind_evaluate_with_r_inner(sk, blinded, info, r)
         /\ finalize_batch(<<input>>, <<state>>, <<evaluated>>, <<blinded>>, proof, info)
              = LET res == finalize(input, state, evaluated, blinded, proof, info)
                IN  IF res.ok THEN Ok(<<res.val>>) ELSE res
<1>1. blind_evaluate_batch_with_r_inner(sk, <<blinded>>, info, r)
        = blind_evaluate_with_r_inner(sk, blinded, info, r)
  BY DEF blind_evaluate_batch_with_r_inner, blind_evaluate_with_r_inner
<1>2. /\ DOMAIN <<input>> = {1} /\ DOMAIN <<state>> = {1} /\ <<input>> # << >>
      /\ Len(<<input>>) = 1 /\ Len(<<state>>) = 1
      /\ Len(<<evaluated>>) = 1 /\ Len(<<blinded>>) = 1
  OBVIOUS
<1> DEFINE out == unblind_and_hash(input, info, state, evaluated)
           outs == [i \in DOMAIN <<input>> |->
                      unblind_and_hash(<<input>>[i], info, <<state>>[i], <<evaluated>>[i])]
<1>3. outs = <<out>> BY <1>2
<1> HIDE DEF out
<1>4. finalize_batch(<<input>>, <<state>>, <<evaluated>>, <<blinded>>, proof, info)
        = IF ~check_lp_len(info) \/ ~check_lp_len(input) THEN Err("InputTooLong")
          ELSE IF ~verify_proof(generator, state.tweaked_key, <<evaluated>>, <<blinded>>, proof)
               THEN Err("Verify")
          ELSE Ok(<<out>>)
  BY <1>2, <1>3 DEF finalize_batch
<1>5. finalize(input, state, evaluated, blinded, proof, info)
        = IF ~check_lp_len(input) \/ ~check_lp_len(info) THEN Err("InputTooLong")
          ELSE IF ~verify_proof(generator, state.tweaked_key, <<evaluated>>, <<blinded>>, proof)
               THEN Err("Verify")
          ELSE Ok(out)
  BY DEF finalize, out
<1> QED BY <1>1, <1>4, <1>5, Results

(* One bad element spoils a batch: if the tweaked key of one session does  *)
(* not take its element to what that session blinded, finalize_batch fails *)
(* for all of them, whatever grounded proof comes with the batch and       *)
(* however the other sessions stand.                                       *)
THEOREM BadElementRejected ==
  ASSUME NEW n \in Nat, NEW inputs, NEW states, NEW info, NEW proof,
         DOMAIN states = 1..n, \A j \in 1..n : states[j].tweaked_key \in RandomScalar,
         NEW evaluated \in [1..n -> Scalar], NEW blinded \in [1..n -> Scalar],
         proof.s.chal \in Scalar, Grounded(proof.c),
         NEW i \in 1..n,
         scalar_mul(states[i].tweaked_key, evaluated[i]) # blinded[i]
  PROVE  ~finalize_batch(inputs, states, evaluated, blinded, proof, info).ok
<1> SUFFICES ASSUME finalize_batch(inputs, states, evaluated, blinded, proof, info).ok
             PROVE  FALSE
  OBVIOUS
<1>1. /\ \A j \in DOMAIN states : states[j].tweaked_key = states[1].tweaked_key
      /\ verify_proof(generator, states[1].tweaked_key, evaluated, blinded, proof)
  BY Results DEF finalize_batch
<1>2. verify_proof(generator, states[i].tweaked_key, evaluated, blinded, proof) BY <1>1
<1>3. states[i].tweaked_key \in Scalar /\ states[i].tweaked_key # 0
  BY RandomScalarIsScalar
<1>4. DOMAIN evaluated = 1..n OBVIOUS
<1>5. Accepted(states[i].tweaked_key, evaluated, blinded, proof)
  BY <1>2, <1>3, <1>4 DEF Accepted
<1> QED BY <1>4, <1>5, AcceptedSound
=============================================================================
