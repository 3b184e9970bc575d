--------------------------- MODULE IssuanceProofs ---------------------------
(***************************************************************************)
(* Proofs about module Issuance: type correctness, and that an accepted    *)
(* output is what Evaluate returns for the session, for every prime order, *)
(* hash functions, keys, batch lengths and behaviours of the channel.      *)
(***************************************************************************)
EXTENDS Issuance, PoprfProofs, SequenceTheorems

(***************************************************************************)
(* Parsers.                                                                *)
(***************************************************************************)
(* A list of buffers that is accepted is read as it is.                    *)
LEMMA ParsedElements ==
  ASSUME NEW n \in Nat, NEW bufs \in [1..n -> Bytes], deserialize_elements(bufs).ok
  PROVE  /\ deserialize_elements(bufs).val \in [1..n -> Scalar \ {0}]
         /\ deserialize_elements(bufs).val = bufs
<1> DEFINE bad == {i \in DOMAIN bufs : ~deserialize_element(bufs[i]).ok}
           v == [i \in DOMAIN bufs |-> deserialize_element(bufs[i]).val]
<1>1. bad = {} /\ deserialize_elements(bufs) = Ok(v)
  BY Results DEF deserialize_elements
<1>2. \A i \in 1..n : deserialize_element(bufs[i]).ok BY <1>1
<1>3. \A i \in 1..n : v[i] = bufs[i] /\ bufs[i] \in Scalar \ {0}
  BY <1>2, ParsedElement
<1>4. v = bufs /\ v \in [1..n -> Scalar \ {0}] BY <1>3
<1> QED BY <1>1, <1>4, Results

LEMMA PublicKeyParsed ==
  ASSUME NEW buf \in Bytes, public_key_from_bytes(buf).ok
  PROVE  /\ public_key_from_bytes(buf).val = buf
         /\ buf \in PublicKey
BY ParsedElement, RandomScalarIsScalar DEF public_key_from_bytes, PublicKey

LEMMA PublicKeyParses ==
  ASSUME NEW buf \in PublicKey
  PROVE  public_key_from_bytes(buf).ok
BY OrderAssumption
   DEF public_key_from_bytes, PublicKey, Element, deserialize_element, Ok, Truncated,
       NonCanonical, is_identity, identity

(***************************************************************************)
(* What Blind returns.                                                     *)
(***************************************************************************)
LEMMA BlindOpens ==
  ASSUME NEW pk \in PublicKey, pk \in KeyBytes, NEW input \in Inputs, NEW info \in Infos,
         NEW blind \in Scalar, NEW res, res = blind_with_inner(pk, input, info, blind),
         res.ok
  PROVE  LET s == [pk |-> pk, input |-> input, info |-> info, state |-> res.val.state,
                   blinded |-> res.val.blinded, out |-> None]
         IN  s \in Session /\ Opened(s)
<1>1. /\ check_lp_len(input) /\ check_lp_len(info)
      /\ ~is_identity(TweakedKey(pk, info)) /\ ~is_identity(HashToGroup[input])
      /\ res.val = [state   |-> [blind |-> blind, tweaked_key |-> TweakedKey(pk, info)],
                    blinded |-> scalar_mul(blind, HashToGroup[input])]
  BY Results DEF blind_with_inner
<1>2. TweakedKey(pk, info) \in Element \ {identity}
  BY <1>1, TweakedKeyIsElement, RandomScalarIsScalar DEF is_identity
<1>3. scalar_mul(blind, HashToGroup[input]) \in Element
  BY HashAssumption, MulClosed, RandomScalarIsScalar
<1> QED BY <1>1, <1>2, <1>3 DEF Session, BlindState, Opened

(***************************************************************************)
(* What the server sends.                                                  *)
(***************************************************************************)
LEMMA EvaluatedWellFormed ==
  ASSUME NEW t \in RandomScalar, NEW n \in Nat, NEW bs \in [1..n -> Scalar], NEW r \in Scalar
  PROVE  LET resp == response_to_bytes(EvaluateWith(t, bs, r))
         IN  resp.evaluated \in Seq(Bytes) /\ WellFormed(resp)
<1> DEFINE res == EvaluateWith(t, bs, r)
           ev == Scaled(scalar_invert(t), bs)
           resp == response_to_bytes(res)
<1>1. ev \in Seq(Bytes)
  <2>1. scalar_invert(t) \in Scalar BY InverseCancels, RandomScalarIsScalar
  <2>2. \A i \in 1..n : scalar_mul(scalar_invert(t), bs[i]) \in Scalar BY <2>1, MulClosed
  <2>3. ev \in [1..n -> Bytes] BY <2>2, FixedBytesAreBytes DEF Scaled
  <2> QED BY <2>3, SeqDef
<1>2. resp.evaluated = ev BY DEF response_to_bytes, EvaluateWith
<1>3. t \in Scalar BY RandomScalarIsScalar
<1>4. PICK mz, t2, t3 :
        /\ res.proof = [c |-> Challenge(scalar_mul_gen(t), mz, t2, t3),
                        s |-> Linear(r, scalar_sub(0, t),
                                     Challenge(scalar_mul_gen(t), mz, t2, t3))]
        /\ t2.chals = {} /\ t3.chals = {}
  BY DEF EvaluateWith, generate_proof_with_r
<1> DEFINE c == Challenge(scalar_mul_gen(t), mz, t2, t3)
<1>5. Grounded(c)
  <2>1. c.hash.t2 = t2 /\ c.hash.t3 = t3 BY DEF Challenge, hash_to_scalar
  <2> QED BY <1>4, <2>1 DEF Grounded
<1> HIDE DEF c
<1>6. resp = [evaluated |-> ev,
              proof |-> [whole |-> TRUE, c |-> c, s |-> Linear(r, scalar_sub(0, t), c)],
              intact |-> TRUE]
  <2>1. resp = [evaluated |-> res.evaluated,
                proof |-> [whole |-> TRUE, c |-> res.proof.c, s |-> res.proof.s],
                intact |-> TRUE]
    BY DEF response_to_bytes, proof_to_bytes
  <2>2. res.evaluated = ev BY DEF EvaluateWith
  <2> HIDE DEF res
  <2>3. res.proof.c = c /\ res.proof.s = Linear(r, scalar_sub(0, t), c) BY <1>4 DEF c
  <2> QED BY <2>1, <2>2, <2>3
<1>7. scalar_sub(0, t) \in Scalar BY <1>3, NegationCancels
<1>8. WellFormed(resp) BY <1>5, <1>6, <1>7 DEF WellFormed, Linear
<1> QED BY <1>1, <1>2, <1>8

LEMMA BatchWellFormed ==
  ASSUME NEW sk \in SecretKey, NEW info \in Infos, NEW n \in Nat, NEW bs \in [1..n -> Scalar],
         NEW r \in Scalar,
         blind_evaluate_batch_with_r_inner(sk, bs, info, r).ok
  PROVE  LET resp == response_to_bytes(blind_evaluate_batch_with_r_inner(sk, bs, info, r).val)
         IN  resp.evaluated \in Seq(Bytes) /\ WellFormed(resp)
<1>1. /\ compute_t(sk, info).ok
      /\ blind_evaluate_batch_with_r_inner(sk, bs, info, r)
           = Ok(EvaluateWith(compute_t(sk, info).val, bs, r))
  BY Results DEF blind_evaluate_batch_with_r_inner
<1> QED BY <1>1, ComputedT, EvaluatedWellFormed, Results

LEMMA SingleWellFormed ==
  ASSUME NEW sk \in SecretKey, NEW info \in Infos, NEW b \in Scalar, NEW r \in Scalar,
         blind_evaluate_with_r_inner(sk, b, info, r).ok
  PROVE  LET resp == response_to_bytes(blind_evaluate_with_r_inner(sk, b, info, r).val)
         IN  resp.evaluated \in Seq(Bytes) /\ WellFormed(resp)
<1>1. /\ compute_t(sk, info).ok
      /\ blind_evaluate_with_r_inner(sk, b, info, r)
           = Ok(EvaluateWith(compute_t(sk, info).val, <<b>>, r))
  BY Results DEF blind_evaluate_with_r_inner
<1>2. <<b>> \in [1..1 -> Scalar] OBVIOUS
<1> QED BY <1>1, <1>2, ComputedT, EvaluatedWellFormed, Results

(***************************************************************************)
(* Unblinding.                                                             *)
(***************************************************************************)
(* The server that holds the pinned key computes the session's tweaked key *)
(* as its t.                                                               *)
LEMMA PinnedServerComputes ==
  ASSUME NEW s \in Session, Opened(s), NEW k \in SecretKey, PinnedTo(s, k)
  PROVE  compute_t(k, s.info) = Ok(s.state.tweaked_key)
<1>1. s.info \in Infos /\ s.state.tweaked_key # 0
  BY RandomScalarIsScalar DEF Session, BlindState
<1>2. s.state.tweaked_key = TweakedKey(public_key(k), s.info) /\ check_lp_len(s.info)
  BY DEF Opened, PinnedTo
<1> QED BY <1>1, <1>2, ServerComputesTweaked

LEMMA PinnedServerEvaluates ==
  ASSUME NEW s \in Session, Opened(s), NEW k \in SecretKey, PinnedTo(s, k)
  PROVE  evaluate(k, s.input, s.info)
           = Ok(finalize_hash(s.input, s.info,
                              scalar_mul(scalar_invert(s.state.tweaked_key),
                                         HashToGroup[s.input])))
BY PinnedServerComputes, Results DEF evaluate, Opened

(* An element that the tweaked key of a session takes to its blinded       *)
(* element unblinds to the output of Evaluate.  A zero blind is excluded   *)
(* by the element not being the identity.                                  *)
LEMMA UnblindsToEvaluate ==
  ASSUME NEW s \in Session, Opened(s), NEW e \in Scalar \ {0},
         scalar_mul(s.state.tweaked_key, e) = s.blinded,
         NEW k \in SecretKey, PinnedTo(s, k)
  PROVE  evaluate(k, s.input, s.info) = Ok(unblind_and_hash(s.input, s.info, s.state, e))
<1> DEFINE h == HashToGroup[s.input]
           t == s.state.tweaked_key
           b == s.state.blind
<1>1. h \in Scalar /\ b \in Scalar /\ t \in RandomScalar
  BY HashAssumption, RandomScalarIsScalar DEF Session, BlindState
<1>2. scalar_mul(t, e) = scalar_mul(b, h) BY DEF Opened
<1>3. b \in RandomScalar
  <2>1. SUFFICES ASSUME b = 0 PROVE FALSE BY <1>1, RandomScalarIsScalar
  <2>2. scalar_mul(t, e) = 0 BY <1>1, <1>2, <2>1, MulZero
  <2> HIDE DEF t
  <2> QED BY <1>1, <2>2, NoZeroDivisor
<1>4. scalar_mul(scalar_invert(b), e) = scalar_mul(scalar_invert(t), h)
  <2> HIDE DEF t, b, h
  <2> QED BY <1>1, <1>2, <1>3, UnblindIsEvaluate
<1> QED BY <1>4, PinnedServerEvaluates DEF unblind_and_hash

LEMMA UnblindIsOutput ==
  ASSUME NEW s \in Session, NEW info \in Infos, NEW e \in Scalar
  PROVE  unblind_and_hash(s.input, info, s.state, e) \in Output
<1>1. s.input \in Inputs /\ s.state.blind \in Scalar BY DEF Session, BlindState
<1>2. scalar_invert(s.state.blind) \in Scalar
  <2>1. CASE s.state.blind = 0
    BY <2>1, OrderAssumption DEF scalar_invert, Scalar
  <2>2. CASE s.state.blind # 0
    BY <1>1, <2>2, InverseCancels, RandomScalarIsScalar
  <2> QED BY <2>1, <2>2
<1>3. scalar_mul(scalar_invert(s.state.blind), e) \in Element
  BY <1>2, MulClosed, RandomScalarIsScalar
<1> QED BY <1>1, <1>3 DEF unblind_and_hash, finalize_hash, Output

(***************************************************************************)
(* Finalize.                                                               *)
(***************************************************************************)
(* What finalize returns is an output, and if it was given the session's   *)
(* own info it is the output of Evaluate.                                  *)
LEMMA FinalizeIsEvaluate ==
  ASSUME NEW s \in Session, Opened(s), NEW e \in Scalar \ {0}, NEW info \in Infos,
         NEW proof, proof.s.chal \in Scalar, Grounded(proof.c),
         NEW res, res = finalize(s.input, s.state, e, s.blinded, proof, info), res.ok
  PROVE  /\ res.val \in Output
         /\ info = s.info => \A k \in SecretKey :
              PinnedTo(s, k) => evaluate(k, s.input, s.info) = Ok(res.val)
<1>1. /\ verify_proof(generator, s.state.tweaked_key, <<e>>, <<s.blinded>>, proof)
      /\ res.val = unblind_and_hash(s.input, info, s.state, e)
  BY Results DEF finalize
<1>2. /\ s.state.tweaked_key \in Scalar /\ s.state.tweaked_key # 0
      /\ s.blinded \in Scalar
  BY RandomScalarIsScalar DEF Session, BlindState
<1>3. /\ DOMAIN <<e>> = 1..1 /\ <<e>> \in [DOMAIN <<e>> -> Scalar]
      /\ <<s.blinded>> \in [DOMAIN <<e>> -> Scalar]
  BY <1>2
<1>4. \A i \in DOMAIN <<e>> : <<s.blinded>>[i] = scalar_mul(s.state.tweaked_key, <<e>>[i])
  BY <1>1, <1>2, <1>3, VerifySound
<1>5. s.blinded = scalar_mul(s.state.tweaked_key, e) BY <1>3, <1>4
<1> QED BY <1>1, <1>5, UnblindsToEvaluate, UnblindIsOutput

(* finalize_batch is given the fields of the sessions ss, with as many     *)
(* elements, none the identity, and a grounded proof.                      *)
AreFieldsOf(n, ss, inputs, states, bs) ==
  \A i \in 1..n : /\ inputs[i] = ss[i].input
                  /\ states[i] = ss[i].state
                  /\ bs[i] = ss[i].blinded

IsBatch(n, ss, inputs, states, ev, bs, proof) ==
  /\ n \in Nat
  /\ ss \in [1..n -> Session] /\ \A i \in 1..n : Opened(ss[i])
  /\ DOMAIN inputs = 1..n /\ DOMAIN states = 1..n /\ DOMAIN ev = 1..n
  /\ AreFieldsOf(n, ss, inputs, states, bs)
  /\ ev \in [DOMAIN ev -> Scalar] /\ \A i \in 1..n : ev[i] # 0
  /\ bs \in [DOMAIN ev -> Scalar]
  /\ proof.s.chal \in Scalar /\ Grounded(proof.c)

(* The same of every element of a batch.  The check that all tweaked keys  *)
(* agree is what lets one info, that of a session j, stand for all.        *)
LEMMA FinalizeBatchIsEvaluate ==
  ASSUME NEW n, NEW ss, NEW inputs, NEW states, NEW ev, NEW bs, NEW proof,
         IsBatch(n, ss, inputs, states, ev, bs, proof),
         NEW info \in Infos, finalize_batch(inputs, states, ev, bs, proof, info).ok
  PROVE  \A i \in 1..n :
           /\ finalize_batch(inputs, states, ev, bs, proof, info).val[i] \in Output
           /\ (\E j \in 1..n : info = ss[j].info) => \A k \in SecretKey :
                PinnedTo(ss[i], k) =>
                  evaluate(k, ss[i].input, ss[i].info)
                    = Ok(finalize_batch(inputs, states, ev, bs, proof, info).val[i])
<1> DEFINE res == finalize_batch(inputs, states, ev, bs, proof, info)
<1>0. /\ n \in Nat /\ ss \in [1..n -> Session] /\ \A i \in 1..n : Opened(ss[i])
      /\ DOMAIN inputs = 1..n /\ DOMAIN states = 1..n /\ DOMAIN ev = 1..n
      /\ AreFieldsOf(n, ss, inputs, states, bs)
      /\ ev \in [DOMAIN ev -> Scalar] /\ \A i \in 1..n : ev[i] # 0
      /\ bs \in [DOMAIN ev -> Scalar]
      /\ proof.s.chal \in Scalar /\ Grounded(proof.c)
  BY DEF IsBatch
<1>1. /\ \A i \in DOMAIN states : states[i].tweaked_key = states[1].tweaked_key
      /\ verify_proof(generator, states[1].tweaked_key, ev, bs, proof)
      /\ res.val = [i \in DOMAIN inputs |->
                      unblind_and_hash(inputs[i], info, states[i], ev[i])]
  BY Results DEF finalize_batch
<1> HIDE DEF res
<1>2. \A i \in 1..n : /\ ss[i].state.tweaked_key = states[1].tweaked_key
                      /\ res.val[i] = unblind_and_hash(ss[i].input, info, ss[i].state, ev[i])
  <2>1. DOMAIN states = 1..n /\ DOMAIN inputs = 1..n BY <1>0
  <2> TAKE i \in 1..n
  <2>2. states[i].tweaked_key = states[1].tweaked_key BY <1>1, <2>1
  <2>3. res.val[i] = unblind_and_hash(inputs[i], info, states[i], ev[i]) BY <1>1, <2>1
  <2>4. states[i] = ss[i].state /\ inputs[i] = ss[i].input BY <1>0 DEF AreFieldsOf
  <2> QED BY <2>2, <2>3, <2>4
<1> SUFFICES ASSUME NEW i \in 1..n
             PROVE  /\ res.val[i] \in Output
                    /\ (\E j \in 1..n : info = ss[j].info) => \A k \in SecretKey :
                         PinnedTo(ss[i], k) =>
                           evaluate(k, ss[i].input, ss[i].info) = Ok(res.val[i])
  BY DEF res
<1>3. res.val[i] \in Output BY <1>0, <1>2, UnblindIsOutput
<1>4. \A j \in 1..n : /\ ss[j].state.tweaked_key \in Scalar
                      /\ ss[j].state.tweaked_key # 0
                      /\ ss[j].blinded \in Scalar
  BY <1>0, RandomScalarIsScalar DEF Session, BlindState
<1>5. ss[i].blinded = scalar_mul(ss[i].state.tweaked_key, ev[i])
  <2>1. verify_proof(generator, ss[i].state.tweaked_key, ev, bs, proof) BY <1>1, <1>2
  <2>2. DOMAIN ev = 1..n /\ ev \in [DOMAIN ev -> Scalar] /\ bs \in [DOMAIN ev -> Scalar]
    BY <1>0
  <2>3. ss[i].state.tweaked_key \in Scalar /\ ss[i].state.tweaked_key # 0 BY <1>4
  <2>4. Accepted(ss[i].state.tweaked_key, ev, bs, proof) BY <1>0, <2>1, <2>2, <2>3 DEF Accepted
  <2>5. \A j \in DOMAIN ev : bs[j] = scalar_mul(ss[i].state.tweaked_key, ev[j])
    BY <2>4, AcceptedSound
  <2>6. i \in DOMAIN ev BY <1>0
  <2>7. bs[i] = scalar_mul(ss[i].state.tweaked_key, ev[i]) BY <2>5, <2>6
  <2> QED BY <1>0, <2>7 DEF AreFieldsOf
<1>6. ASSUME NEW j \in 1..n, info = ss[j].info
      PROVE  info = ss[i].info
  <2>1. /\ TweakedKey(ss[i].pk, ss[i].info) = TweakedKey(ss[j].pk, ss[j].info)
        /\ check_lp_len(ss[i].info) /\ check_lp_len(ss[j].info)
        /\ ss[i].pk \in KeyBytes /\ ss[j].pk \in KeyBytes
    BY <1>0, <1>2 DEF Opened
  <2>2. /\ ss[i].pk \in PublicKey /\ ss[j].pk \in PublicKey
        /\ ss[i].info \in Infos /\ ss[j].info \in Infos
    BY <1>0 DEF Session
  <2>3. public_key_from_bytes(ss[i].pk).ok /\ public_key_from_bytes(ss[j].pk).ok
    BY <2>2, PublicKeyParses
  <2> QED BY <1>6, <2>1, <2>2, <2>3, CollisionAssumption
<1> QED BY <1>0, <1>2, <1>3, <1>5, <1>6, UnblindsToEvaluate

(***************************************************************************)
(* Every step preserves IInv.  IsResponse is what IInv says of the         *)
(* contents of the channel.                                                *)
(***************************************************************************)
IsResponse(resp) == resp.evaluated \in Seq(Bytes) /\ WellFormed(resp)

IsSession(s) == s # None => s \in Session /\ Opened(s)

IsFile(f) == f # None => f \in StoredSession /\ Opened(f)

LEMMA InvSplit ==
  IInv <=> /\ server \in SecretKey
           /\ client \in PublicKey /\ client \in KeyBytes
           /\ session \in [Tokens -> Session \cup {None}]
           /\ disk \in [Tokens -> StoredSession \cup {None}]
           /\ \A t \in Tokens : IsSession(session[t])
           /\ \A t \in Tokens : IsFile(disk[t])
           /\ \A resp \in responses : IsResponse(resp)
BY DEF IInv, TypeOK, Provenance, IsResponse, IsSession, IsFile

LEMMA InvInit == Init => IInv
<1> SUFFICES ASSUME Init PROVE IInv OBVIOUS
<1>1. server \in KeyBytes /\ secret_key_from_bytes(server).ok BY DEF Init
<1>2. server \in SecretKey BY <1>1, IssuanceAssumption, SecretKeyParsed
<1>3. client = server /\ client \in PublicKey BY <1>2, PublicKeyIsKey DEF Init
<1> QED BY <1>1, <1>2, <1>3 DEF Init, IInv, TypeOK, Provenance

LEMMA ServerNewInv ==
  ASSUME IInv, NEW bytes \in KeyBytes, ServerNew(bytes)
  PROVE  IInv'
<1>1. (secret_key_from_bytes(bytes)).ok => (secret_key_from_bytes(bytes)).val \in SecretKey
  BY IssuanceAssumption, SecretKeyParsed
<1>2. server' \in SecretKey BY <1>1, InvSplit DEF ServerNew
<1>3. UNCHANGED <<client, session, disk, responses>> BY DEF ServerNew
<1> QED BY <1>2, <1>3 DEF IInv, TypeOK, Provenance

LEMMA ClientNewInv ==
  ASSUME IInv, NEW bytes \in KeyBytes, ClientNew(bytes)
  PROVE  IInv'
<1>1. public_key_from_bytes(bytes).ok =>
        /\ public_key_from_bytes(bytes).val = bytes
        /\ bytes \in PublicKey
  BY IssuanceAssumption, PublicKeyParsed
<1>2. client' \in PublicKey /\ client' \in KeyBytes BY <1>1, InvSplit DEF ClientNew
<1>3. UNCHANGED <<server, session, disk, responses>> BY DEF ClientNew
<1> QED BY <1>2, <1>3 DEF IInv, TypeOK, Provenance

LEMMA OpenSessionInv ==
  ASSUME IInv, NEW t \in Tokens, NEW input \in Inputs, NEW info \in Infos,
         NEW blind \in Scalar,
         OpenSession(t, input, info, blind_with_inner(client, input, info, blind))
  PROVE  IInv'
<1> DEFINE res == blind_with_inner(client, input, info, blind)
           s == [pk |-> client, input |-> input, info |-> info, state |-> res.val.state,
                 blinded |-> res.val.blinded, out |-> None]
<1>1. res.ok => s \in Session /\ Opened(s) BY BlindOpens, InvSplit
<1>2. session' = IF res.ok THEN [session EXCEPT ![t] = s] ELSE session
  BY DEF OpenSession
<1>3. UNCHANGED <<server, client, disk, responses>> BY DEF OpenSession
<1> HIDE DEF s, res
<1>4. /\ session' \in [Tokens -> Session \cup {None}]
      /\ \A u \in Tokens : session'[u] # None => Opened(session'[u])
  BY <1>1, <1>2 DEF IInv, TypeOK, Provenance
<1> QED BY <1>3, <1>4 DEF IInv, TypeOK, Provenance

LEMMA ReplyInv ==
  ASSUME IInv, NEW res, res.ok => IsResponse(response_to_bytes(res.val)), Reply(res)
  PROVE  IInv'
<1>1. UNCHANGED <<server, client, session, disk>> BY DEF Reply
<1>2. \A resp \in responses' : IsResponse(resp) BY InvSplit DEF Reply
<1> QED BY <1>1, <1>2 DEF IInv, TypeOK, Provenance, IsResponse

LEMMA BlindInv ==
  ASSUME IInv, NEW t \in Tokens, NEW input \in Inputs, NEW info \in Infos,
         Blind(t, input, info)
  PROVE  IInv'
<1>1. PICK blind \in Blinds :
        OpenSession(t, input, info, blind_with_inner(client, input, info, blind))
  BY DEF Blind
<1>2. blind \in Scalar BY IssuanceAssumption, RandomScalarIsScalar
<1> QED BY <1>1, <1>2, OpenSessionInv

LEMMA BlindWithScalarInv ==
  ASSUME IInv, NEW t \in Tokens, NEW input \in Inputs, NEW info \in Infos,
         NEW bytes \in BlindBytes, BlindWithScalar(t, input, info, bytes)
  PROVE  IInv'
<1>1. bytes \in Bytes BY IssuanceAssumption, FixedBytesAreBytes
<1>2. CASE deserialize_scalar(bytes).ok
  <2>1. /\ deserialize_scalar(bytes).val \in Scalar
        /\ blind_with_scalar(client, input, info, bytes)
             = blind_with_inner(client, input, info, deserialize_scalar(bytes).val)
    BY <1>1, <1>2, ParsedScalar DEF blind_with_scalar
  <2> QED BY <2>1, OpenSessionInv DEF BlindWithScalar
<1>3. CASE ~deserialize_scalar(bytes).ok
  <2>1. ~blind_with_scalar(client, input, info, bytes).ok
    BY <1>3 DEF blind_with_scalar
  <2>2. UNCHANGED <<server, client, session, disk, responses>>
    BY <2>1 DEF BlindWithScalar, OpenSession
  <2> QED BY <2>2 DEF IInv, TypeOK, Provenance
<1> QED BY <1>2, <1>3

(* Requests that are parsed, and batches of sessions in one process.       *)
LEMMA BlindEvaluateInv ==
  ASSUME IInv, NEW buf \in RequestBytes, NEW info \in Infos, BlindEvaluate(buf, info)
  PROVE  IInv'
<1> DEFINE blinded == deserialize_element(buf)
           res(r) == IF blinded.ok
                     THEN blind_evaluate_with_r_inner(server, blinded.val, info, r)
                     ELSE blinded
<1>1. PICK r \in Nonces : Reply(res(r)) BY DEF BlindEvaluate
<1>2. r \in Scalar /\ buf \in Bytes BY IssuanceAssumption, RandomScalarIsScalar
<1>3. ASSUME res(r).ok PROVE IsResponse(response_to_bytes(res(r).val))
  <2>1. blinded.ok BY <1>3
  <2>2. blinded.val \in Scalar BY <1>2, <2>1, ParsedElement
  <2>3. res(r) = blind_evaluate_with_r_inner(server, blinded.val, info, r) BY <2>1
  <2> HIDE DEF blinded, res
  <2> QED BY <1>2, <1>3, <2>2, <2>3, SingleWellFormed, InvSplit DEF IsResponse
<1> HIDE DEF res
<1> QED BY <1>1, <1>3, ReplyInv

LEMMA BlindEvaluateWithProofScalarInv ==
  ASSUME IInv, NEW buf \in RequestBytes, NEW info \in Infos, NEW bytes \in NonceBytes,
         BlindEvaluateWithProofScalar(buf, info, bytes)
  PROVE  IInv'
<1> DEFINE blinded == deserialize_element(buf)
           r == deserialize_scalar(bytes)
           res == IF ~blinded.ok THEN blinded
                  ELSE IF ~r.ok THEN r
                  ELSE blind_evaluate_with_r_inner(server, blinded.val, info, r.val)
<1>1. Reply(res) BY DEF BlindEvaluateWithProofScalar
<1>2. bytes \in Bytes /\ buf \in Bytes BY IssuanceAssumption, FixedBytesAreBytes
<1>3. ASSUME res.ok PROVE IsResponse(response_to_bytes(res.val))
  <2>1. blinded.ok /\ r.ok BY <1>3
  <2>2. blinded.val \in Scalar /\ r.val \in Scalar
    BY <1>2, <2>1, ParsedElement, ParsedScalar
  <2>3. res = blind_evaluate_with_r_inner(server, blinded.val, info, r.val) BY <2>1
  <2> HIDE DEF blinded, r, res
  <2> QED BY <1>3, <2>2, <2>3, SingleWellFormed, InvSplit DEF IsResponse
<1> HIDE DEF res
<1> QED BY <1>1, <1>3, ReplyInv

LEMMA RequestedBatch ==
  ASSUME NEW bufs \in Batches(RequestBytes)
  PROVE  \E n \in Nat : bufs \in [1..n -> Bytes]
<1>1. PICK n \in 0..MaxBatch : bufs \in [1..n -> RequestBytes] BY DEF Batches
<1>2. n \in Nat BY IssuanceAssumption
<1> QED BY <1>1, <1>2, IssuanceAssumption

LEMMA BlindEvaluateBatchInv ==
  ASSUME IInv, NEW bufs \in Batches(RequestBytes), NEW info \in Infos,
         BlindEvaluateBatch(bufs, info)
  PROVE  IInv'
<1> DEFINE blinded == deserialize_elements(bufs)
           res(r) == IF blinded.ok
                     THEN blind_evaluate_batch_with_r_inner(server, blinded.val, info, r)
                     ELSE blinded
<1>1. PICK r \in Nonces : Reply(res(r)) BY DEF BlindEvaluateBatch
<1>2. r \in Scalar BY IssuanceAssumption, RandomScalarIsScalar
<1>3. PICK n \in Nat : bufs \in [1..n -> Bytes] BY RequestedBatch
<1>4. ASSUME res(r).ok PROVE IsResponse(response_to_bytes(res(r).val))
  <2>1. blinded.ok BY <1>4
  <2>2. blinded.val \in [1..n -> Scalar] BY <1>3, <2>1, ParsedElements
  <2>3. res(r) = blind_evaluate_batch_with_r_inner(server, blinded.val, info, r) BY <2>1
  <2> HIDE DEF blinded, res
  <2> QED BY <1>2, <1>3, <1>4, <2>2, <2>3, BatchWellFormed, InvSplit DEF IsResponse
<1> HIDE DEF res
<1> QED BY <1>1, <1>4, ReplyInv

LEMMA BlindEvaluateBatchWithProofScalarInv ==
  ASSUME IInv, NEW bufs \in Batches(RequestBytes), NEW info \in Infos,
         NEW bytes \in NonceBytes, BlindEvaluateBatchWithProofScalar(bufs, info, bytes)
  PROVE  IInv'
<1> DEFINE blinded == deserialize_elements(bufs)
           r == deserialize_scalar(bytes)
           res == IF ~blinded.ok THEN blinded
                  ELSE IF ~r.ok THEN r
                  ELSE blind_evaluate_batch_with_r_inner(server, blinded.val, info, r.val)
<1>1. Reply(res) BY DEF BlindEvaluateBatchWithProofScalar
<1>2. bytes \in Bytes BY IssuanceAssumption, FixedBytesAreBytes
<1>3. PICK n \in Nat : bufs \in [1..n -> Bytes] BY RequestedBatch
<1>4. ASSUME res.ok PROVE IsResponse(response_to_bytes(res.val))
  <2>1. blinded.ok /\ r.ok BY <1>4
  <2>2. blinded.val \in [1..n -> Scalar] /\ r.val \in Scalar
    BY <1>2, <1>3, <2>1, ParsedElements, ParsedScalar
  <2>3. res = blind_evaluate_batch_with_r_inner(server, blinded.val, info, r.val) BY <2>1
  <2> HIDE DEF blinded, r, res
  <2> QED BY <1>3, <1>4, <2>2, <2>3, BatchWellFormed, InvSplit DEF IsResponse
<1> HIDE DEF res
<1> QED BY <1>1, <1>4, ReplyInv

LEMMA BlindEvaluateLocalInv ==
  ASSUME IInv, NEW ts \in Batches(Tokens), NEW info \in Infos, BlindEvaluateLocal(ts, info)
  PROVE  IInv'
<1> DEFINE blinded == [i \in DOMAIN ts |-> session[ts[i]].blinded]
           res(r) == blind_evaluate_batch_with_r_inner(server, blinded, info, r)
<1>1. PICK r \in Nonces : Reply(res(r)) BY DEF BlindEvaluateLocal
<1>2. r \in Scalar BY IssuanceAssumption, RandomScalarIsScalar
<1>3. PICK n \in 0..MaxBatch : ts \in [1..n -> Tokens] BY DEF Batches
<1>4. n \in Nat BY IssuanceAssumption
<1>5. \A i \in 1..n : session[ts[i]].blinded \in Scalar
  <2> TAKE i \in 1..n
  <2>1. session[ts[i]] # None BY <1>3 DEF BlindEvaluateLocal
  <2> QED BY <1>3, <2>1, InvSplit, RandomScalarIsScalar DEF IsSession, Session
<1>6. blinded \in [1..n -> Scalar] BY <1>3, <1>5
<1> HIDE DEF blinded
<1>7. res(r).ok => IsResponse(response_to_bytes(res(r).val))
  BY <1>2, <1>4, <1>6, BatchWellFormed, InvSplit DEF IsResponse
<1> HIDE DEF res
<1> QED BY <1>1, <1>7, ReplyInv

LEMMA LoseInv ==
  ASSUME IInv, NEW resp \in responses, Lose(resp)
  PROVE  IInv'
BY DEF Lose, IInv, TypeOK, Provenance

(* A damaged response is still a list of buffers and a grounded proof: no  *)
(* damage makes the proof transcript contain its own hash.                 *)
LEMMA DamagedIsResponse ==
  ASSUME IInv, NEW resp \in responses, NEW kind \in Damages, NEW dam \in Damaged(kind, resp)
  PROVE  IsResponse([dam EXCEPT !.intact = FALSE])
<1>1. IsResponse(resp) BY InvSplit
<1>2. PICK n \in Nat : resp.evaluated \in [1..n -> Bytes] BY <1>1, SeqDef DEF IsResponse
<1>3. /\ DOMAIN resp = {"evaluated", "proof", "intact"}
      /\ DOMAIN resp.proof = {"whole", "c", "s"}
      /\ DOMAIN resp.proof.s = {"one", "chal", "of"}
  BY <1>1 DEF IsResponse, WellFormed
<1>4. DamagedBytes \subseteq Bytes BY IssuanceAssumption
<1>5. 0 \in Scalar BY OrderAssumption DEF Scalar
<1>6. IsResponse(dam) /\ DOMAIN dam = {"evaluated", "proof", "intact"}
  <2>1. CASE kind = "field"
    <3>1. CASE \E i \in DOMAIN resp.evaluated, b \in DamagedBytes :
                 dam = [resp EXCEPT !.evaluated[i] = b]
      <4>1. PICK i \in 1..n, b \in Bytes : dam = [resp EXCEPT !.evaluated[i] = b]
        BY <1>2, <1>4, <3>1
      <4>2. [resp.evaluated EXCEPT ![i] = b] \in [1..n -> Bytes] BY <1>2
      <4>3. dam.evaluated = [resp.evaluated EXCEPT ![i] = b] /\ dam.proof = resp.proof
        BY <1>3, <4>1
      <4> QED BY <1>1, <1>3, <4>1, <4>2, <4>3, SeqDef DEF IsResponse, WellFormed
    <3>2. CASE \E b \in DamagedBytes : dam = [resp EXCEPT !.proof.c = RawScalar(b)]
      <4>1. PICK b : dam = [resp EXCEPT !.proof.c = RawScalar(b)] BY <3>2
      <4>2. Grounded(RawScalar(b)) BY DEF Grounded, RawScalar
      <4> QED BY <1>1, <1>3, <4>1, <4>2 DEF IsResponse, WellFormed
    <3>3. CASE \E b \in DamagedBytes : dam = [resp EXCEPT !.proof.s.one = b]
      <4>1. PICK b : dam = [resp EXCEPT !.proof.s.one = b] BY <3>3
      <4> QED BY <1>1, <1>3, <4>1 DEF IsResponse, WellFormed
    <3>4. CASE \E b \in DamagedBytes :
                 dam = [resp EXCEPT !.proof.s = Linear(b, 0, RawScalar(0))]
      <4>1. PICK b : dam = [resp EXCEPT !.proof.s = Linear(b, 0, RawScalar(0))] BY <3>4
      <4> QED BY <1>1, <1>3, <1>5, <4>1 DEF IsResponse, WellFormed, Linear
    <3>5. dam \in DamagedElement(resp) \/ dam \in DamagedScalar(resp)
      BY <2>1 DEF Damaged
    <3>6. CASE dam \in DamagedElement(resp) BY <3>1, <3>6 DEF DamagedElement
    <3>7. CASE dam \in DamagedScalar(resp)
      <4>1. \/ \E b \in DamagedBytes : dam = [resp EXCEPT !.proof.c = RawScalar(b)]
            \/ \E b \in DamagedBytes : dam = [resp EXCEPT !.proof.s.one = b]
            \/ \E b \in DamagedBytes : dam = [resp EXCEPT !.proof.s = Linear(b, 0, RawScalar(0))]
        BY <3>7 DEF DamagedScalar
      <4> QED BY <3>2, <3>3, <3>4, <4>1
    <3> QED BY <3>5, <3>6, <3>7
  <2>2. CASE kind = "list"
    <3> DEFINE e == resp.evaluated
    <3>1. Len(e) = n /\ DOMAIN e = 1..n BY <1>2
    <3>2. CASE dam = [resp EXCEPT !.evaluated = SubSeq(@, 2, Len(@))]
      <4>1. SubSeq(e, 2, Len(e)) \in Seq(Bytes)
        BY <1>1, <3>1, SubSeqProperties DEF IsResponse
      <4> QED BY <1>1, <1>3, <3>2, <4>1 DEF IsResponse, WellFormed
    <3>3. CASE dam = [resp EXCEPT !.evaluated = [i \in DOMAIN @ |-> @[Len(@) + 1 - i]]]
      <4>1. [i \in 1..n |-> e[n + 1 - i]] \in [1..n -> Bytes] BY <1>2
      <4>2. [i \in 1..n |-> e[n + 1 - i]] \in Seq(Bytes) BY <4>1, SeqDef
      <4>3. dam.evaluated = [i \in 1..n |-> e[n + 1 - i]] /\ dam.proof = resp.proof
        BY <1>3, <3>1, <3>3
      <4> QED BY <1>1, <1>3, <3>3, <4>2, <4>3 DEF IsResponse, WellFormed
    <3> QED BY <2>2, <3>2, <3>3 DEF Damaged, DamagedList
  <2>3. CASE kind = "length"
    <3>1. dam = [resp EXCEPT !.proof.whole = FALSE] BY <2>3 DEF Damaged, DamagedLength
    <3> QED BY <1>1, <1>3, <3>1 DEF IsResponse, WellFormed
  <2>4. CASE kind = "splice"
    <3>1. PICK other \in responses : dam = [resp EXCEPT !.proof = other.proof]
      BY <2>4 DEF Damaged, DamagedSplice
    <3>2. IsResponse(other) BY InvSplit
    <3> QED BY <1>1, <1>3, <3>1, <3>2 DEF IsResponse, WellFormed
  <2> QED BY <2>1, <2>2, <2>3, <2>4, IssuanceAssumption
<1> QED BY <1>6 DEF IsResponse, WellFormed

LEMMA DamageInv ==
  ASSUME IInv, NEW resp \in responses, Damage(resp)
  PROVE  IInv'
<1>1. UNCHANGED <<server, client, session, disk>> BY DEF Damage
<1>2. PICK kind \in Damages : \E dam \in Damaged(kind, resp) :
        responses' = (responses \ {resp}) \cup {[dam EXCEPT !.intact = FALSE]}
  BY DEF Damage
<1>3. \A r \in responses' : IsResponse(r) BY <1>2, DamagedIsResponse, InvSplit
<1> QED BY <1>1, <1>3 DEF IInv, TypeOK, Provenance, IsResponse

LEMMA PersistInv ==
  ASSUME IInv, NEW t \in Tokens, Persist(t)
  PROVE  IInv'
<1> DEFINE file == session_to_bytes(session[t])
<1>1. session[t] \in Session /\ Opened(session[t])
  BY InvSplit DEF Persist, IsSession
<1>2. file \in StoredSession /\ Opened(file)
  BY <1>1 DEF session_to_bytes, blind_state_to_bytes, Session, StoredSession, BlindState, Opened
<1>3. disk' = [disk EXCEPT ![t] = file] /\ UNCHANGED <<server, client, session, responses>>
  BY DEF Persist
<1> HIDE DEF file
<1>4. /\ disk' \in [Tokens -> StoredSession \cup {None}]
      /\ \A u \in Tokens : disk'[u] # None => Opened(disk'[u])
  BY <1>2, <1>3 DEF IInv, TypeOK, Provenance
<1> QED BY <1>3, <1>4 DEF IInv, TypeOK, Provenance

LEMMA CrashInv == ASSUME IInv, Crash PROVE IInv'
<1>1. session' = [t \in Tokens |-> None] /\ UNCHANGED <<server, client, responses>>
  BY DEF Crash
<1>2. /\ disk' \in [Tokens -> StoredSession \cup {None}]
      /\ \A u \in Tokens : disk'[u] # None => Opened(disk'[u])
  <2>1. CASE UNCHANGED disk BY <2>1 DEF IInv, TypeOK, Provenance
  <2>2. CASE \E t \in Live : disk' = [disk EXCEPT ![t] = Torn(session_to_bytes(session[t]))]
    <3>1. PICK t \in Live : disk' = [disk EXCEPT ![t] = Torn(session_to_bytes(session[t]))]
      BY <2>2
    <3> DEFINE file == Torn(session_to_bytes(session[t]))
    <3>2. session[t] \in Session /\ Opened(session[t]) BY InvSplit DEF Live, IsSession
    <3>3. file \in StoredSession /\ Opened(file)
      BY <3>2 DEF session_to_bytes, blind_state_to_bytes, Torn, Session, StoredSession,
                  BlindState, Opened
    <3> HIDE DEF file
    <3> QED BY <3>1, <3>3 DEF IInv, TypeOK, Provenance, file
  <2> QED BY <2>1, <2>2 DEF Crash
<1> QED BY <1>1, <1>2 DEF IInv, TypeOK, Provenance

(* What a file that is accepted restores is a session as Blind opened it.  *)
LEMMA RestoreOpens ==
  ASSUME IInv, NEW t \in Tokens, Restore(t)
  PROVE  \/ UNCHANGED session
         \/ \E s \in Session : /\ session' = [session EXCEPT ![t] = s]
                               /\ Opened(s) /\ s.out = None
<1> DEFINE file == disk[t]
           state == blind_state_from_bytes(file.state)
           blinded == deserialize_element(file.blinded)
           s == [pk |-> file.pk, input |-> file.input, info |-> file.info,
                 state |-> state.val, blinded |-> blinded.val, out |-> None]
<1>1. \/ session' = session
      \/ state.ok /\ blinded.ok /\ session' = [session EXCEPT ![t] = s]
  BY DEF Restore
<1>2. file \in StoredSession /\ Opened(file) BY InvSplit DEF Restore, IsFile
<1>3. ASSUME state.ok, blinded.ok PROVE s \in Session /\ Opened(s)
  <2>1. /\ file.state.blind \in Bytes /\ file.state.tweaked_key \in Bytes
        /\ file.blinded \in Bytes
    BY <1>2, FixedBytesAreBytes, RandomScalarIsScalar DEF StoredSession
  <2>2. blinded.val = file.blinded BY <1>3, <2>1, ParsedElement
  <2>3. /\ deserialize_scalar(file.state.blind).ok
        /\ deserialize_element(file.state.tweaked_key).ok
        /\ state.val = [blind |-> deserialize_scalar(file.state.blind).val,
                        tweaked_key |-> deserialize_element(file.state.tweaked_key).val]
    BY <1>3, Results DEF blind_state_from_bytes
  <2>4. state.val = [blind |-> file.state.blind, tweaked_key |-> file.state.tweaked_key]
    BY <2>1, <2>3, ParsedElement, ParsedScalar
  <2> QED BY <1>2, <2>2, <2>4 DEF Session, StoredSession, BlindState, Opened
<1>4. s.out = None OBVIOUS
<1> HIDE DEF s, state, blinded
<1> QED BY <1>1, <1>3, <1>4

LEMMA RestoreInv ==
  ASSUME IInv, NEW t \in Tokens, Restore(t)
  PROVE  IInv'
<1>1. UNCHANGED <<server, client, disk, responses>> BY DEF Restore
<1>2. /\ session' \in [Tokens -> Session \cup {None}]
      /\ \A u \in Tokens : session'[u] # None => Opened(session'[u])
  BY RestoreOpens DEF IInv, TypeOK, Provenance
<1> QED BY <1>1, <1>2 DEF IInv, TypeOK, Provenance

(***************************************************************************)
(* Finalizing changes nothing of a session but its output, and that to an  *)
(* output, which is that of Evaluate if the caller is consistent.          *)
(***************************************************************************)
\* What AcceptedOutputIsEvaluate says of one session.
IsEvaluated(s) ==
  \A k \in SecretKey :
    s.out # None /\ PinnedTo(s, k) => evaluate(k, s.input, s.info) = Ok(s.out)

\* The output of s is there, and is that of Evaluate.
HasOutput(s) ==
  \A k \in SecretKey : PinnedTo(s, k) => evaluate(k, s.input, s.info) = Ok(s.out)

(* A session with its output set is still one, opened as before.           *)
LEMMA OutputSet ==
  ASSUME NEW s \in Session, Opened(s), NEW o \in Output
  PROVE  /\ [s EXCEPT !.out = o] \in Session
         /\ Opened([s EXCEPT !.out = o])
         /\ [s EXCEPT !.out = o].out = o
         /\ \A k \in SecretKey : PinnedTo([s EXCEPT !.out = o], k) <=> PinnedTo(s, k)
         /\ [s EXCEPT !.out = o].input = s.input
         /\ [s EXCEPT !.out = o].info = s.info
         /\ Claimed([s EXCEPT !.out = o]) = Claimed(s)
BY DEF Session, Opened, PinnedTo, Claimed

LEMMA ProofParsed ==
  ASSUME NEW resp, IsResponse(resp), proof_from_bytes(resp.proof).ok
  PROVE  /\ proof_from_bytes(resp.proof).val.s.chal \in Scalar
         /\ Grounded(proof_from_bytes(resp.proof).val.c)
<1>1. proof_from_bytes(resp.proof) = Ok([c |-> resp.proof.c, s |-> resp.proof.s])
  BY Results DEF proof_from_bytes
<1> QED BY <1>1, Results DEF IsResponse, WellFormed

LEMMA FinalizeStep ==
  ASSUME IInv, NEW t \in Tokens, NEW resp \in responses, NEW i \in DOMAIN resp.evaluated,
         Finalize(t, resp, i)
  PROVE  /\ UNCHANGED <<server, client, disk, responses>>
         /\ \/ UNCHANGED session
            \/ \E s \in Session :
                 /\ session' = [session EXCEPT ![t] = s]
                 /\ Opened(s)
                 /\ session[t] # None /\ Claimed(s) = Claimed(session[t])
                 /\ ConsistentCaller => HasOutput(s)
<1> DEFINE evaluated == deserialize_element(resp.evaluated[i])
           proof == proof_from_bytes(resp.proof)
           s == session[t]
           res(info) == IF ~evaluated.ok THEN evaluated
                        ELSE IF ~proof.ok THEN proof
                        ELSE finalize(s.input, s.state, evaluated.val, s.blinded,
                                      proof.val, info)
<1>1. s # None /\ UNCHANGED <<server, client, disk, responses>> BY DEF Finalize
<1>2. PICK info \in FinalizeInfos(<<t>>) :
        session' = IF res(info).ok THEN [session EXCEPT ![t].out = res(info).val] ELSE session
  BY DEF Finalize
<1>3. s \in Session /\ Opened(s) /\ IsResponse(resp) BY <1>1, InvSplit DEF IsSession
<1>4. info \in Infos /\ (ConsistentCaller => info = s.info)
  BY <1>3 DEF FinalizeInfos, Session
<1>5. resp.evaluated[i] \in Bytes BY <1>3 DEF IsResponse
<1>6. ASSUME res(info).ok
      PROVE  /\ res(info).val \in Output
             /\ ConsistentCaller => \A k \in SecretKey :
                  PinnedTo(s, k) => evaluate(k, s.input, s.info) = Ok(res(info).val)
  <2>1. /\ evaluated.ok /\ proof.ok
        /\ res(info) = finalize(s.input, s.state, evaluated.val, s.blinded, proof.val, info)
    BY <1>6
  <2>2. evaluated.val \in Scalar \ {0} BY <1>5, <2>1, ParsedElement
  <2>3. proof.val.s.chal \in Scalar /\ Grounded(proof.val.c) BY <1>3, <2>1, ProofParsed
  <2> HIDE DEF evaluated, proof, res, s
  <2> QED BY <1>3, <1>4, <1>6, <2>1, <2>2, <2>3, FinalizeIsEvaluate
<1> HIDE DEF res
<1>7. CASE ~res(info).ok BY <1>1, <1>2, <1>7
<1>8. CASE res(info).ok
  <2> DEFINE new == [s EXCEPT !.out = res(info).val]
  <2>1. session' = [session EXCEPT ![t] = new] BY <1>2, <1>8
  <2>2. new \in Session /\ Opened(new) BY <1>3, <1>6, <1>8, OutputSet
  <2>3. ConsistentCaller => HasOutput(new)
    BY <1>3, <1>6, <1>8, OutputSet DEF HasOutput
  <2>4. Claimed(new) = Claimed(s) BY <1>3, <1>6, <1>8, OutputSet
  <2> QED BY <1>1, <2>1, <2>2, <2>3, <2>4
<1> QED BY <1>7, <1>8

(* What the arguments of finalizeBatch are parsed to is what they were      *)
(* written from.                                                           *)
LEMMA StateSurvives ==
  ASSUME NEW state \in BlindState
  PROVE  blind_state_from_bytes(blind_state_to_bytes(state)) = Ok(state)
<1>1. state.blind \in Scalar /\ state.tweaked_key \in Scalar /\ state.tweaked_key # 0
  BY RandomScalarIsScalar DEF BlindState
<1>2. state = [blind |-> state.blind, tweaked_key |-> state.tweaked_key] BY DEF BlindState
<1>3. deserialize_scalar(state.blind) = Ok(state.blind)
  BY <1>1, OrderAssumption DEF deserialize_scalar, Truncated, NonCanonical, Scalar
<1>4. deserialize_element(state.tweaked_key) = Ok(state.tweaked_key)
  BY <1>1, OrderAssumption
     DEF deserialize_element, Truncated, NonCanonical, is_identity, identity, Scalar
<1> QED BY <1>2, <1>3, <1>4, Results DEF blind_state_from_bytes, blind_state_to_bytes

(* What finalizeBatch accepts, it finalizes as the objects would be.       *)
LEMMA TextIsBytes ==
  ASSUME NEW n \in Nat, NEW ts \in [1..n -> Tokens], NEW m \in Nat,
         \A i \in 1..n : session[ts[i]] \in Session,
         NEW resp, resp.evaluated \in [1..m -> Bytes],
         NEW info, NEW pk_bytes, FinalizeText(pk_bytes, ts, resp, info).ok
  PROVE  FinalizeText(pk_bytes, ts, resp, info) = FinalizeBytes(ts, resp, info)
<1> DEFINE pk == public_key_from_bytes(pk_bytes)
           state(i) == blind_state_from_bytes(blind_state_to_bytes(session[ts[i]].state))
           blinded(i) == deserialize_element(session[ts[i]].blinded)
           evaluated(i) == deserialize_element(resp.evaluated[i])
           Parsed(i) == IF ~state(i).ok THEN state(i)
                        ELSE IF ~blinded(i).ok THEN blinded(i)
                        ELSE evaluated(i)
           bad == {i \in DOMAIN ts : ~Parsed(i).ok}
           proof == proof_from_bytes(resp.proof)
           inputs == [i \in DOMAIN ts |-> session[ts[i]].input]
           sts == [i \in DOMAIN ts |-> state(i).val]
           evs == [i \in DOMAIN ts |-> evaluated(i).val]
           bs == [i \in DOMAIN ts |-> blinded(i).val]
           text == finalize_batch(inputs, sts, evs, bs, proof.val, info)
           es == deserialize_elements(resp.evaluated)
           states == [i \in DOMAIN ts |-> session[ts[i]].state]
           blindeds == [i \in DOMAIN ts |-> session[ts[i]].blinded]
           bytes == finalize_batch(inputs, states, es.val, blindeds, proof.val, info)
<1>1. /\ DOMAIN ts = 1..n /\ Len(ts) = n
      /\ DOMAIN resp.evaluated = 1..m /\ Len(resp.evaluated) = m
  OBVIOUS
<1>2. FinalizeText(pk_bytes, ts, resp, info)
        = IF ~pk.ok THEN pk
          ELSE IF n # m THEN Err("LengthMismatch")
          ELSE IF bad # {} THEN Err(Parsed(First(bad)).err)
          ELSE IF ~proof.ok THEN proof
          ELSE text
  BY <1>1 DEF FinalizeText
<1>3. FinalizeBytes(ts, resp, info)
        = IF ~es.ok THEN es ELSE IF ~proof.ok THEN proof ELSE bytes
  BY DEF FinalizeBytes
<1>4. n = m /\ bad = {} /\ proof.ok /\ FinalizeText(pk_bytes, ts, resp, info) = text
  <2> HIDE DEF pk, Parsed, bad, proof, text
  <2> QED BY <1>2, Results
<1>5. \A i \in 1..n : state(i).ok /\ state(i).val = session[ts[i]].state
  BY StateSurvives, Results DEF Session
<1>6. \A i \in 1..n : blinded(i).ok /\ evaluated(i).ok BY <1>1, <1>4, <1>5
<1>7. \A i \in 1..n : blinded(i).val = session[ts[i]].blinded
  <2>1. \A i \in 1..n : session[ts[i]].blinded \in Bytes
    BY FixedBytesAreBytes, RandomScalarIsScalar DEF Session
  <2> QED BY <1>6, <2>1, ParsedElement
<1>8. es.ok /\ es.val = evs BY <1>1, <1>4, <1>6, Results DEF deserialize_elements
<1>9. sts = states /\ bs = blindeds BY <1>1, <1>5, <1>7
<1> HIDE DEF proof, evs, es, sts, bs, states, blindeds, inputs
<1> QED BY <1>3, <1>4, <1>8, <1>9

(* What the library accepts, finalizeBatch accepts, unless it is given a   *)
(* public key or a blinded element that does not parse.                    *)
LEMMA BytesAreText ==
  ASSUME NEW n \in Nat, NEW ts \in [1..n -> Tokens],
         \A i \in 1..n : session[ts[i]] \in Session,
         \A i \in 1..n : deserialize_element(session[ts[i]].blinded).ok,
         NEW resp, resp.evaluated \in [1..n -> Bytes],
         NEW pk_bytes, public_key_from_bytes(pk_bytes).ok,
         NEW info, FinalizeBytes(ts, resp, info).ok
  PROVE  FinalizeText(pk_bytes, ts, resp, info).ok
<1> DEFINE state(i) == blind_state_from_bytes(blind_state_to_bytes(session[ts[i]].state))
           blinded(i) == deserialize_element(session[ts[i]].blinded)
           evaluated(i) == deserialize_element(resp.evaluated[i])
           Parsed(i) == IF ~state(i).ok THEN state(i)
                        ELSE IF ~blinded(i).ok THEN blinded(i)
                        ELSE evaluated(i)
           proof == proof_from_bytes(resp.proof)
           inputs == [i \in DOMAIN ts |-> session[ts[i]].input]
           sts == [i \in DOMAIN ts |-> state(i).val]
           evs == [i \in DOMAIN ts |-> evaluated(i).val]
           bs == [i \in DOMAIN ts |-> blinded(i).val]
           es == deserialize_elements(resp.evaluated)
           states == [i \in DOMAIN ts |-> session[ts[i]].state]
           blindeds == [i \in DOMAIN ts |-> session[ts[i]].blinded]
<1>1. DOMAIN ts = 1..n /\ Len(ts) = n /\ DOMAIN resp.evaluated = 1..n
      /\ Len(resp.evaluated) = n
  OBVIOUS
<1>2. /\ es.ok /\ proof.ok
      /\ finalize_batch(inputs, states, es.val, blindeds, proof.val, info).ok
  BY DEF FinalizeBytes
<1>3. (\A i \in 1..n : evaluated(i).ok) /\ es.val = evs
  BY <1>1, <1>2, Results DEF deserialize_elements
<1>4. \A i \in 1..n : state(i).ok /\ state(i).val = session[ts[i]].state
  BY StateSurvives, Results DEF Session
<1>5. \A i \in 1..n : blinded(i).val = session[ts[i]].blinded
  <2>1. \A i \in 1..n : session[ts[i]].blinded \in Bytes
    BY FixedBytesAreBytes, RandomScalarIsScalar DEF Session
  <2> QED BY <2>1, ParsedElement
<1>6. {i \in DOMAIN ts : ~Parsed(i).ok} = {} BY <1>1, <1>3, <1>4
<1>7. sts = states /\ bs = blindeds BY <1>1, <1>4, <1>5
<1>8. finalize_batch(inputs, sts, evs, bs, proof.val, info).ok
  <2> HIDE DEF proof, evs, es, sts, bs, states, blindeds, inputs
  <2> QED BY <1>2, <1>3, <1>7
<1>9. FinalizeText(pk_bytes, ts, resp, info)
        = finalize_batch(inputs, sts, evs, bs, proof.val, info)
  BY <1>1, <1>2, <1>6 DEF FinalizeText
<1> QED BY <1>8, <1>9

(* Outputs are given to sessions only if the batch was finalized, and are  *)
(* those of finalize_batch.                                                *)
LEMMA RevealBatchStep ==
  ASSUME IInv, NEW ts \in Batches(Tokens), NEW resp \in responses,
         \A i \in DOMAIN ts : session[ts[i]] # None,
         NEW info \in FinalizeInfos(ts), NEW outcome,
         outcome.ok => outcome = FinalizeBytes(ts, resp, info),
         RevealBatch(ts, outcome)
  PROVE  /\ UNCHANGED <<server, client, disk, responses>>
         /\ DOMAIN session' = Tokens /\ session' = [t \in Tokens |-> session'[t]]
         /\ \A t \in Tokens : \/ session'[t] = session[t]
                              \/ /\ session'[t] \in Session /\ Opened(session'[t])
                                 /\ session[t] # None
                                 /\ Claimed(session'[t]) = Claimed(session[t])
                                 /\ ConsistentCaller => HasOutput(session'[t])
<1> DEFINE evaluated == deserialize_elements(resp.evaluated)
           proof == proof_from_bytes(resp.proof)
           inputs == [i \in DOMAIN ts |-> session[ts[i]].input]
           states == [i \in DOMAIN ts |-> session[ts[i]].state]
           bs == [i \in DOMAIN ts |-> session[ts[i]].blinded]
           ss == [i \in DOMAIN ts |-> session[ts[i]]]
           At(t) == CHOOSE i \in DOMAIN ts : ts[i] = t
<1>1. UNCHANGED <<server, client, disk, responses>> BY DEF RevealBatch
<1>2. session' = [t \in Tokens |-> IF outcome.ok /\ \E i \in DOMAIN ts : ts[i] = t
                                  THEN [session[t] EXCEPT !.out = outcome.val[At(t)]]
                                  ELSE session[t]]
  BY DEF RevealBatch
<1>3. PICK n \in Nat : ts \in [1..n -> Tokens]
  BY IssuanceAssumption DEF Batches
<1>4. \A i \in 1..n : ss[i] \in Session /\ Opened(ss[i])
  BY <1>3, InvSplit DEF IsSession
<1>5. info \in Infos /\ (ConsistentCaller /\ n # 0 => \E j \in 1..n : info = ss[j].info)
  BY <1>3, <1>4 DEF FinalizeInfos, Session
<1>6. ASSUME outcome.ok
      PROVE  \A i \in 1..n :
               /\ outcome.val[i] \in Output
               /\ ConsistentCaller => \A k \in SecretKey :
                    PinnedTo(ss[i], k) =>
                      evaluate(k, ss[i].input, ss[i].info) = Ok(outcome.val[i])
  <2>1. /\ evaluated.ok /\ proof.ok
        /\ outcome = finalize_batch(inputs, states, evaluated.val, bs, proof.val, info)
    BY <1>6, Results DEF FinalizeBytes
  <2>2. PICK m \in Nat : resp.evaluated \in [1..m -> Bytes]
    BY InvSplit, SeqDef DEF IsResponse
  <2>3. evaluated.val \in [1..m -> Scalar \ {0}] BY <2>1, <2>2, ParsedElements
  <2>4. n = m
    <3>1. Len(inputs) = Len(evaluated.val) BY <1>6, <2>1, Results DEF finalize_batch
    <3>2. Len(inputs) = n BY <1>3
    <3>3. Len(evaluated.val) = m
      <4> HIDE DEF evaluated
      <4> QED BY <2>3
    <3> QED BY <3>1, <3>2, <3>3
  <2>5. proof.val.s.chal \in Scalar /\ Grounded(proof.val.c)
    BY <2>1, InvSplit, ProofParsed
  <2>6. bs \in [1..n -> Scalar]
    BY <1>3, <1>4, RandomScalarIsScalar DEF Session
  <2>7. AreFieldsOf(n, ss, inputs, states, bs) BY <1>3 DEF AreFieldsOf
  <2>8. /\ ss \in [1..n -> Session] /\ \A i \in 1..n : Opened(ss[i])
        /\ DOMAIN inputs = 1..n /\ DOMAIN states = 1..n
    BY <1>3, <1>4
  <2> HIDE DEF evaluated, proof, inputs, states, bs, ss
  <2>9. /\ DOMAIN evaluated.val = 1..n /\ evaluated.val \in [DOMAIN evaluated.val -> Scalar]
        /\ \A i \in 1..n : evaluated.val[i] # 0
        /\ bs \in [DOMAIN evaluated.val -> Scalar]
    BY <2>3, <2>4, <2>6
  <2>10. \A i \in 1..n :
           /\ outcome.val[i] \in Output
           /\ (\E j \in 1..n : info = ss[j].info) => \A k \in SecretKey :
                PinnedTo(ss[i], k) =>
                  evaluate(k, ss[i].input, ss[i].info) = Ok(outcome.val[i])
    <3>1. IsBatch(n, ss, inputs, states, evaluated.val, bs, proof.val)
      BY <2>5, <2>7, <2>8, <2>9 DEF IsBatch
    <3> QED BY <1>5, <1>6, <2>1, <3>1, FinalizeBatchIsEvaluate
  <2> QED BY <1>5, <2>10
<1> SUFFICES ASSUME NEW t \in Tokens
             PROVE  \/ session'[t] = session[t]
                    \/ /\ session'[t] \in Session /\ Opened(session'[t])
                       /\ session[t] # None
                       /\ Claimed(session'[t]) = Claimed(session[t])
                       /\ ConsistentCaller => HasOutput(session'[t])
  BY <1>1, <1>2
<1>7. CASE ~(outcome.ok /\ \E i \in DOMAIN ts : ts[i] = t) BY <1>2, <1>7
<1>8. CASE outcome.ok /\ \E i \in DOMAIN ts : ts[i] = t
  <2> DEFINE i == At(t)
             o == outcome.val[i]
             new == [session[t] EXCEPT !.out = o]
  <2>1. session'[t] = new BY <1>2, <1>8
  <2>2. i \in 1..n /\ ts[i] = t BY <1>3, <1>8
  <2>3. ss[i] = session[t] BY <1>3, <2>2
  <2> HIDE DEF i, ss
  <2>4. /\ session[t] \in Session /\ Opened(session[t])
        /\ o \in Output
        /\ ConsistentCaller => \A k \in SecretKey :
             PinnedTo(session[t], k) =>
               evaluate(k, session[t].input, session[t].info) = Ok(o)
    BY <1>4, <1>6, <1>8, <2>2, <2>3
  <2> HIDE DEF o
  <2>5. new \in Session /\ Opened(new) /\ Claimed(new) = Claimed(session[t])
    BY <2>4, OutputSet
  <2>6. ConsistentCaller => HasOutput(new) BY <2>4, OutputSet DEF HasOutput
  <2>7. session[t] # None BY <1>3, <2>2
  <2> QED BY <2>1, <2>5, <2>6, <2>7
<1> QED BY <1>7, <1>8

LEMMA FinalizeBatchStep ==
  ASSUME IInv, NEW ts \in Batches(Tokens), NEW resp \in responses,
         \/ FinalizeBatch(ts, resp)
         \/ \E bytes \in KeyBytes : FinalizeBatchWasm(bytes, ts, resp)
  PROVE  /\ UNCHANGED <<server, client, disk, responses>>
         /\ DOMAIN session' = Tokens /\ session' = [t \in Tokens |-> session'[t]]
         /\ \A t \in Tokens : \/ session'[t] = session[t]
                              \/ /\ session'[t] \in Session /\ Opened(session'[t])
                                 /\ session[t] # None
                                 /\ Claimed(session'[t]) = Claimed(session[t])
                                 /\ ConsistentCaller => HasOutput(session'[t])
<1> DEFINE Kept ==
             /\ UNCHANGED <<server, client, disk, responses>>
             /\ DOMAIN session' = Tokens /\ session' = [t \in Tokens |-> session'[t]]
             /\ \A t \in Tokens : \/ session'[t] = session[t]
                                  \/ /\ session'[t] \in Session /\ Opened(session'[t])
                                     /\ session[t] # None
                                     /\ Claimed(session'[t]) = Claimed(session[t])
                                     /\ ConsistentCaller => HasOutput(session'[t])
<1>1. \A i \in DOMAIN ts : session[ts[i]] # None
  BY DEF FinalizeBatch, FinalizeBatchWasm
<1>2. CASE FinalizeBatch(ts, resp)
  <2>1. PICK info \in FinalizeInfos(ts) : RevealBatch(ts, FinalizeBytes(ts, resp, info))
    BY <1>2 DEF FinalizeBatch
  <2>2. Kept BY <1>1, <2>1, RevealBatchStep
  <2> QED BY <2>2
<1>3. ASSUME NEW bytes \in KeyBytes, FinalizeBatchWasm(bytes, ts, resp)
      PROVE  Kept
  <2>1. PICK info \in FinalizeInfos(ts) :
          RevealBatch(ts, FinalizeText(bytes, ts, resp, info))
    BY <1>3 DEF FinalizeBatchWasm
  <2>2. PICK n \in Nat : ts \in [1..n -> Tokens]
    BY IssuanceAssumption DEF Batches
  <2>3. PICK m \in Nat : resp.evaluated \in [1..m -> Bytes]
    BY InvSplit, SeqDef DEF IsResponse
  <2>4. \A i \in 1..n : session[ts[i]] \in Session
    BY <1>1, <2>2, InvSplit DEF IsSession
  <2>5. FinalizeText(bytes, ts, resp, info).ok
          => FinalizeText(bytes, ts, resp, info) = FinalizeBytes(ts, resp, info)
    BY <2>2, <2>3, <2>4, TextIsBytes
  <2> QED BY <1>1, <2>1, <2>5, RevealBatchStep
<1> QED BY <1>2, <1>3

LEMMA FinalizeInv ==
  ASSUME IInv, NEW t \in Tokens, NEW resp \in responses, NEW i \in DOMAIN resp.evaluated,
         Finalize(t, resp, i)
  PROVE  IInv'
<1>1. UNCHANGED <<server, client, disk, responses>> BY FinalizeStep
<1>2. /\ session' \in [Tokens -> Session \cup {None}]
      /\ \A u \in Tokens : session'[u] # None => Opened(session'[u])
  BY FinalizeStep DEF IInv, TypeOK, Provenance
<1> QED BY <1>1, <1>2 DEF IInv, TypeOK, Provenance

LEMMA FinalizeBatchInv ==
  ASSUME IInv, NEW ts \in Batches(Tokens), NEW resp \in responses,
         \/ FinalizeBatch(ts, resp)
         \/ \E bytes \in KeyBytes : FinalizeBatchWasm(bytes, ts, resp)
  PROVE  IInv'
<1>1. UNCHANGED <<server, client, disk, responses>> BY FinalizeBatchStep
<1>2. \A t \in Tokens : /\ session'[t] \in Session \cup {None}
                        /\ session'[t] # None => Opened(session'[t])
  BY FinalizeBatchStep, InvSplit DEF IsSession
<1>3. session' \in [Tokens -> Session \cup {None}]
  <2>1. session' = [t \in Tokens |-> session'[t]] BY FinalizeBatchStep
  <2> QED BY <1>2, <2>1
<1> QED BY <1>1, <1>2, <1>3 DEF IInv, TypeOK, Provenance

(* The actions of the client and of the server.                            *)
LEMMA ClientInv == ASSUME IInv, ClientNext PROVE IInv'
<1>1. ASSUME NEW bytes \in KeyBytes, ClientNew(bytes) PROVE IInv'
  BY <1>1, ClientNewInv
<1>2. ASSUME NEW t \in Tokens, NEW input \in Inputs, NEW info \in Infos, Blind(t, input, info)
      PROVE  IInv'
  BY <1>2, BlindInv
<1>3. ASSUME NEW t \in Tokens, NEW input \in Inputs, NEW info \in Infos,
             NEW bytes \in BlindBytes, BlindWithScalar(t, input, info, bytes)
      PROVE  IInv'
  BY <1>3, BlindWithScalarInv
<1>4. ASSUME NEW t \in Tokens, NEW resp \in responses, NEW i \in DOMAIN resp.evaluated,
             Finalize(t, resp, i)
      PROVE  IInv'
  BY <1>4, FinalizeInv
<1>5. ASSUME NEW ts \in Batches(Tokens), NEW resp \in responses,
             \/ FinalizeBatch(ts, resp)
             \/ \E bytes \in KeyBytes : FinalizeBatchWasm(bytes, ts, resp)
      PROVE  IInv'
  BY <1>5, FinalizeBatchInv
<1>6. ASSUME NEW t \in Tokens, Persist(t) PROVE IInv' BY <1>6, PersistInv
<1>7. ASSUME NEW t \in Tokens, Restore(t) PROVE IInv' BY <1>7, RestoreInv
<1>8. CASE Crash BY <1>8, CrashInv
<1> QED BY <1>1, <1>2, <1>3, <1>4, <1>5, <1>6, <1>7, <1>8 DEF ClientNext

LEMMA ServerInv == ASSUME IInv, ServerNext PROVE IInv'
<1>1. ASSUME NEW bytes \in KeyBytes, ServerNew(bytes) PROVE IInv'
  BY <1>1, ServerNewInv
<1>2. ASSUME NEW buf \in RequestBytes, NEW info \in Infos, BlindEvaluate(buf, info)
      PROVE  IInv'
  BY <1>2, BlindEvaluateInv
<1>3. ASSUME NEW buf \in RequestBytes, NEW info \in Infos, NEW bytes \in NonceBytes,
             BlindEvaluateWithProofScalar(buf, info, bytes)
      PROVE  IInv'
  BY <1>3, BlindEvaluateWithProofScalarInv
<1>4. ASSUME NEW bufs \in Batches(RequestBytes), NEW info \in Infos,
             BlindEvaluateBatch(bufs, info)
      PROVE  IInv'
  BY <1>4, BlindEvaluateBatchInv
<1>5. ASSUME NEW ts \in Batches(Tokens), NEW info \in Infos, BlindEvaluateLocal(ts, info)
      PROVE  IInv'
  BY <1>5, BlindEvaluateLocalInv
<1>6. ASSUME NEW bufs \in Batches(RequestBytes), NEW info \in Infos,
             NEW bytes \in NonceBytes, BlindEvaluateBatchWithProofScalar(bufs, info, bytes)
      PROVE  IInv'
  BY <1>6, BlindEvaluateBatchWithProofScalarInv
<1> QED BY <1>1, <1>2, <1>3, <1>4, <1>5, <1>6 DEF ServerNext

LEMMA StepInv == IInv /\ [Next]_vars => IInv'
<1> SUFFICES ASSUME IInv, [Next]_vars PROVE IInv' OBVIOUS
<1>1. CASE ClientNext BY <1>1, ClientInv
<1>2. CASE ServerNext BY <1>2, ServerInv
<1>3. CASE ChannelNext BY <1>3, LoseInv, DamageInv DEF ChannelNext
<1>4. CASE UNCHANGED vars BY <1>4 DEF vars, IInv, TypeOK, Provenance
<1> QED BY <1>1, <1>2, <1>3, <1>4 DEF Next

(***************************************************************************)
(* A step gives a session an output only as IsEvaluated says.              *)
(***************************************************************************)
LEMMA OpenSessionOutput ==
  ASSUME IInv, NEW u \in Tokens, NEW input, NEW info, NEW res, OpenSession(u, input, info, res),
         NEW t \in Tokens
  PROVE  session'[t] = session[t] \/ IsEvaluated(session'[t])
BY InvSplit DEF OpenSession, IsEvaluated

LEMMA RestoreOutput ==
  ASSUME IInv, NEW u \in Tokens, Restore(u), NEW t \in Tokens
  PROVE  session'[t] = session[t] \/ IsEvaluated(session'[t])
BY InvSplit DEF Restore, IsEvaluated

LEMMA StepOutput ==
  ASSUME ConsistentCaller, IInv, [Next]_vars, NEW t \in Tokens
  PROVE  session'[t] = session[t] \/ session'[t] = None \/ IsEvaluated(session'[t])
<1> DEFINE Goal == session'[t] = session[t] \/ session'[t] = None \/ IsEvaluated(session'[t])
<1>1. CASE UNCHANGED session BY <1>1
<1>2. ASSUME NEW u \in Tokens, NEW input \in Inputs, NEW info \in Infos, Blind(u, input, info)
      PROVE  Goal
  BY <1>2, OpenSessionOutput DEF Blind
<1>3. ASSUME NEW u \in Tokens, NEW input \in Inputs, NEW info \in Infos,
             NEW bytes \in BlindBytes, BlindWithScalar(u, input, info, bytes)
      PROVE  Goal
  BY <1>3, OpenSessionOutput DEF BlindWithScalar
<1>4. ASSUME NEW u \in Tokens, NEW resp \in responses, NEW i \in DOMAIN resp.evaluated,
             Finalize(u, resp, i)
      PROVE  Goal
  <2>1. CASE UNCHANGED session BY <2>1
  <2>2. CASE \E s \in Session : session' = [session EXCEPT ![u] = s] /\ HasOutput(s)
    BY <2>2, InvSplit DEF HasOutput, IsEvaluated
  <2> QED BY <1>4, <2>1, <2>2, FinalizeStep
<1>5. ASSUME NEW ts \in Batches(Tokens), NEW resp \in responses,
             \/ FinalizeBatch(ts, resp)
             \/ \E bytes \in KeyBytes : FinalizeBatchWasm(bytes, ts, resp)
      PROVE  Goal
  BY <1>5, FinalizeBatchStep DEF HasOutput, IsEvaluated
<1>6. ASSUME NEW u \in Tokens, Restore(u) PROVE Goal BY <1>6, RestoreOutput
<1>7. CASE Crash BY <1>7 DEF Crash
<1>8. CASE ClientNext
  <2>1. ASSUME NEW bytes \in KeyBytes, ClientNew(bytes) PROVE UNCHANGED session
    BY <2>1 DEF ClientNew
  <2>2. ASSUME NEW u \in Tokens, Persist(u) PROVE UNCHANGED session
    BY <2>2 DEF Persist
  <2> QED BY <1>1, <1>2, <1>3, <1>4, <1>5, <1>6, <1>7, <1>8, <2>1, <2>2 DEF ClientNext
<1>9. CASE ServerNext
  <2>1. UNCHANGED session
    BY <1>9 DEF ServerNext, ServerNew, BlindEvaluate, BlindEvaluateWithProofScalar,
                BlindEvaluateBatch, BlindEvaluateBatchWithProofScalar, BlindEvaluateLocal,
                Reply
  <2> QED BY <2>1, <1>1
<1>10. CASE ChannelNext
  <2>1. UNCHANGED session BY <1>10 DEF ChannelNext, Lose, Damage
  <2> QED BY <2>1, <1>1
<1>11. CASE UNCHANGED vars
  <2>1. UNCHANGED session BY <1>11 DEF vars
  <2> QED BY <2>1, <1>1
<1> QED BY <1>8, <1>9, <1>10, <1>11 DEF Next

(***************************************************************************)
(* Completeness.                                                           *)
(***************************************************************************)
(* Elements that are not the identity go through the wire unchanged.       *)
LEMMA ElementsSurvive ==
  ASSUME NEW n \in Nat, NEW ev \in [1..n -> Scalar \ {0}]
  PROVE  deserialize_elements(ev) = Ok(ev)
<1>1. \A i \in 1..n : deserialize_element(ev[i]) = Ok(ev[i])
  BY OrderAssumption
     DEF deserialize_element, Truncated, NonCanonical, is_identity, identity, Scalar
<1>2. DOMAIN ev = 1..n OBVIOUS
<1>3. {i \in DOMAIN ev : ~deserialize_element(ev[i]).ok} = {} BY <1>1, <1>2, Results
<1>4. [i \in DOMAIN ev |-> deserialize_element(ev[i]).val] = ev BY <1>1, <1>2, Results
<1> QED BY <1>3, <1>4 DEF deserialize_elements

(* So does the proof of a server, whose randomness is a scalar.            *)
LEMMA ProofSurvives ==
  ASSUME NEW k, NEW b, NEW C, NEW D, NEW r \in Scalar
  PROVE  LET p == generate_proof_with_r(k, generator, b, C, D, r)
         IN  proof_from_bytes(proof_to_bytes(p)) = Ok(p)
<1> DEFINE p == generate_proof_with_r(k, generator, b, C, D, r)
<1>1. PICK x : p = [c |-> hash_to_scalar(x), s |-> Linear(r, scalar_sub(0, k), hash_to_scalar(x))]
  BY DEF generate_proof_with_r, Challenge
<1>2. r # NonCanonical BY OrderAssumption DEF NonCanonical, Scalar
<1>3. hash_to_scalar(x) # RawScalar(NonCanonical)
  <2>1. "hash" \in DOMAIN hash_to_scalar(x) BY DEF hash_to_scalar
  <2>2. "hash" \notin DOMAIN RawScalar(NonCanonical) BY DEF RawScalar
  <2> QED BY <2>1, <2>2
<1> HIDE DEF p
<1>4. p.c = hash_to_scalar(x) /\ p.s.one = r /\ p = [c |-> p.c, s |-> p.s]
  BY <1>1 DEF Linear
<1> QED BY <1>2, <1>3, <1>4 DEF proof_from_bytes, proof_to_bytes, p

LEMMA HonestBatch ==
  ASSUME IInv, NEW n \in Nat \ {0}, NEW ts \in [1..n -> Live], NEW k \in SecretKey,
         NEW r \in Nonces,
         \A i \in 1..n : /\ session[ts[i]].pk = public_key(k)
                        /\ session[ts[i]].info = session[ts[1]].info
                        /\ ~scalar_is_zero(session[ts[i]].state.blind)
  PROVE  LET blinded == [i \in DOMAIN ts |-> session[ts[i]].blinded]
             res == blind_evaluate_batch_with_r_inner(k, blinded, session[ts[1]].info, r)
             resp == response_to_bytes(res.val)
             info == session[ts[1]].info
         IN  /\ res.ok
             /\ FinalizeBytes(ts, resp, info).ok
             /\ FinalizeText(session[ts[1]].pk, ts, resp, info).ok
<1> DEFINE s(i) == session[ts[i]]
           info == s(1).info
           bs == [i \in DOMAIN ts |-> s(i).blinded]
           T == s(1).state.tweaked_key
           ev == Scaled(scalar_invert(T), bs)
           p == generate_proof_with_r(T, generator, T, ev, bs, r)
           val == [evaluated |-> ev, proof |-> p]
<1>1. DOMAIN ts = 1..n /\ 1 \in 1..n OBVIOUS
<1>2. \A i \in 1..n : s(i) \in Session /\ Opened(s(i))
  BY InvSplit DEF IsSession, Live
<1>3. \A i \in 1..n : s(i).pk = s(1).pk /\ s(i).info = info /\ s(i).state.tweaked_key = T
  BY <1>1, <1>2 DEF Opened
<1>4. T \in Scalar /\ T # 0 /\ T \in RandomScalar
  BY <1>1, <1>2, RandomScalarIsScalar DEF Session, BlindState
<1>5. compute_t(k, info) = Ok(T)
  BY <1>1, <1>2, PinnedServerComputes DEF PinnedTo
<1>6. \A i \in 1..n : s(i).blinded \in Scalar \ {0}
  <2> SUFFICES ASSUME NEW i \in 1..n PROVE s(i).blinded \in Scalar \ {0} OBVIOUS
  <2> DEFINE b == s(i).state.blind
             h == HashToGroup[s(i).input]
  <2>1. b \in RandomScalar /\ b \in Scalar
    BY <1>2, RandomScalarIsScalar DEF Session, BlindState, scalar_is_zero
  <2>2. h \in Scalar /\ h # 0
    BY <1>2, HashAssumption, RandomScalarIsScalar DEF Session, Opened, is_identity
  <2>3. s(i).blinded = scalar_mul(b, h) BY <1>2 DEF Opened
  <2> HIDE DEF b, h
  <2> QED BY <2>1, <2>2, <2>3, MulClosed, NoZeroDivisor
<1> HIDE DEF s
<1>7. bs \in [1..n -> Scalar \ {0}] /\ DOMAIN bs = 1..n BY <1>1, <1>6
<1> HIDE DEF T, bs
<1>8. /\ ev \in [1..n -> Scalar \ {0}]
      /\ \A i \in 1..n : scalar_mul(T, ev[i]) = bs[i]
  <2> DEFINE v == scalar_invert(T)
  <2>1. v \in RandomScalar /\ v \in Scalar /\ scalar_mul(T, v) = 1
    BY <1>4, InverseCancels, RandomScalarIsScalar
  <2> HIDE DEF v
  <2>2. \A i \in 1..n : scalar_mul(v, bs[i]) \in Scalar /\ scalar_mul(v, bs[i]) # 0
    BY <1>7, <2>1, MulClosed, NoZeroDivisor
  <2>3. \A i \in 1..n : scalar_mul(T, scalar_mul(v, bs[i])) = bs[i]
    BY <1>4, <1>7, <2>1, MulAssoc, MulOne
  <2>4. ev = [i \in 1..n |-> scalar_mul(v, bs[i])] BY <1>7 DEF Scaled, v
  <2> QED BY <2>2, <2>3, <2>4
<1>9. Scaled(T, ev) = bs BY <1>7, <1>8 DEF Scaled
<1>10. verify_proof(generator, T, ev, bs, p)
  <2>1. ev \in [1..n -> Scalar] BY <1>8
  <2> HIDE DEF ev
  <2>2. verify_proof(generator, T, ev, Scaled(T, ev),
                     generate_proof_with_r(T, generator, T, ev, Scaled(T, ev), r))
    BY <1>4, <2>1, GenerateVerifies
  <2> QED BY <1>9, <2>2
<1>11. r \in Scalar BY IssuanceAssumption, RandomScalarIsScalar
<1>12. blind_evaluate_batch_with_r_inner(k, bs, info, r) = Ok(val)
  <2>1. bs # << >> BY <1>7
  <2>2. \A i \in DOMAIN bs : ~is_identity(bs[i])
    BY <1>7 DEF is_identity, identity
  <2>3. EvaluateWith(T, bs, r) = val BY <1>4, MulOne DEF EvaluateWith
  <2> HIDE DEF val
  <2> QED BY <2>1, <2>2, <2>3, <1>5, Results DEF blind_evaluate_batch_with_r_inner
<1>13. deserialize_elements(ev) = Ok(ev) BY <1>8, ElementsSurvive
<1>14. proof_from_bytes(proof_to_bytes(p)) = Ok(p) BY <1>11, ProofSurvives
<1> HIDE DEF ev, p
<1>15. /\ response_to_bytes(val).evaluated = ev
       /\ response_to_bytes(val).proof = proof_to_bytes(p)
  BY DEF response_to_bytes
<1> DEFINE inputs == [i \in DOMAIN ts |-> session[ts[i]]["input"]]
           states == [i \in DOMAIN ts |-> session[ts[i]]["state"]]
           blinded == [i \in DOMAIN ts |-> session[ts[i]]["blinded"]]
<1>16. /\ \A i \in 1..n : check_lp_len(inputs[i]) /\ states[i].tweaked_key = T
       /\ check_lp_len(info) /\ blinded = bs
       /\ DOMAIN inputs = 1..n /\ DOMAIN states = 1..n
       /\ Len(inputs) = n /\ Len(states) = n /\ inputs # << >>
  <2>1. /\ \A i \in 1..n : check_lp_len(s(i).input) /\ s(i).state.tweaked_key = T
        /\ check_lp_len(info)
    BY <1>1, <1>2, <1>3 DEF Opened
  <2>2. blinded = bs BY DEF bs, s
  <2>3. DOMAIN inputs = 1..n /\ DOMAIN states = 1..n BY <1>1
  <2>4. Len(inputs) = n /\ Len(states) = n /\ inputs # << >> BY <2>3
  <2> QED BY <2>1, <2>2, <2>3, <2>4, <1>1 DEF s
<1>17. Len(ev) = n /\ Len(bs) = n BY <1>7, <1>8
<1>18. finalize_batch(inputs, states, ev, bs, p, info).ok
  <2> HIDE DEF inputs, states, info
  <2>1. states[1].tweaked_key = T BY <1>1, <1>16
  <2> QED BY <1>10, <1>16, <1>17, <2>1, Results DEF finalize_batch
<1>19. FinalizeBytes(ts, response_to_bytes(val), info).ok
  <2>1. FinalizeBytes(ts, response_to_bytes(val), info)
          = finalize_batch(inputs, states, ev, blinded, p, info)
    BY <1>13, <1>14, <1>15, Results DEF FinalizeBytes
  <2> QED BY <2>1, <1>16, <1>18
<1>20. FinalizeText(s(1).pk, ts, response_to_bytes(val), info).ok
  <2>1. ts \in [1..n -> Tokens] BY DEF Live
  <2>2. \A i \in 1..n : session[ts[i]] \in Session BY <1>2 DEF s
  <2>3. public_key_from_bytes(s(1).pk).ok
    BY <1>1, <1>2, PublicKeyParses, RandomScalarIsScalar, FixedBytesAreBytes DEF Session
  <2>4. \A i \in 1..n : deserialize_element(session[ts[i]].blinded).ok
    <3>1. \A i \in 1..n : session[ts[i]].blinded \in Scalar \ {0} BY <1>6 DEF s
    <3> QED BY <3>1, OrderAssumption, Results
            DEF deserialize_element, Truncated, NonCanonical, is_identity, identity, Scalar
  <2>5. response_to_bytes(val).evaluated \in [1..n -> Bytes]
    <3>1. ev \in [1..n -> Scalar \ {0}] BY <1>8
    <3> QED BY <3>1, <1>15, FixedBytesAreBytes
  <2>6. ASSUME NEW resp, resp.evaluated \in [1..n -> Bytes], NEW i, NEW pk,
               public_key_from_bytes(pk).ok, FinalizeBytes(ts, resp, i).ok
        PROVE  FinalizeText(pk, ts, resp, i).ok
    <3> HIDE DEF val, info, inputs, states, blinded
    <3>1. n \in Nat OBVIOUS
    <3> QED BY <2>1, <2>2, <2>4, <2>6, <3>1, BytesAreText
  <2> HIDE DEF val, info, inputs, states, blinded
  <2> QED BY <1>19, <2>3, <2>5, <2>6
<1> QED BY <1>12, <1>19, <1>20, Results DEF bs, s

(***************************************************************************)
(* Refinement: every step is a step of PoprfIdeal, or leaves Claims and    *)
(* Revealed alone.                                                         *)
(***************************************************************************)
LEMMA KeyOfPublic == \A pk \in PublicKey : KeyOf(pk) \in SecretKey /\ public_key(KeyOf(pk)) = pk
<1> SUFFICES ASSUME NEW pk \in PublicKey
             PROVE  KeyOf(pk) \in SecretKey /\ public_key(KeyOf(pk)) = pk
  OBVIOUS
<1>1. pk \in SecretKey BY RandomScalarIsScalar DEF PublicKey, SecretKey
<1> QED BY <1>1, PublicKeyIsKey DEF KeyOf

(* A session that was opened claims a value that is defined.               *)
LEMMA OpenedClaims ==
  ASSUME NEW s \in Session, Opened(s)
  PROVE  Claimed(s) \in Ideal!Claim /\ Claimed(s) # None /\ s # None
<1>1. s.pk \in PublicKey /\ s.input \in Inputs /\ s.info \in Infos BY DEF Session
<1>2. KeyOf(s.pk) \in SecretKey /\ PinnedTo(s, KeyOf(s.pk))
  BY <1>1, KeyOfPublic DEF PinnedTo
<1>3. evaluate(KeyOf(s.pk), s.input, s.info).ok BY <1>2, PinnedServerEvaluates, Results
<1> QED BY <1>1, <1>3, NoneAssumption DEF Claimed, Ideal!Claim

(* Its output, once it is there, is the value claimed.                     *)
LEMMA OutputIsValue ==
  ASSUME NEW s \in Session, HasOutput(s)
  PROVE  s.out = Ideal!Value(Claimed(s))
<1>1. s.pk \in PublicKey BY DEF Session
<1>2. KeyOf(s.pk) \in SecretKey /\ PinnedTo(s, KeyOf(s.pk))
  BY <1>1, KeyOfPublic DEF PinnedTo
<1>3. evaluate(KeyOf(s.pk), s.input, s.info) = Ok(s.out) BY <1>2 DEF HasOutput
<1> QED BY <1>3, Results DEF Claimed, Ideal!Value

(* Opening a session, or restoring one, makes a claim and takes back what  *)
(* was revealed under that name.                                           *)
LEMMA OpeningClaims ==
  ASSUME IInv, NEW t \in Tokens, NEW s \in Session, Opened(s), s.out = None,
         session' = [session EXCEPT ![t] = s]
  PROVE  Ideal!Next
<1>1. Claimed(s) \in Ideal!Claim /\ s # None BY OpenedClaims
<1>2. DOMAIN session = Tokens BY InvSplit
<1>3. Claims' = [Claims EXCEPT ![t] = Claimed(s)]
  <2>1. Claims' = [u \in Tokens |-> IF u = t THEN Claimed(s) ELSE Claims[u]]
    BY <1>1, <1>2 DEF Claims
  <2> QED BY <2>1 DEF Claims
<1>4. Revealed' = [Revealed EXCEPT ![t] = None]
  <2>1. Revealed' = [u \in Tokens |-> IF u = t THEN None ELSE Revealed[u]]
    BY <1>1, <1>2 DEF Revealed
  <2> QED BY <2>1 DEF Revealed
<1>5. Ideal!MakeClaim(t, Claimed(s)) BY <1>3, <1>4 DEF Ideal!MakeClaim
<1> QED BY <1>1, <1>5 DEF Ideal!Next

\* s is a session that was finalized into new.
Finalized(s, new) ==
  /\ s # None
  /\ new \in Session /\ Opened(new)
  /\ Claimed(new) = Claimed(s)
  /\ HasOutput(new)

(* Finalizing reveals the values of the sessions it changes.               *)
LEMMA FinalizingReveals ==
  ASSUME IInv,
         \A t \in Tokens : session'[t] = session[t] \/ Finalized(session[t], session'[t])
  PROVE  Ideal!Next
<1> DEFINE S == {t \in Tokens : session'[t] # session[t]}
<1>1. \A t \in S : /\ session[t] # None /\ session'[t] # None
                   /\ Claimed(session[t]) # None
                   /\ Claimed(session'[t]) = Claimed(session[t])
                   /\ session'[t].out = Ideal!Value(Claimed(session[t]))
  BY OpenedClaims, OutputIsValue DEF Finalized
<1>2. \A t \in Tokens : Claims[t] = IF session[t] = None THEN None ELSE Claimed(session[t])
  BY DEF Claims
<1>3. UNCHANGED Claims
  <2>1. \A t \in Tokens : (IF session'[t] = None THEN None ELSE Claimed(session'[t])) = Claims[t]
    BY <1>1, <1>2
  <2>2. Claims' = [t \in Tokens |-> IF session'[t] = None THEN None ELSE Claimed(session'[t])]
    BY DEF Claims
  <2>3. Claims = [t \in Tokens |-> Claims[t]] BY DEF Claims
  <2> QED BY <2>1, <2>2, <2>3
<1>4. Revealed' = [t \in Tokens |-> IF t \in S THEN Ideal!Value(Claims[t]) ELSE Revealed[t]]
  <2>1. \A t \in Tokens : (IF session'[t] = None THEN None ELSE session'[t].out)
                            = IF t \in S THEN Ideal!Value(Claims[t]) ELSE Revealed[t]
    BY <1>1, <1>2 DEF Revealed
  <2> QED BY <2>1 DEF Revealed
<1>5. Ideal!Reveal(S) BY <1>1, <1>2, <1>3, <1>4 DEF Ideal!Reveal
<1>6. S \in SUBSET Tokens OBVIOUS
<1> HIDE DEF S
<1> QED BY <1>5, <1>6 DEF Ideal!Next

LEMMA OpenSessionRefines ==
  ASSUME IInv, NEW t \in Tokens, NEW input \in Inputs, NEW info \in Infos,
         NEW blind \in Scalar,
         OpenSession(t, input, info, blind_with_inner(client, input, info, blind))
  PROVE  Ideal!Next \/ UNCHANGED session
<1> DEFINE res == blind_with_inner(client, input, info, blind)
           s == [pk |-> client, input |-> input, info |-> info, state |-> res.val.state,
                 blinded |-> res.val.blinded, out |-> None]
<1>1. res.ok => s \in Session /\ Opened(s) BY BlindOpens, InvSplit
<1>2. session' = IF res.ok THEN [session EXCEPT ![t] = s] ELSE session
  BY DEF OpenSession
<1>3. s.out = None OBVIOUS
<1> HIDE DEF s, res
<1> QED BY <1>1, <1>2, <1>3, OpeningClaims

LEMMA BlindRefines ==
  ASSUME IInv, NEW t \in Tokens, NEW input \in Inputs, NEW info \in Infos,
         \/ Blind(t, input, info)
         \/ \E bytes \in BlindBytes : BlindWithScalar(t, input, info, bytes)
  PROVE  Ideal!Next \/ UNCHANGED session
<1>1. CASE Blind(t, input, info)
  BY <1>1, OpenSessionRefines, IssuanceAssumption, RandomScalarIsScalar DEF Blind
<1>2. ASSUME NEW bytes \in BlindBytes, BlindWithScalar(t, input, info, bytes)
      PROVE  Ideal!Next \/ UNCHANGED session
  <2>1. CASE deserialize_scalar(bytes).ok
    <3>1. /\ deserialize_scalar(bytes).val \in Scalar
          /\ blind_with_scalar(client, input, info, bytes)
               = blind_with_inner(client, input, info, deserialize_scalar(bytes).val)
      BY <2>1, IssuanceAssumption, FixedBytesAreBytes, ParsedScalar DEF blind_with_scalar
    <3> QED BY <1>2, <3>1, OpenSessionRefines DEF BlindWithScalar
  <2>2. CASE ~deserialize_scalar(bytes).ok
    BY <1>2, <2>2 DEF BlindWithScalar, blind_with_scalar, OpenSession
  <2> QED BY <2>1, <2>2
<1> QED BY <1>1, <1>2

LEMMA CrashForgets == ASSUME Crash PROVE Ideal!Forget
BY DEF Crash, Ideal!Forget, Claims, Revealed

LEMMA FinalizeRefines ==
  ASSUME ConsistentCaller, IInv, NEW t \in Tokens, NEW resp \in responses,
         NEW i \in DOMAIN resp.evaluated, Finalize(t, resp, i)
  PROVE  Ideal!Next \/ UNCHANGED session
<1>1. CASE UNCHANGED session BY <1>1
<1>2. CASE \E s : session' = [session EXCEPT ![t] = s] /\ Finalized(session[t], s)
  <2>1. \A u \in Tokens : session'[u] = session[u] \/ Finalized(session[u], session'[u])
    BY <1>2, InvSplit
  <2> QED BY <2>1, FinalizingReveals
<1> QED BY <1>1, <1>2, FinalizeStep DEF Finalized

LEMMA ClientRefines ==
  ASSUME ConsistentCaller, IInv, ClientNext
  PROVE  Ideal!Next \/ UNCHANGED session
<1>1. ASSUME NEW bytes \in KeyBytes, ClientNew(bytes) PROVE UNCHANGED session
  BY <1>1 DEF ClientNew
<1>2. ASSUME NEW ts \in Batches(Tokens), NEW resp \in responses,
             \/ FinalizeBatch(ts, resp)
             \/ \E bytes \in KeyBytes : FinalizeBatchWasm(bytes, ts, resp)
      PROVE  Ideal!Next
  BY <1>2, FinalizeBatchStep, FinalizingReveals DEF Finalized
<1>3. ASSUME NEW t \in Tokens, Persist(t) PROVE UNCHANGED session
  BY <1>3 DEF Persist
<1>4. ASSUME NEW t \in Tokens, Restore(t) PROVE Ideal!Next \/ UNCHANGED session
  BY <1>4, RestoreOpens, OpeningClaims
<1>5. CASE Crash BY <1>5, CrashForgets DEF Ideal!Next
<1> QED BY <1>1, <1>2, <1>3, <1>4, <1>5, BlindRefines, FinalizeRefines DEF ClientNext

LEMMA StepRefines ==
  ASSUME ConsistentCaller, IInv, [Next]_vars
  PROVE  [Ideal!Next]_<<Claims, Revealed>>
<1>1. UNCHANGED session => UNCHANGED <<Claims, Revealed>> BY DEF Claims, Revealed
<1>2. CASE ClientNext BY <1>1, <1>2, ClientRefines
<1>3. CASE ServerNext
  BY <1>1, <1>3 DEF ServerNext, ServerNew, BlindEvaluate, BlindEvaluateWithProofScalar,
     BlindEvaluateBatch, BlindEvaluateBatchWithProofScalar, BlindEvaluateLocal, Reply
<1>4. CASE ChannelNext BY <1>1, <1>4 DEF ChannelNext, Lose, Damage
<1>5. CASE UNCHANGED vars BY <1>1, <1>5 DEF vars
<1> QED BY <1>2, <1>3, <1>4, <1>5 DEF Next

(***************************************************************************)
(* The theorems.                                                           *)
(***************************************************************************)
THEOREM InductiveInvariant == Spec => []IInv
BY InvInit, StepInv, PTL DEF Spec

(* Type correctness of every reachable state: no sequence of parsed        *)
(* requests, damaged responses, key changes, crashes and restores gives    *)
(* the server a zero key, the client an identity key or a session the      *)
(* identity as tweaked key.                                                *)
THEOREM TypeCorrect == Spec => []TypeOK
<1>1. IInv => TypeOK BY DEF IInv
<1> QED BY <1>1, InductiveInvariant, PTL

(* Whatever the order of key changes and requests, a session that Blind    *)
(* opened is one that the server holding the pinned key evaluates: offline *)
(* always, blinded exactly if the blind is not zero.  The server refuses   *)
(* nothing that Blind accepts, except what a caller-chosen zero blind made *)
(* of it.                                                                  *)
THEOREM OpenedIsServable == Spec => []SessionIsServable
<1>1. IInv => SessionIsServable
  <2> SUFFICES ASSUME IInv, NEW t \in Live, NEW k \in SecretKey, NEW r \in Nonces,
                      PinnedTo(session[t], k)
               PROVE  /\ evaluate(k, session[t].input, session[t].info).ok
                      /\ blind_evaluate_with_r_inner(
                           k, session[t].blinded, session[t].info, r).ok
                           <=> ~scalar_is_zero(session[t].state.blind)
    BY DEF SessionIsServable
  <2> DEFINE s == session[t]
             b == s.state.blind
             h == HashToGroup[s.input]
  <2>1. s \in Session /\ Opened(s) BY InvSplit DEF IsSession, Live
  <2>2. evaluate(k, s.input, s.info).ok BY <2>1, PinnedServerEvaluates, Results
  <2>3. b \in Scalar /\ h \in Scalar /\ h # 0 /\ s.blinded = scalar_mul(b, h)
    BY <2>1, HashAssumption, RandomScalarIsScalar DEF Session, BlindState, Opened, is_identity
  <2>4. compute_t(k, s.info) = Ok(s.state.tweaked_key) BY <2>1, PinnedServerComputes
  <2> HIDE DEF b, h
  <2>5. s.blinded = 0 <=> b = 0
    <3>1. CASE b = 0 BY <3>1, <2>3, MulZero, MulCommutes
    <3>2. CASE b # 0 BY <3>2, <2>3, NoZeroDivisor, RandomScalarIsScalar
    <3> QED BY <3>1, <3>2
  <2> HIDE DEF s
  <2>6. blind_evaluate_with_r_inner(k, s.blinded, s.info, r).ok <=> s.blinded # 0
    BY <2>4, Results DEF blind_evaluate_with_r_inner, is_identity, identity
  <2>7. blind_evaluate_with_r_inner(k, s.blinded, s.info, r).ok <=> ~scalar_is_zero(b)
    BY <2>5, <2>6 DEF scalar_is_zero
  <2> QED BY <2>2, <2>7 DEF s, b
<1> QED BY <1>1, InductiveInvariant, PTL

(* An output the client accepted is what Evaluate returns for the session, *)
(* under the key it was pinned to, if finalize is given the session's own  *)
(* info (and the infos in use do not collide, CollisionAssumption).        *)
THEOREM AcceptedIsEvaluate ==
  ASSUME ConsistentCaller
  PROVE  Spec => []AcceptedOutputIsEvaluate
<1> DEFINE Inv == \A t \in Tokens : session[t] # None => IsEvaluated(session[t])
<1>1. Init => Inv BY DEF Init
<1>2. IInv /\ Inv /\ [Next]_vars => Inv'
  <2> SUFFICES ASSUME IInv, Inv, [Next]_vars, NEW t \in Tokens, session'[t] # None
               PROVE  IsEvaluated(session'[t])
    OBVIOUS
  <2> QED BY StepOutput
<1>3. Inv => AcceptedOutputIsEvaluate BY DEF AcceptedOutputIsEvaluate, IsEvaluated, Live
<1> HIDE DEF Inv
<1> QED BY <1>1, <1>2, <1>3, InductiveInvariant, PTL DEF Spec

(* Issuance implements PoprfIdeal: whatever the channel, the server, key   *)
(* changes, crashes and restores do, an open session is a claim on the     *)
(* output of Evaluate, and finalize does nothing but reveal that output.   *)
THEOREM ImplementsPoprf ==
  ASSUME ConsistentCaller
  PROVE  Spec => ImplementsIdeal
<1>1. Init => Ideal!Init BY DEF Init, Ideal!Init, Claims, Revealed
<1>2. IInv /\ [Next]_vars => [Ideal!Next]_<<Claims, Revealed>> BY StepRefines
<1> QED BY <1>1, <1>2, InductiveInvariant, PTL DEF Spec, ImplementsIdeal, Ideal!Spec

(* Completeness: whatever else happened, sessions of one key and one info, *)
(* none blinded by zero, are evaluated as one batch by the server that     *)
(* holds the key, for any proof randomness, and its response is accepted   *)
(* after it went to bytes and back, by the library's finalize_batch and by *)
(* finalizeBatch, which parses every session again.                        *)
THEOREM HonestAccepted == Spec => []HonestResponseAccepted
<1>1. IInv => HonestResponseAccepted
  <2> SUFFICES ASSUME IInv, NEW ts \in Batches(Live) \ {<< >>}, NEW k \in SecretKey,
                      NEW r \in Nonces,
                      \A i \in DOMAIN ts : session[ts[i]].pk = public_key(k)
                                          /\ session[ts[i]].info = session[ts[1]].info,
                      \A i \in DOMAIN ts : ~scalar_is_zero(session[ts[i]].state.blind)
               PROVE  LET blinded == [i \in DOMAIN ts |-> session[ts[i]].blinded]
                          res == blind_evaluate_batch_with_r_inner(
                                   k, blinded, session[ts[1]].info, r)
                          resp == response_to_bytes(res.val)
                          info == session[ts[1]].info
                      IN  /\ res.ok
                          /\ FinalizeBytes(ts, resp, info).ok
                          /\ FinalizeText(session[ts[1]].pk, ts, resp, info).ok
    BY DEF HonestResponseAccepted
  <2>1. PICK n \in 0..MaxBatch : ts \in [1..n -> Live] BY DEF Batches
  <2>2. n \in Nat BY <2>1, IssuanceAssumption
  <2>3. n # 0
    <3> SUFFICES ASSUME n = 0 PROVE FALSE OBVIOUS
    <3>1. ts \in Seq(Live) /\ Len(ts) = 0 BY <2>1
    <3>2. ts = << >> BY <3>1, EmptySeq
    <3> QED BY <3>2
  <2>4. DOMAIN ts = 1..n BY <2>1
  <2> QED BY <2>1, <2>2, <2>3, <2>4, HonestBatch
<1> QED BY <1>1, InductiveInvariant, PTL
=============================================================================
