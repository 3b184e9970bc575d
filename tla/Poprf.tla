-------------------------------- MODULE Poprf --------------------------------
(***************************************************************************)
(* The POPRF client and server: poprf-ristretto/src/poprf.rs.              *)
(*                                                                         *)
(* PoprfClient and PoprfServer are pure functions of their key and their   *)
(* arguments, so this module is operators; the protocol that calls them is *)
(* module Issuance.  The argument pk or sk that an operator takes first is *)
(* the receiver's field.                                                   *)
(*                                                                         *)
(* Inputs and infos are model values.  HashToGroup and HashToScalar are    *)
(* the two hashes applied to them: arbitrary functions, identity and zero  *)
(* included.  SHA-512 of the length-prefixed transcript of Finalize is     *)
(* injective, so an output is the record of what was hashed.               *)
(***************************************************************************)
EXTENDS Dleq, FiniteSets

CONSTANTS
  Inputs,          \* private inputs
  Infos,           \* public infos
  HashToGroup,     \* [Inputs -> Element]
  HashToScalar,    \* [Infos -> Scalar], of the framed info
  LpLen            \* [Inputs \cup Infos -> Nat], lengths in bytes

ASSUME HashAssumption ==
  /\ HashToGroup \in [Inputs -> Element]
  /\ HashToScalar \in [Infos -> Scalar]
  /\ LpLen \in [Inputs \cup Infos -> Nat]

check_lp_len(x) == LpLenOk(LpLen[x])

(***************************************************************************)
(* Outputs.                                                                *)
(***************************************************************************)
finalize_hash(input, info, unblinded) ==
  [input |-> input, info |-> info, unblinded |-> unblinded]

Output == [input : Inputs, info : Infos, unblinded : Element]

(***************************************************************************)
(* Client: Blind.                                                          *)
(***************************************************************************)
\* The key the client expects the server to evaluate under.
TweakedKey(pk, info) == element_add(scalar_mul_gen(HashToScalar[info]), pk)

\* Mutant: an input that hashes to the identity is not rejected.
blind_with_inner_unchecked(pk, input, info, blind) ==
  IF ~check_lp_len(input) \/ ~check_lp_len(info) THEN Err("InputTooLong")
  ELSE IF is_identity(TweakedKey(pk, info)) THEN Err("InvalidInput")
  ELSE Ok([state   |-> [blind |-> blind, tweaked_key |-> TweakedKey(pk, info)],
           blinded |-> scalar_mul(blind, HashToGroup[input])])

blind_with_inner(pk, input, info, blind) ==
  IF ~check_lp_len(input) \/ ~check_lp_len(info) THEN Err("InputTooLong")
  ELSE IF is_identity(TweakedKey(pk, info)) THEN Err("InvalidInput")
  ELSE IF is_identity(HashToGroup[input]) THEN Err("InvalidInput")
  ELSE Ok([state   |-> [blind |-> blind, tweaked_key |-> TweakedKey(pk, info)],
           blinded |-> scalar_mul(blind, HashToGroup[input])])

blind_with_scalar(pk, input, info, blind_bytes) ==
  LET blind == deserialize_scalar(blind_bytes)
  IN  IF blind.ok THEN blind_with_inner(pk, input, info, blind.val) ELSE blind

(***************************************************************************)
(* Server: BlindEvaluate and Evaluate.                                     *)
(***************************************************************************)
compute_t(sk, info) ==
  LET t == scalar_add(sk, HashToScalar[info])
  IN  IF ~check_lp_len(info) THEN Err("InputTooLong")
      ELSE IF scalar_is_zero(t) THEN Err("Inverse")
      ELSE Ok(t)

\* The elements blinded evaluated under t and the proof that covers them.
EvaluateWith(t, blinded, r) ==
  LET evaluated == Scaled(scalar_invert(t), blinded)
  IN  [evaluated |-> evaluated,
       proof |-> generate_proof_with_r(t, generator, scalar_mul_gen(t), evaluated, blinded, r)]

blind_evaluate_with_r_inner(sk, blinded, info, r) ==
  LET t == compute_t(sk, info)
  IN  IF is_identity(blinded) THEN Err("InputValidation")
      ELSE IF ~t.ok THEN t
      ELSE Ok(EvaluateWith(t.val, <<blinded>>, r))

blind_evaluate_batch_with_r_inner(sk, blinded, info, r) ==
  LET t == compute_t(sk, info)
  IN  IF blinded = << >> THEN Err("LengthMismatch")
      ELSE IF \E i \in DOMAIN blinded : is_identity(blinded[i]) THEN Err("InputValidation")
      ELSE IF ~t.ok THEN t
      ELSE Ok(EvaluateWith(t.val, blinded, r))

\* Mutant: an input that hashes to the identity is not rejected.
evaluate_unchecked(sk, input, info) ==
  LET t == compute_t(sk, info)
  IN  IF ~check_lp_len(input) THEN Err("InputTooLong")
      ELSE IF ~t.ok THEN t
      ELSE Ok(finalize_hash(input, info, scalar_mul(scalar_invert(t.val), HashToGroup[input])))

evaluate(sk, input, info) ==
  LET t == compute_t(sk, info)
  IN  IF ~check_lp_len(input) THEN Err("InputTooLong")
      ELSE IF is_identity(HashToGroup[input]) THEN Err("InvalidInput")
      ELSE IF ~t.ok THEN t
      ELSE Ok(finalize_hash(input, info, scalar_mul(scalar_invert(t.val), HashToGroup[input])))

(***************************************************************************)
(* Client: Finalize.                                                       *)
(***************************************************************************)
\* Mutant: the blind is applied, not removed.
unblind_and_hash_blinded(input, info, state, evaluated) ==
  finalize_hash(input, info, scalar_mul(state.blind, evaluated))

unblind_and_hash(input, info, state, evaluated) ==
  finalize_hash(input, info, scalar_mul(scalar_invert(state.blind), evaluated))

\* Mutant: the proof is not verified.
finalize_unverified(input, state, evaluated, blinded, proof, info) ==
  IF ~check_lp_len(input) \/ ~check_lp_len(info) THEN Err("InputTooLong")
  ELSE Ok(unblind_and_hash(input, info, state, evaluated))

finalize(input, state, evaluated, blinded, proof, info) ==
  IF ~check_lp_len(input) \/ ~check_lp_len(info) THEN Err("InputTooLong")
  ELSE IF ~verify_proof(generator, state.tweaked_key, <<evaluated>>, <<blinded>>, proof)
       THEN Err("Verify")
  ELSE Ok(unblind_and_hash(input, info, state, evaluated))

\* Mutant: the sessions of a batch may have different tweaked keys.
finalize_batch_divergent(inputs, states, evaluated, blinded, proof, info) ==
  IF \/ inputs = << >>
     \/ Len(inputs) # Len(states)
     \/ Len(inputs) # Len(evaluated)
     \/ Len(inputs) # Len(blinded)
  THEN Err("LengthMismatch")
  ELSE IF ~verify_proof(generator, states[1].tweaked_key, evaluated, blinded, proof)
       THEN Err("Verify")
  ELSE Ok([i \in DOMAIN inputs |->
             unblind_and_hash(inputs[i], info, states[i], evaluated[i])])

finalize_batch(inputs, states, evaluated, blinded, proof, info) ==
  IF \/ inputs = << >>
     \/ Len(inputs) # Len(states)
     \/ Len(inputs) # Len(evaluated)
     \/ Len(inputs) # Len(blinded)
  THEN Err("LengthMismatch")
  ELSE IF ~check_lp_len(info) \/ \E i \in DOMAIN inputs : ~check_lp_len(inputs[i])
       THEN Err("InputTooLong")
  ELSE IF \E i \in DOMAIN states : states[i].tweaked_key # states[1].tweaked_key
       THEN Err("InconsistentState")
  ELSE IF ~verify_proof(generator, states[1].tweaked_key, evaluated, blinded, proof)
       THEN Err("Verify")
  ELSE Ok([i \in DOMAIN inputs |->
             unblind_and_hash(inputs[i], info, states[i], evaluated[i])])

(***************************************************************************)
(* Blind states on the wire: SerializeScalar(blind) ||                     *)
(* SerializeElement(tweakedKey).  whole is FALSE of a buffer that is not   *)
(* 64 bytes long.                                                          *)
(***************************************************************************)
blind_state_to_bytes(state) ==
  [whole |-> TRUE, blind |-> state.blind, tweaked_key |-> state.tweaked_key]

blind_state_from_bytes(buf) ==
  LET blind == deserialize_scalar(buf.blind)
      tweaked_key == deserialize_element(buf.tweaked_key)
  IN  IF ~buf.whole THEN Err("Deserialize")
      ELSE IF ~blind.ok THEN blind
      ELSE IF ~tweaked_key.ok THEN tweaked_key
      ELSE Ok([blind |-> blind.val, tweaked_key |-> tweaked_key.val])
=============================================================================
