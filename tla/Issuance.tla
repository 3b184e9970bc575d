------------------------------ MODULE Issuance ------------------------------
(***************************************************************************)
(* Token issuance: the online protocol that an application runs with       *)
(* PoprfClient and PoprfServer (poprf-ristretto/src/poprf.rs, called       *)
(* through the library, the C interface or the WebAssembly module).        *)
(*                                                                         *)
(* The client blinds an input and keeps a session: its PoprfBlindState and *)
(* what the application remembers beside it (the input, the info, the      *)
(* blinded element).  The server evaluates whatever elements reach it, for *)
(* whatever info.  Its responses travel as bytes over a channel that may   *)
(* lose, duplicate, delay, cross-deliver or damage them, and the client    *)
(* finalizes a session against any response it finds there.  The server    *)
(* may change its key, and the client its idea of the server's key, at any *)
(* time; a client may write its sessions to disk, crash and restore them.  *)
(***************************************************************************)
EXTENDS Poprf

CONSTANTS
  Tokens,            \* names of the sessions a client may have open at once
  None,              \* absence of a session, an output or a file
  KeyBytes,          \* the key encodings that are ever configured
  Blinds,            \* the values random_scalar returns to a client
  BlindBytes,        \* the arguments of blind_with_scalar
  Nonces,            \* the values random_scalar returns to the prover
  NonceBytes,        \* the arguments of ..._with_proof_scalar
  RequestBytes,      \* what the elements of a request may read as
  Damages,           \* the kinds of damage the channel does
  DamagedBytes,      \* what a damaged field may read as
  ConsistentCaller,  \* whether finalize is given the info the session was made for
  Durable,           \* whether the client persists its sessions
  MaxBatch,          \* bound: elements in a batch
  MaxResponses       \* bound: responses in the channel

ASSUME IssuanceAssumption ==
  /\ KeyBytes \subseteq Bytes
  /\ Blinds \subseteq RandomScalar
  /\ BlindBytes \subseteq FixedBytes
  /\ Nonces \subseteq RandomScalar
  /\ NonceBytes \subseteq FixedBytes
  /\ RequestBytes \subseteq Bytes
  /\ Damages \subseteq {"field", "list", "length", "splice"}
  /\ DamagedBytes \subseteq Bytes
  /\ ConsistentCaller \in BOOLEAN
  /\ Durable \in BOOLEAN
  /\ MaxBatch \in Nat
  /\ MaxResponses \in Nat

(* Tweaked keys of distinct admissible infos are distinct, for the keys in *)
(* use.  In the code the infos are hashed to scalars of 252 bits.          *)
ASSUME CollisionAssumption ==
  \A pk1, pk2 \in KeyBytes, i, j \in Infos :
    /\ public_key_from_bytes(pk1).ok
    /\ public_key_from_bytes(pk2).ok
    /\ check_lp_len(i)
    /\ check_lp_len(j)
    /\ TweakedKey(pk1, i) = TweakedKey(pk2, j)
    => i = j

VARIABLES
  server,      \* PoprfServer.sk
  client,      \* PoprfClient.pk
  session,     \* what the client holds in memory for each token
  disk,        \* what it wrote to stable storage for each token
  responses,   \* the channel from the server to the client
  ret          \* the outcome of the last call: "Ok" or the Error

vars == <<server, client, session, disk, responses, ret>>

BlindState == [blind : Scalar, tweaked_key : Element \ {identity}]

\* pk is the key the client was configured with at Blind.  The code does not
\* store it: it survives in state.tweaked_key only.
Session == [pk : PublicKey, input : Inputs, info : Infos, state : BlindState,
            blinded : Element, out : Output \cup {None}]

(* None is a value of its own, neither a session nor a claim.              *)
ASSUME NoneAssumption ==
  None \notin Session \cup [key : PublicKey, input : Inputs, info : Infos]

\* A session as it is written to disk, without its output.
StoredSession ==
  [pk : PublicKey, input : Inputs, info : Infos, blinded : Element,
   state : [whole : BOOLEAN, blind : Scalar, tweaked_key : Element \ {identity}]]

(***************************************************************************)
(* Helpers.                                                                *)
(***************************************************************************)
Live == {t \in Tokens : session[t] # None}

First(S) == CHOOSE i \in S : \A j \in S : i <= j

\* Parse a slice of buffers, giving up at the first that is rejected.
deserialize_elements(bufs) ==
  LET bad == {i \in DOMAIN bufs : ~deserialize_element(bufs[i]).ok}
  IN  IF bad # {} THEN Err(deserialize_element(bufs[First(bad)]).err)
      ELSE Ok([i \in DOMAIN bufs |-> deserialize_element(bufs[i]).val])

Batches(S) == UNION {[1..n -> S] : n \in 0..MaxBatch}

\* intact is bookkeeping of the channel: no bytes carry it.
response_to_bytes(res) ==
  [evaluated |-> res.evaluated, proof |-> proof_to_bytes(res.proof), intact |-> TRUE]

\* Bound: the server takes a request only while the channel has room.
HasRoom == Cardinality(responses) < MaxResponses

(***************************************************************************)
(* Configuration: a key read from bytes replaces the one in use.           *)
(***************************************************************************)
ServerNew(bytes) ==
  LET sk == secret_key_from_bytes(bytes)
  IN  /\ server' = IF sk.ok THEN sk.val ELSE server
      /\ ret' = Outcome(sk)
      /\ UNCHANGED <<client, session, disk, responses>>

ClientNew(bytes) ==
  LET pk == public_key_from_bytes(bytes)
  IN  /\ client' = IF pk.ok THEN pk.val ELSE client
      /\ ret' = Outcome(pk)
      /\ UNCHANGED <<server, session, disk, responses>>

(***************************************************************************)
(* Client: Blind.  A session that was open under the name t is dropped.    *)
(***************************************************************************)
OpenSession(t, input, info, res) ==
  /\ session' = IF res.ok
                THEN [session EXCEPT ![t] =
                        [pk |-> client, input |-> input, info |-> info,
                         state |-> res.val.state, blinded |-> res.val.blinded,
                         out |-> None]]
                ELSE session
  /\ ret' = Outcome(res)
  /\ UNCHANGED <<server, client, disk, responses>>

Blind(t, input, info) ==
  \E blind \in Blinds :
    OpenSession(t, input, info, blind_with_inner(client, input, info, blind))

BlindWithScalar(t, input, info, blind_bytes) ==
  OpenSession(t, input, info, blind_with_scalar(client, input, info, blind_bytes))

(***************************************************************************)
(* Server: BlindEvaluate.                                                  *)
(***************************************************************************)
Reply(res) ==
  /\ HasRoom
  /\ responses' = IF res.ok THEN responses \cup {response_to_bytes(res.val)}
                  ELSE responses
  /\ ret' = Outcome(res)
  /\ UNCHANGED <<server, client, session, disk>>

\* One element, parsed from the bytes of a request.
BlindEvaluate(buf, info) ==
  LET blinded == deserialize_element(buf)
  IN  \E r \in Nonces :
        Reply(IF blinded.ok THEN blind_evaluate_with_r_inner(server, blinded.val, info, r)
              ELSE blinded)

BlindEvaluateWithProofScalar(buf, info, r_bytes) ==
  LET blinded == deserialize_element(buf)
      r == deserialize_scalar(r_bytes)
  IN  Reply(IF ~blinded.ok THEN blinded
            ELSE IF ~r.ok THEN r
            ELSE blind_evaluate_with_r_inner(server, blinded.val, info, r.val))

\* A batch, parsed from the bytes of a request.
BlindEvaluateBatch(bufs, info) ==
  LET blinded == deserialize_elements(bufs)
  IN  \E r \in Nonces :
        Reply(IF blinded.ok
              THEN blind_evaluate_batch_with_r_inner(server, blinded.val, info, r)
              ELSE blinded)

BlindEvaluateBatchWithProofScalar(bufs, info, r_bytes) ==
  LET blinded == deserialize_elements(bufs)
      r == deserialize_scalar(r_bytes)
  IN  Reply(IF ~blinded.ok THEN blinded
            ELSE IF ~r.ok THEN r
            ELSE blind_evaluate_batch_with_r_inner(server, blinded.val, info, r.val))

\* Client and server in one process: the elements are handed over as objects,
\* so nothing has rejected the identity before BlindEvaluate sees it.
BlindEvaluateLocal(ts, info) ==
  /\ \A i \in DOMAIN ts : session[ts[i]] # None
  /\ \E r \in Nonces :
       Reply(blind_evaluate_batch_with_r_inner(
               server, [i \in DOMAIN ts |-> session[ts[i]].blinded], info, r))

(***************************************************************************)
(* The channel.  A response stays until it is lost, so that it can be      *)
(* delivered late, twice, or to a session it was not made for.             *)
(***************************************************************************)
Lose(resp) ==
  /\ responses' = responses \ {resp}
  /\ UNCHANGED <<server, client, session, disk, ret>>

\* A field reads differently.
DamagedElement(resp) ==
  {[resp EXCEPT !.evaluated[i] = b] : i \in DOMAIN resp.evaluated, b \in DamagedBytes}

DamagedScalar(resp) ==
  LET bytes == DamagedBytes \cap FixedBytes
  IN  {[resp EXCEPT !.proof.c = RawScalar(b)] : b \in bytes}
        \cup {[resp EXCEPT !.proof.s.one = b] : b \in bytes}
        \cup {[resp EXCEPT !.proof.s = Linear(b, 0, RawScalar(0))] : b \in bytes}

\* The list of elements is shorter, or in another order.
DamagedList(resp) ==
  {[resp EXCEPT !.evaluated = SubSeq(@, 2, Len(@))],
   [resp EXCEPT !.evaluated = [i \in DOMAIN @ |-> @[Len(@) + 1 - i]]]}

\* The proof is cut short, or is that of another response.
DamagedLength(resp) == {[resp EXCEPT !.proof.whole = FALSE]}
DamagedSplice(resp) == {[resp EXCEPT !.proof = other.proof] : other \in responses}

Damaged(kind, resp) ==
  CASE kind = "field"  -> DamagedElement(resp) \cup DamagedScalar(resp)
    [] kind = "list"   -> DamagedList(resp)
    [] kind = "length" -> DamagedLength(resp)
    [] kind = "splice" -> DamagedSplice(resp)

\* Bound: a response is damaged once.
Damage(resp) ==
  /\ resp.intact
  /\ \E kind \in Damages : \E dam \in Damaged(kind, resp) :
       responses' = (responses \ {resp}) \cup {[dam EXCEPT !.intact = FALSE]}
  /\ UNCHANGED <<server, client, session, disk, ret>>

(***************************************************************************)
(* Client: Finalize.                                                       *)
(***************************************************************************)
\* The infos a caller may hand to finalize with the sessions ts: that of one
\* of them if it is consistent, anything if it is not.
FinalizeInfos(ts) ==
  IF ConsistentCaller /\ ts # << >> THEN {session[ts[i]].info : i \in DOMAIN ts} ELSE Infos

\* Element i of a response, with its proof, for the session of t.
Finalize(t, resp, i) ==
  LET evaluated == deserialize_element(resp.evaluated[i])
      proof == proof_from_bytes(resp.proof)
      s == session[t]
  IN  /\ s # None
      /\ \E info \in FinalizeInfos(<<t>>) :
           LET res == IF ~evaluated.ok THEN evaluated
                      ELSE IF ~proof.ok THEN proof
                      ELSE finalize(s.input, s.state, evaluated.val, s.blinded, proof.val, info)
           IN  /\ session' = IF res.ok THEN [session EXCEPT ![t].out = res.val] ELSE session
               /\ ret' = Outcome(res)
      /\ UNCHANGED <<server, client, disk, responses>>

\* The sessions ts, in that order, against all of a response: the caller parses
\* what was received and hands over the rest as the objects it has.
FinalizeBytes(ts, resp, info) ==
  LET evaluated == deserialize_elements(resp.evaluated)
      proof == proof_from_bytes(resp.proof)
      Of(f) == [i \in DOMAIN ts |-> session[ts[i]][f]]
  IN  IF ~evaluated.ok THEN evaluated
      ELSE IF ~proof.ok THEN proof
      ELSE finalize_batch(Of("input"), Of("state"), evaluated.val, Of("blinded"),
                          proof.val, info)

(* The same through the WebAssembly module, which is given all of it as    *)
(* text: the public key (parsed, and then not used), the arrays, element   *)
(* by element the state, the blinded and the evaluated element, the proof. *)
FinalizeText(pk_bytes, ts, resp, info) ==
  LET pk == public_key_from_bytes(pk_bytes)
      state(i) == blind_state_from_bytes(blind_state_to_bytes(session[ts[i]].state))
      blinded(i) == deserialize_element(session[ts[i]].blinded)
      evaluated(i) == deserialize_element(resp.evaluated[i])
      Parsed(i) == IF ~state(i).ok THEN state(i)
                   ELSE IF ~blinded(i).ok THEN blinded(i)
                   ELSE evaluated(i)
      bad == {i \in DOMAIN ts : ~Parsed(i).ok}
      proof == proof_from_bytes(resp.proof)
  IN  IF ~pk.ok THEN pk
      ELSE IF Len(ts) # Len(resp.evaluated) THEN Err("LengthMismatch")
      ELSE IF bad # {} THEN Err(Parsed(First(bad)).err)
      ELSE IF ~proof.ok THEN proof
      ELSE finalize_batch([i \in DOMAIN ts |-> session[ts[i]].input],
                          [i \in DOMAIN ts |-> state(i).val],
                          [i \in DOMAIN ts |-> evaluated(i).val],
                          [i \in DOMAIN ts |-> blinded(i).val],
                          proof.val, info)

\* The caller takes the output of t from where t stands in ts.
RevealBatch(ts, res) ==
  LET At(t) == CHOOSE i \in DOMAIN ts : ts[i] = t
  IN  /\ session' = [t \in Tokens |->
                       IF res.ok /\ \E i \in DOMAIN ts : ts[i] = t
                       THEN [session[t] EXCEPT !.out = res.val[At(t)]]
                       ELSE session[t]]
      /\ ret' = Outcome(res)
      /\ UNCHANGED <<server, client, disk, responses>>

FinalizeBatch(ts, resp) ==
  /\ \A i \in DOMAIN ts : session[ts[i]] # None
  /\ \E info \in FinalizeInfos(ts) : RevealBatch(ts, FinalizeBytes(ts, resp, info))

FinalizeBatchWasm(pk_bytes, ts, resp) ==
  /\ \A i \in DOMAIN ts : session[ts[i]] # None
  /\ \E info \in FinalizeInfos(ts) :
       RevealBatch(ts, FinalizeText(pk_bytes, ts, resp, info))

(***************************************************************************)
(* Persistence: the session is written with to_bytes and read back with    *)
(* from_bytes.  A crash loses every session and may tear the record that   *)
(* was being written: it is cut short, which from_bytes detects.  A record *)
(* of full length that mixes the bytes of two sessions is not modelled;    *)
(* the wire form has no checksum, so from_bytes may take such a mixture    *)
(* for a state, and keeping records whole is up to the application.        *)
(***************************************************************************)
session_to_bytes(s) ==
  [pk |-> s.pk, input |-> s.input, info |-> s.info,
   state |-> blind_state_to_bytes(s.state), blinded |-> s.blinded]

Persist(t) ==
  /\ Durable
  /\ session[t] # None
  /\ disk' = [disk EXCEPT ![t] = session_to_bytes(session[t])]
  /\ UNCHANGED <<server, client, session, responses, ret>>

Torn(file) == [file EXCEPT !.state.whole = FALSE]

Crash ==
  /\ Durable
  /\ session' = [t \in Tokens |-> None]
  /\ \/ UNCHANGED disk
     \/ \E t \in Live : disk' = [disk EXCEPT ![t] = Torn(session_to_bytes(session[t]))]
  /\ UNCHANGED <<server, client, responses, ret>>

Restore(t) ==
  LET file == disk[t]
      state == blind_state_from_bytes(file.state)
      blinded == deserialize_element(file.blinded)
      res == IF ~state.ok THEN state ELSE blinded
  IN  /\ session[t] = None
      /\ file # None
      /\ session' = IF res.ok
                    THEN [session EXCEPT ![t] =
                            [pk |-> file.pk, input |-> file.input, info |-> file.info,
                             state |-> state.val, blinded |-> blinded.val, out |-> None]]
                    ELSE session
      /\ ret' = Outcome(res)
      /\ UNCHANGED <<server, client, disk, responses>>

(***************************************************************************)
(* Specification.                                                          *)
(***************************************************************************)
Init ==
  /\ server \in {k \in KeyBytes : secret_key_from_bytes(k).ok}
  /\ client = public_key(server)
  /\ session = [t \in Tokens |-> None]
  /\ disk = [t \in Tokens |-> None]
  /\ responses = {}
  /\ ret = "Ok"

ClientNext ==
  \/ \E bytes \in KeyBytes : ClientNew(bytes)
  \/ \E t \in Tokens, input \in Inputs, info \in Infos :
       \/ Blind(t, input, info)
       \/ \E bytes \in BlindBytes : BlindWithScalar(t, input, info, bytes)
  \/ \E t \in Tokens, resp \in responses :
       \E i \in DOMAIN resp.evaluated : Finalize(t, resp, i)
  \/ \E ts \in Batches(Tokens), resp \in responses :
       \/ FinalizeBatch(ts, resp)
       \/ \E bytes \in KeyBytes : FinalizeBatchWasm(bytes, ts, resp)
  \/ \E t \in Tokens : Persist(t) \/ Restore(t)
  \/ Crash

ServerNext ==
  \/ \E bytes \in KeyBytes : ServerNew(bytes)
  \/ \E buf \in RequestBytes, info \in Infos :
       \/ BlindEvaluate(buf, info)
       \/ \E bytes \in NonceBytes : BlindEvaluateWithProofScalar(buf, info, bytes)
  \/ \E bufs \in Batches(RequestBytes), info \in Infos :
       \/ BlindEvaluateBatch(bufs, info)
       \/ \E bytes \in NonceBytes : BlindEvaluateBatchWithProofScalar(bufs, info, bytes)
  \/ \E ts \in Batches(Tokens), info \in Infos : BlindEvaluateLocal(ts, info)

ChannelNext == \E resp \in responses : Lose(resp) \/ Damage(resp)

Next == ClientNext \/ ServerNext \/ ChannelNext

Spec == Init /\ [][Next]_vars

(***************************************************************************)
(* Properties.                                                             *)
(***************************************************************************)
(* Type correctness.  Keys are never zero or the identity, a session's     *)
(* tweaked key is never the identity, and what the channel holds are lists *)
(* of buffers.                                                             *)
TypeOK ==
  /\ server \in SecretKey
  /\ client \in PublicKey
  /\ session \in [Tokens -> Session \cup {None}]
  /\ disk \in [Tokens -> StoredSession \cup {None}]
  /\ \A resp \in responses : resp.evaluated \in Seq(Bytes)

\* s was made for the public key of the secret key k.
PinnedTo(s, k) == public_key(k) = s.pk

(* An output that finalize or finalize_batch accepted is what Evaluate     *)
(* returns for the session's own input and info under the key the client   *)
(* was configured with when it blinded - whatever the server was asked,    *)
(* whichever key it holds by now, and whatever the channel did.            *)
AcceptedOutputIsEvaluate ==
  \A t \in Live, k \in SecretKey :
    session[t].out # None /\ PinnedTo(session[t], k)
    => evaluate(k, session[t].input, session[t].info) = Ok(session[t].out)

(* lib.rs:77-80 of poprf-ristretto: if client and server disagree on info, *)
(* finalize fails with Error::Verify and never returns garbage, that is,   *)
(* an output that Evaluate returns for no (input, info) the output binds.  *)
NoSilentGarbage ==
  \A t \in Live, k \in SecretKey :
    session[t].out # None /\ PinnedTo(session[t], k)
    => evaluate(k, session[t].out.input, session[t].out.info) = Ok(session[t].out)

(* The client's checks at Blind foresee the server's: the server holding   *)
(* the pinned key evaluates the input of a session that Blind opened, and  *)
(* answers its blinded element, with whatever proof randomness, unless the *)
(* caller gave blind_with_scalar a zero blind.  That one it refuses.       *)
SessionIsServable ==
  \A t \in Live, k \in SecretKey, r \in Nonces :
    LET s == session[t]
        reply == blind_evaluate_with_r_inner(k, s.blinded, s.info, r)
    IN  PinnedTo(s, k)
        => /\ evaluate(k, s.input, s.info).ok
           /\ reply.ok <=> ~scalar_is_zero(s.state.blind)

(* Completeness: sessions of one key and one info, none of them blinded by *)
(* zero, are evaluated in one batch by the server holding that key, and    *)
(* the response, to bytes and back, is accepted, whether the sessions are  *)
(* finalized as objects or as text.                                        *)
HonestResponseAccepted ==
  \A ts \in Batches(Live) \ {<< >>}, k \in SecretKey, r \in Nonces :
    LET s(i) == session[ts[i]]
        blinded == [i \in DOMAIN ts |-> s(i).blinded]
        res == blind_evaluate_batch_with_r_inner(k, blinded, s(1).info, r)
        resp == response_to_bytes(res.val)
    IN  /\ \A i \in DOMAIN ts : s(i).pk = public_key(k) /\ s(i).info = s(1).info
        /\ \A i \in DOMAIN ts : ~scalar_is_zero(s(i).state.blind)
        => /\ res.ok
           /\ FinalizeBytes(ts, resp, s(1).info).ok
           /\ FinalizeText(s(1).pk, ts, resp, s(1).info).ok

(* poprf.rs:386-392 and the test finalize_batch_rejects_mismatched_tweaked *)
(* _key: without the check on tweaked keys, a batch accepted under the key *)
(* of its first session would give every other session of another tweaked  *)
(* key a value that does not match Evaluate(input_i, info).                *)
DivergentBatchDesyncs ==
  \A ts \in Batches(Live) \ {<< >>}, k \in SecretKey, r \in Nonces :
    LET s(i) == session[ts[i]]
        blinded == [i \in DOMAIN ts |-> s(i).blinded]
        info == s(1).info
        res == blind_evaluate_batch_with_r_inner(k, blinded, info, r)
    IN  PinnedTo(s(1), k) /\ res.ok
        => \A i \in DOMAIN ts :
             s(i).state.tweaked_key # s(1).state.tweaked_key
             => evaluate(k, s(i).input, info)
                  # Ok(unblind_and_hash(s(i).input, info, s(i).state, res.val.evaluated[i]))

(***************************************************************************)
(* The inductive invariant behind them: TypeOK and the following.          *)
(***************************************************************************)
\* What Blind establishes and to_bytes and from_bytes preserve, of a session or
\* of a file (s.state.whole is not looked at).
Opened(s) ==
  /\ s.pk \in KeyBytes
  /\ check_lp_len(s.input) /\ check_lp_len(s.info)
  /\ ~is_identity(HashToGroup[s.input])
  /\ s.state.tweaked_key = TweakedKey(s.pk, s.info)
  /\ s.blinded = scalar_mul(s.state.blind, HashToGroup[s.input])

WellFormed(resp) ==
  /\ DOMAIN resp = {"evaluated", "proof", "intact"}
  /\ DOMAIN resp.proof = {"whole", "c", "s"}
  /\ DOMAIN resp.proof.s = {"one", "chal", "of"}
  /\ resp.proof.s.chal \in Scalar
  /\ Grounded(resp.proof.c)

(* The keys, sessions, files and responses that the code can have made, or *)
(* the channel made of those.                                              *)
Provenance ==
  /\ client \in KeyBytes
  /\ \A t \in Tokens : session[t] # None => Opened(session[t])
  /\ \A t \in Tokens : disk[t] # None => Opened(disk[t])
  /\ \A resp \in responses : WellFormed(resp)

IInv == TypeOK /\ Provenance

(***************************************************************************)
(* Refinement.                                                             *)
(***************************************************************************)
KeyOf(pk) == CHOOSE k \in SecretKey : public_key(k) = pk

Claimed(s) == [key |-> s.pk, input |-> s.input, info |-> s.info]

\* The open sessions as claims, and what finalize has revealed of them.
Claims == [t \in Tokens |-> IF session[t] = None THEN None ELSE Claimed(session[t])]
Revealed == [t \in Tokens |-> IF session[t] = None THEN None ELSE session[t].out]

Ideal == INSTANCE PoprfIdeal WITH
  Keys    <- PublicKey,
  F       <- LAMBDA pk, input, info : evaluate(KeyOf(pk), input, info).val,
  Defined <- LAMBDA pk, input, info : evaluate(KeyOf(pk), input, info).ok,
  claim   <- Claims,
  out     <- Revealed

(* Issuance implements the ideal function: a session is a claim on the     *)
(* output of Evaluate under the key the client had at Blind, and finalize, *)
(* single or batched, late, repeated or after a crash, does nothing but    *)
(* reveal that output.                                                     *)
ImplementsIdeal == Ideal!Spec
=============================================================================
