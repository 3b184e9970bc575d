# A TLA+ model of poprf-ristretto

`poprf-ristretto` implements the partially oblivious pseudorandom function
(POPRF) of RFC 9497 over ristretto255 with SHA-512.  A client holds a private
input and agrees with a server on a public info.  It *blinds* the input, the
server *evaluates* the blinded element under its secret key tweaked by the
info and proves (DLEQ) that it used the key it published, and the client
verifies the proof and *finalizes*: it removes the blind and hashes.  Later the
server recomputes the same output from the input alone (offline redemption).

This directory models that system in TLA+, checks it with TLC on small
instances and proves its central invariants with TLAPS for every value of the
constants.

## 1. Inventory

Paths are relative to `src/`.  `P` stands for `poprf-ristretto/src`.

| Component | Source | State | Operations | Status |
|---|---|---|---|---|
| Group and wire parsing | `P/group.rs` | none | element and scalar arithmetic, `random_scalar`, `hash_to_*`, (de)serialization, `msm` | modelled |
| Keys | `P/key.rs` | a key | `from_bytes`, `to_bytes`, `public_key`, `generate_key_pair`, `derive_key_pair` | modelled |
| Framing helpers | `P/util.rs` and the transcripts of `P/poprf.rs`, `P/dleq.rs`, `P/key.rs` | none | `check_lp_len`, `i2osp_1`, `i2osp_2`, `append_lp`, every transcript that is hashed | modelled |
| DLEQ proof | `P/dleq.rs` | none | `generate_proof_with_r`, `verify_proof`, composites, `Proof` wire form | modelled |
| Client | `P/poprf.rs` | the server's public key; per token a `PoprfBlindState` handed to the caller | `blind`, `blind_with_scalar`, `finalize`, `finalize_batch`, blind state wire form | modelled |
| Server, online | `P/poprf.rs` | the secret key | `blind_evaluate`, `blind_evaluate_batch`, both with a supplied proof scalar, `evaluate` | modelled |
| Issuance protocol | the callers: `P/poprf.rs`, wasm and ffi crates | open sessions, stored sessions, responses in flight | what an application does with the two | modelled |
| Offline redemption | `P/poprf.rs` | pre-hashed input tables | `PoprfInputTable::new`, `evaluate_tables`, output comparison | modelled |
| Errors | `P/error.rs` | none | variants | modelled |
| serde support | `P/serde_util.rs` and the `serde_impls` of `P/key.rs`, `P/dleq.rs`, `P/poprf.rs` | none | hex codec, visitors, `Serialize` and `Deserialize` of seven types | modelled |
| C interface | `poprf-ristretto-ffi/src/lib.rs` | owned handles, caller's output slots, a per-thread last error | 23 extern functions: constructors, encoders, two batch calls, destructors, the last error | modelled |
| WebAssembly interface | `poprf-ristretto-wasm/src/lib.rs` | none | `blindBatch`, `finalizeBatch` | partly |
| Crate root, tests, benches, build | `P/lib.rs`, `tests/`, ... | none | re-exports, evidence of promises | not modelled |

**How they interact.** Client and server are pure values: a key, and functions
of that key and the arguments.  There are no threads, locks or callbacks in the
crate, and it persists nothing.  All protocol state is what callers keep
between calls: a `PoprfBlindState` and, beside it, the input, the info and the
blinded element that must be given back at `finalize`.  Elements, proofs and
states travel as bytes; every parse is a place where a call can fail.

**What is hard.**

- *Sessions outlive their context.* `finalize` does not look at the client's
  key or recompute anything from the info.  The tweaked key that `blind` stored
  is all that ties a session to the key and info it was opened for
  (`poprf.rs:343-362`).
- *Messages are late, repeated, reordered, damaged, or for somebody else.*
  Nothing in a response names its session; the proof alone must decide.
- *Batches are zipped by position* (`poprf.rs:364-409`) and share one proof and
  one tweaked key: the first session's.
- *The two sides check independently.* Length caps, identity inputs and
  `t = 0` are tested by the client at `blind` and by the server at
  `blind_evaluate` and `evaluate`, in different forms.  Where they disagree, a
  session is opened that can never be served.
- *Edges of the algebra:* zero blinds and zero proof scalars are reachable
  through the entry points that take a scalar; `scalar_invert(0) = 0`.
- *Prover and verifier weigh a batch in different functions*
  (`compute_composites_fast`, `compute_composites`).
- *Applications store sessions and crash.*
- *Redeemers hold tables and outputs* that outlive the key and info they were
  made under; `evaluate_tables` skips checks that a table's constructor made.
- *Everything that is hashed is first concatenated.*  One hash and one tag serve
  infos, weights and challenges; SHA-512 serves outputs and composite seeds.
  Two-byte lengths and labels are all that keeps the uses apart, and the index
  of a pair goes through the same two bytes with nothing to bound it.
- *The C interface hands out addresses.*  Batch calls fill arrays one slot at a
  time, calls of several threads interleave, handles are shared between them,
  and the last error belongs to a thread.
- *serde has more ways in than the tests use*: five visitor methods, text and
  binary.  The tests write and read back JSON text and postcard bytes; nothing
  reaches the sequence visitor or hands any of them a document that was changed.
- *Two loops* end only if a hash or a random number generator yields a scalar
  other than zero; no test can make them iterate.

**What makes each part correct.**

- Group: parsers reject the identity and non-canonical encodings; unblinding
  inverts blinding.
- DLEQ: an accepted proof means every pair of the batch has the ratio of the
  public key; a generated proof is accepted.
- Client and server: an accepted output is `Evaluate(input, info)` under the
  key the client was pinned to; every opened session can be served.
- Protocol: finalizing late, twice, in a batch or after a crash reveals that
  same value and nothing else.
- Redemption: a presented token matches an output exactly if key, input and info
  are those it was issued for.
- Keys: derivation gives the same key on every start; the loops end.
- Framing: the bytes of a transcript determine its purpose and its values.
- C interface: each object has one owner; a failure hands out nothing, a success
  everything; running calls read live objects; an error is reported to the
  thread whose call failed.
- serde: a document is read as `from_bytes` reads the bytes it denotes.

`PROJECT.json` lists every hazard at its source line with the properties that
would catch it.

## 2. Modules

| Module | Models | Kind |
|---|---|---|
| `Group` | `group.rs`, key types of `key.rs` | operators |
| `LengthPrefix` | `util.rs` | operators |
| `Dleq` | `dleq.rs` | operators over a formal random oracle |
| `Poprf` | the client and server functions of `poprf.rs` | operators |
| `Issuance` | client, server, channel and stable storage | state machine |
| `PoprfIdeal` | what issuance promises, with the cryptography taken out | abstract state machine |
| `Redemption` | offline evaluation, tables, comparison of outputs | state machine |
| `KeyDerive` | key derivation and generation, loop by loop | state machine |
| `Framing` | the transcripts that are hashed, as bytes | state machine |
| `FfiContract` | what the C interface promises, without heap or steps inside a call | abstract state machine |
| `Ffi` | the C interface: heap, handles, slots, threads, last errors | state machine |
| `WireCodec` | serde: hex, visitors, the wire form of every type | state machine |
| `MCIssuance`, `MCRedemption`, `MCKeyDerive`, `MCFraming`, `MCFfi`, `MCWireCodec` | values of the constants | model checking |
| `GroupProofs`, `PoprfProofs`, `IssuanceProofs`, `RedemptionProofs`, `KeyDeriveProofs`, `FramingProofs`, `FfiProofs`, `WireCodecProofs` | theorems | proofs |

`Dleq` and `KeyDerive` extend `LengthPrefix`; `Poprf` extends `Dleq`; `Issuance`
and `Redemption` extend `Poprf`.  `WireCodec` extends `Group`.  `Framing` justifies what those take for
granted, that hashes of different calls differ.  `Ffi` leaves out what calls
compute and `Redemption` how they hand it out.

### Group

A group of prime order with a generator is the integers modulo that order: each
element is written as its discrete logarithm.  The identity is 0, the generator
1.  This represents the algebra without loss: every equation that the code can
test holds of the elements exactly when it holds of the logarithms.  `Order` is
a constant with two assumptions: it exceeds 1, and every non-zero residue has an
inverse (which says that it is prime).

A buffer handed to a parser is an integer too: a canonical encoding of that
value, `NonCanonical`, or `Truncated`.  `deserialize_element` and
`deserialize_scalar` reject what the code rejects, with the same error.

### Dleq

The proof system needs two hashes: the weight of each pair and the challenge.
With a hash into seven residues, accidental collisions would make every
soundness property false.  So the two hashes are **formal**: a hash value is the
term `[hash |-> input]`, equal to another exactly if the inputs are.  Expressions
that contain such values are kept in normal form:

- a composite `sum d_i * P_i` is the set of its terms `<<d_i, P_i>>` with
  `P_i` not the identity.  The weights hash the index and both points of a pair,
  so they are pairwise distinct for batches of up to 2^16 pairs;
- a response `s = r - c*t` is `one + chal * of`: two plain scalars and the
  challenge that is multiplied;
- `s*X + c*Y` is its challenge-free part and, for each challenge, the non-zero
  element that the challenge multiplies.

`verify_proof` is then the code's test: recompute `t2`, `t3`, rehash, compare.
It accepts exactly when the normal forms agree, which is when the equation holds
for independent uniform weights and challenges.

`Grounded` says that a challenge does not occur in the commitments of its own
transcript.  A hash value is known only after its input, so every challenge
that anybody computes is grounded; a damaged proof can carry raw scalars or the
challenge of another transcript, and those are grounded as well.

### Poprf

`blind_with_inner`, `compute_t`, `blind_evaluate_with_r_inner`,
`blind_evaluate_batch_with_r_inner`, `evaluate`, `finalize`, `finalize_batch`
and the blind state's wire form, each with the code's checks in the code's
order.  Results are `Ok(v)` or `Err(e)` with the variant of `Error`.  The hashes
of inputs (`HashToGroup`) and infos (`HashToScalar`) are constants: arbitrary
functions, identity and zero included.  SHA-512 of the length-prefixed
transcript of `Finalize` is injective, so an output is the record of what was
hashed.

### Issuance

| Variable | Code |
|---|---|
| `server` | `PoprfServer.sk` |
| `client` | `PoprfClient.pk` |
| `session` | per token: the `PoprfBlindState` and what the caller must keep with it |
| `disk` | the same, written with `to_bytes` |
| `responses` | evaluated elements and proof, as bytes in flight |
| `ret` | outcome of the last call |

| Action | Code |
|---|---|
| `ServerNew`, `ClientNew` | `SecretKey::from_bytes` + `PoprfServer::new`; `PublicKey::from_bytes` + `PoprfClient::new`, at any time |
| `Blind`, `BlindWithScalar` | `blind`, `blind_with_scalar` (`blindBatch` of the wasm crate blinds one by one; where it fails it returns no session, and the model keeps those already opened) |
| `BlindEvaluate`, `BlindEvaluateBatch`, and both `...WithProofScalar` | parse the request, then the entry point of that name |
| `BlindEvaluateLocal` | client and server in one process: elements handed over as objects, not parsed |
| `Finalize`, `FinalizeBatch` | parse the response, then the entry point of that name with the session as objects |
| `FinalizeBatchWasm` | `finalizeBatch`: parse the public key (which is not used after that), compare the lengths of the arrays, parse state, blinded and evaluated element one position after the other, parse the proof, then `finalize_batch` |
| `Persist`, `Crash`, `Restore` | `PoprfBlindState::to_bytes` / `from_bytes` around a crash, which may cut short the record being written |
| `Lose`, `Damage` | the channel |

A response stays in the channel until it is lost, so it is delivered late, many
times, and to any session.  The server answers arbitrary elements for arbitrary
infos: the channel's requests are as unreliable as its responses.

The caller is *consistent* (`ConsistentCaller`) if it finalizes with the info of
one of the sessions it finalizes.  The API does not enforce this.

### PoprfIdeal

A client *claims* the value of a function `F` at (key, input, info), where it is
defined; claims are *revealed*, any set of them together; all claims may be
*forgotten*.  `Issuance!ImplementsIdeal` instantiates `F` with `evaluate` under
the key that was pinned at `Blind`.

### Redemption

The redeemer's side of the C interface (`poprf_secret_key_decode_base64`,
`poprf_input_table_new`, `poprf_evaluate`, `poprf_evaluate_tables`,
`poprf_output_eq_base64`, the destructors) over the functions of `poprf.rs`.

| Variable | Code |
|---|---|
| `server` | the `SecretKey` handle the next call is given |
| `tables` | `PoprfInputTable` handles, each with the input it was built from |
| `outputs` | the caller's array of `PoprfOutput` handles, each with what it was asked for |
| `claim`, `out` | the tokens of clients |

The clients step as `PoprfIdeal` does: a token is the value of `evaluate` under
one of the keys ever loaded.  That is what `Issuance` is shown to implement, so
the two modules compose to the whole life of a token without multiplying their
states.  `of`, and `key`, `input`, `info` of an output are bookkeeping: no
action's effect on other fields depends on them.  A call takes its key and
tables at entry and is one step: `poprf_evaluate_tables` clones the key, and its
contract forbids destroying a table that a call is using.

### KeyDerive

`derive_key_pair` turn by turn, `generate_key_pair` with the loop of
`random_scalar`, and a `Restart` between any two turns.  `hash` is an arbitrary
function of info and counter, chosen once.

### Framing

The modules above treat a hash of several values as a function that no two calls
share.  The code hashes one byte string.  `Framing` builds that string, for each
of the six uses, and remembers the calls that were made.

| Variable | Code |
|---|---|
| `queries` | the hash calls so far: function and tag, message, and (bookkeeping) purpose, values and the arguments of `i2osp_2` |
| `table` | the state of SHA-512 in a `PoprfInputTable` |

| Action | Code |
|---|---|
| `FramedInfo` | `compute_t`, `blind` |
| `FinalizeHash` | `finalize_hash` as `evaluate` and `finalize` reach it |
| `InputTableNew`, `EvaluateTable` | the input is absorbed and its length checked when the table is built, the rest when it is evaluated |
| `DeriveKeyPair` | one turn of the loop of `derive_key_pair` |
| `CompositeSeed`, `CompositeDi`, `Challenge` | `composite_seed`, `composite_di`, the transcript of `verify_proof` and `generate_proof_with_r` |

`HashToGroup` takes the input alone under a tag of its own, so there is nothing
to tell apart.

### Ffi

| Variable | Code |
|---|---|
| `heap` | objects by address |
| `cell` | the caller's pointer variables and array slots: an address, `Null` or `Uninit` |
| `error` | `LAST_ERROR` of each thread |
| `call` | what each thread is doing inside the library |

A function is a record: the handles it reads, the array it reads, whether it
takes a buffer and whether the library may refuse, and what it hands out.  One
set of actions serves all of them.

| Action | Code |
|---|---|
| `Enter` | `clear_error`, then the tests for NULL, for length zero and for a NULL buffer of non-zero length; the first that fails sets the error and returns |
| `LibraryError` | an `Err` of the library, or bytes that do not decode |
| `WriteSlot` | one `Box::into_raw` or `CString::into_raw`, and its address goes to a cell |
| `Return` | 0, or the pointer |
| `LastErrorMessage` | a copy of the thread's last error, or NULL |
| `Destroy` | the destructor of the type that the cell was declared with |

Other threads run between any two of these.  Callers keep the "# Safety"
clauses: they pass cells of the right type, never destroy what a running call
reads and never hand a cell to two calls that fill it; these are the guards of
`Enter`, `LastErrorMessage` and `Destroy`.  NULL is *not* excluded: functions
must look for it.  Callers do not overwrite a handle they own.  On the platforms
that `thread_local!` supports each thread has its own error.

### FfiContract

The promises of the interface's README and comments: a call begins with a clean
slate; a failure is reported to its thread and hands out nothing; a success
fills all the cells it was given *in one step*; a message is a copy.
`Ffi!ImplementsContract` maps a handle in a cell to the object it owns, except
for cells that a running call is still filling.

### WireCodec

One value goes from process to process.  `Serialize` writes it with
`ser_fixed`, in text or binary; `shape` says which visitor method the format
will call (`visit_str`, `visit_bytes`, `visit_borrowed_bytes`, `visit_byte_buf`,
`visit_seq`).  `Damage` changes, drops or appends a character, byte or number,
or lets a text be read as binary and the reverse.  `Deserialize` is `deser_fixed`
followed by `from_bytes`, over the parsers of `Group`.

A wire type is a layout: one or two parts, each a secret key, a scalar, an
element or raw bytes, of `PartLen` bytes each.  `to_bytes` writes the parts one
after the other, `from_bytes` cuts them apart, parses them in order and reports
the first error.  What bytes the group library encodes a scalar or an element in
is a constant of the model (`EncodeScalar`, `EncodeElement`), of which nothing is
assumed but that no two values share an encoding; the theorems hold of each such
choice.  Bytes that encode nothing are `NonCanonical` to the parsers of `Group`.
For model checking, bytes, digits and the length of a scalar are scaled down.

## 3. Properties

| Property | Says |
|---|---|
| `TypeOK` | Types; with them, keys are never zero or the identity, tweaked keys never the identity |
| `AcceptedOutputIsEvaluate` | Every output the client accepted is `evaluate` of the session's own input and info under the key the client had when it blinded |
| `SessionIsServable` | The server with the pinned key evaluates every session that `Blind` opened: offline always, its blinded element exactly if its blind is not zero |
| `HonestResponseAccepted` | Sessions of one key and info, blinded by non-zero scalars, evaluated in one batch in any order or with repetition: the response is accepted after a round trip through bytes, by the library and by `finalizeBatch`, which reads the sessions back as well |
| `ImplementsIdeal` | Refinement of `PoprfIdeal` |
| `TablesAgreeWithEvaluate` | A table, whenever built, gives under every key and info what `evaluate` gives of its input, errors included |
| `RedeemedIffIssued` | A presented token equals an output of the redeemer exactly if key, input and info are the same, however old either is |
| `DerivesFirstAdmissible` | The key of the first counter that gives a non-zero scalar, on every start; the error only if there is none |
| `EveryCallReturns` | Liveness: a derivation or generation that runs comes to an end |
| `DerivationDescends` | Its part that needs no fairness: every step taken while a derivation runs leaves fewer turns to take |
| `TranscriptsBind` | Under one hash and tag, equal bytes mean the same purpose and values, and the same values equal bytes by every route; the index of a pair counts modulo 2^16, and batches may be longer than that |
| `OwnedOnce` | Every object that was handed out is in exactly one cell, declared with its type |
| `ReadsAreLive` | What a running call reads is live and of the type it expects: functions look for NULL everywhere before they work.  That nobody destroys it meanwhile is the rule for callers (`Destroy`) |
| `ImplementsContract` | Refinement of `FfiContract` |
| `RelayedUnchanged` | A value that is passed on, any number of times and in any mixture of formats, arrives as it was |
| `ReadsAsFromBytes` | Any document is read as `from_bytes` reads the bytes it denotes, and refused if it denotes none |
| `AcceptedIsCanonical` | A document from which a value is read denotes the very bytes that `to_bytes` gives of that value: two accepted documents that differ in more than the case of their digits hold different values |
| `NoSilentGarbage`, `DivergentBatchDesyncs`, `I2ospInRange`, `SlicesInitialised` | What docs and comments of the repository say, and the code does not do (section 6) |

They cross both parties and several steps: violating
`AcceptedOutputIsEvaluate` takes a blind, an evaluation of something else
(another key, info, element or order) and a finalize.

Each property of a passing run has a *mutant* in `PROJECT.json`: a variant of a
modelled definition with a plausible bug, under which TLC finds the property
violated.

| Property | Mutant |
|---|---|
| `TypeOK` | `SecretKey::from_bytes` accepts zero |
| `AcceptedOutputIsEvaluate` | `finalize` does not verify; `finalize_batch` lacks the `InconsistentState` check |
| `SessionIsServable` | `blind` accepts an input that hashes to the identity |
| `HonestResponseAccepted` | the verifier's weights take the points in the other order |
| `ImplementsIdeal` | `unblind_and_hash` multiplies by the blind instead of its inverse |
| `TablesAgreeWithEvaluate` | `PoprfInputTable::new` accepts an input that hashes to the identity |
| `RedeemedIffIssued` | `evaluate` accepts such an input: its output is the same under every key |
| `DerivesFirstAdmissible` | the range of counters excludes the last |
| `EveryCallReturns`, `DerivationDescends` | the counter is a byte that wraps |
| `TranscriptsBind` | the length cap lets through two lengths more |
| `OwnedOnce` | every output goes to the first slot |
| `ImplementsContract` | the last error is one for the process; the library fails between two slots |
| `ReadsAreLive` | the pointers in an array are not tested |
| `RelayedUnchanged` | hex is written low digit first |
| `ReadsAsFromBytes` | `visit_seq` does not notice elements after the last byte |
| `AcceptedIsCanonical` | bytes that encode nothing are taken for some value |

## 4. Runs and bounds

| Run | Instance | Distinct states |
|---|---|---|
| `issuance_single` | one token; every early return; two valid keys and three bad ones | 144,376 |
| `issuance_batch` | two tokens, inputs, infos; batches of up to 2, as objects and as text | 61,664 |
| `issuance_durable` | one token; crash, torn write, restore; two responses, two keys | 18,336 |
| `redemption` | two tables, two outputs, one token; four inputs, three infos, two valid keys and three bad ones | 80,899 |
| `key_derive` | three counters, two infos, every hash function | 8,343 |
| `framing` | bytes of two values; all strings up to the cap and three beyond it; every pair of hash calls; one pair more than two bytes number | 172,232 |
| `ffi` | two threads, five addresses; a key, a blinded element, two slots and a proof, a table, an output, a string | 57,876 |
| `wire_codec` | every value of the seven types, and every single change to its documents | 131,257 |
| `issuance_info_mismatch` | inconsistent caller | violation |
| `issuance_divergent_batch` | sessions of two infos in one batch | violation |
| `framing_long_batch` | one pair more than two bytes number | violation |
| `ffi_uninit_slots` | as `ffi` | violation |

- `Order = 7`: the smallest prime with room for two keys, two blinds and their
  inverses, a generator and hashes that are all different, and with an info
  (`clash`, which hashes to 5) that makes `t` zero for key 2 but not for key 3.
- Keys 2 and 3, plus zero, non-canonical and truncated encodings.
- Inputs: an ordinary one, one that hashes to the identity, one longer than
  `MAX_LP_LEN`, one exactly that long.  Infos likewise.
- `Blinds = {2}` or `{2, 3}`; `BlindBytes` and `NonceBytes` hold zero and a
  non-canonical encoding; zero is what the entry points that take a scalar
  allow and the sampling ones exclude.
- `DamagedBytes = {0, 7}`: any element or scalar of a response reads as zero, or
  does not parse.  `Damages` selects changed fields, dropped or reversed lists,
  a cut proof, and a proof taken from another response.
- `MaxBatch = 2`: reordering, repetition and disagreement all show with two.
  The theorems hold for every length.
- `MaxResponses = 1` or `2`: an old and a new response, or those of two
  requests, may be in flight together.  A bound on the channel limits
  how many coexist, never how many are made over a behaviour.
- A response is damaged once (`intact`).
- In `redemption` one token suffices: the property speaks of one token and one
  output, and tokens do not influence each other.  Two tables and two places
  show order and repetition.
- `key_derive`: `LastCounter = 2` for the code's 255: a first, a middle and a
  last counter; `Order = 3`, so that a hash can be zero or one of two others.
  All 729 hash functions are tried.

- `framing`: `Base = 2` for the code's 256, so that a two-byte prefix tells
  lengths up to 3 apart and the cap is 2.  `ELEMENT_LEN = 1`, `HASH_LEN = 2`: as
  in the code they differ, and both differ from how `INFO` begins.  The labels
  are bytes of those two values, chosen to be as alike as the assumptions allow.
  `MaxQueries = 2` suffices for a property of pairs of calls.  `MaxPairs = 5` is
  one more than two bytes number at this base: the last index wraps to the first.
- `ffi`: the cells that callers have decide which functions they can call: all
  but those of public keys, which differ from those of secret keys in a type
  only.  `MaxBatch = 2` has empty arrays, one element and two, hence calls of up
  to three outputs, and another thread, between any two of them.
  `poprf_evaluate_tables` has one output here; beyond that it takes the steps of
  `poprf_blind_evaluate_batch`.  Five addresses are what the longest call and its
  arguments need; they are fewer than the cells, so memory can run out while two
  threads are inside calls.
- `wire_codec`: `HexBase = 2`, `Ten = 1` (a digit and a letter), `PartLen = 2`,
  `Order = 11`: a part has 16 values, of which some are non-canonical and one is
  the identity or zero; scalars are encoded little-endian, elements scrambled.  `MaxDamage = 1`; each document is read whole, so one
  change meets every test of the readers.

The two `ffi` runs declare threads and handles symmetric: nothing tells them
apart and no property names one.  The others declare none: tokens are few, and
inputs and infos are told apart by their hashes.

**Deadlock** is checked in every run but those of `Ffi` and `WireCodec`: some call
is always possible.  In `Ffi` memory may run out inside the calls of both
threads: the allocator then aborts the process, and the behaviour ends.  In
`WireCodec` a receiver that refused a document has nothing to pass on.

**Fairness.** `Issuance`, `Redemption`, `Framing`, `Ffi` and `WireCodec` assume
none: their properties are safety.  The library makes no progress of its own there; it runs when called,
and whether a client ever finalizes is the application's affair.  `KeyDerive`
assumes weak fairness of `TryCounter` (a thread inside the loop keeps running:
the loop waits for nothing) and strong fairness of a sample other than zero (the
generator, asked again and again, yields one; `random_scalar` cannot end
otherwise).  Restarts are not fair and not bounded.

## 5. Proofs

Proved for every `Order`, hash function, set of keys, number of sessions, tables
and counters, batch length and channel size:

- **`GroupProofs`.** Modular arithmetic from `DivMod` up: closure,
  commutativity, associativity, cancellation, no zero divisors.
  `UnblindIsEvaluate`: unblinding an evaluated element gives the element that
  `Evaluate` computes, for a non-zero blind.  `BlindingHides`: for each input
  element and each blinded element other than the identity exactly one blind
  relates the two, so a uniformly chosen blind makes the blinded element
  independent of the input.
- **`PoprfProofs`.** `VerifySound`: a proof with a grounded challenge that is
  accepted for a key other than the identity means that each pair has that key
  as its ratio.  `GenerateVerifies`: generated proofs are accepted.  On these two
  rest the theorems that put the calls of one issuance together.
  `IssuanceCorrect`: what `Blind` opened with a non-zero blind is evaluated by the
  server with the pinned key, accepted, and gives the output of `Evaluate`.
  `MismatchRejected`: an element evaluated under another key or info than the
  client's tweaked key is rejected with `Verify`, whatever proof with a grounded
  challenge comes with it; if it were accepted, both tweaked keys would take the
  same element, not the identity, to the same blinded element.
  `BadElementRejected`: one such element spoils a batch of any length, wherever it
  stands.  `BatchOfOne`: the batch entry points, which are written apart, do on one
  element what the single ones do.
- **`IssuanceProofs`.** `InductiveInvariant`, `TypeCorrect`, `OpenedIsServable`,
  `AcceptedIsEvaluate`, `HonestAccepted` and `ImplementsPoprf`: `Spec => []IInv`,
  the invariants `TypeOK`, `SessionIsServable`, `AcceptedOutputIsEvaluate` and
  `HonestResponseAccepted`, and the refinement `ImplementsIdeal` (below).
  `HonestResponseAccepted` follows from `Provenance`: the elements of
  an honest batch are not the identity, so they survive parsing, and
  `GenerateVerifies` does the rest.  `TextIsBytes` and `BytesAreText` carry both it
  and `AcceptedIsEvaluate` over to `finalizeBatch`: what it accepts, it finalizes
  as the library would, and it refuses nothing of a session that was opened with a
  non-zero blind.  `OpenedIsServable` is an equivalence: the product of the blind
  and the hashed input, which is not the identity, is the identity exactly for a
  zero blind.
- **`RedemptionProofs`.** `TypeCorrect`, `TablesAgree` and `RedeemExactly`: the
  invariants `TypeOK`, `TablesAgreeWithEvaluate` and `RedeemedIffIssued`.  Their core is
  `OutputsBind`: equal outputs come of the same input, info *and key*.  Input and
  info are hashed; the key is told apart because the input does not hash to the
  identity, by cancellation in the group and injectivity of the inverse and of
  the tweak.  The inductive invariant says that tables were built from their
  inputs and that outputs and tokens are what `evaluate` returns.
- **`KeyDeriveProofs`.** `DerivesFirst`, from the invariant that every counter
  before the one being tried gave zero; `DerivationEnds`, the action property
  `DerivationDescends`, from the bound on the counter.
- **`FramingProofs`.** `TranscriptsDetermine`, for every base, length, label and
  size of batch.  The core is that two strings that begin with the
  length prefix of their first field and agree, agree in that field and in what
  follows, provided both lengths are below 2^16; each transcript is peeled that
  way.  The one argument of `i2osp_2` that nothing bounds, the index of a pair, is
  told modulo 2^16 (`I2ospTells`), and the points that follow it are told all the
  same.  Different uses of one hash are told apart by their first two bytes, or,
  for SHA-512, by their length once the common fields are peeled.  The inductive
  invariant says that every recorded call has the transcript of its purpose, and
  that a table holds the framing of its input.
- **`FfiProofs`.** `ObjectsOwnedOnce`, `ArgumentsStayLive` and `KeepsContract`,
  for any number of threads, cells and handles and arrays of any length.
  `OwnedOnce` alone is not inductive: a call could be about to fill a cell that
  already holds a handle, or that another call fills as well.  `IInv` adds that
  a running call has filled exactly the slots before its next, with objects of
  their types, and none after it (`Progress`); that no call reads or fills what
  another one fills (`Exclusive`); that what it reads is live; and that it has
  reported no error.  `KeepsContract` maps initial states to initial states and
  each action to an action of `FfiContract` or to a stutter: `Enter` to `Begin`
  or `Fail`, `LibraryError` to `Fail`, `WriteSlot` to a stutter (its cell still
  belongs to the call), `Return` to `Succeed`.
- **`WireCodecProofs`.** `RelayKeeps`, `TypeCorrect`, `ReadsFaithfully` and
  `CanonicalDocuments`, the four invariants of `WireCodec`, for any digit base,
  length, order and encoding, and any number of changes to documents.  The
  argument goes up in layers, each of two lemmas, one per direction: a digit is
  read as what it spells, in either case, and nothing else is read
  (`NibbleReads`, `NibbleRead`); hex text is decoded to the bytes that it spells,
  by division with remainder; a document is read exactly when it denotes bytes
  (`ReadsDenoted`, `DenotesRead`); a part that was written is parsed, and what is
  parsed is written back (`PartWritten`, `PartRead`); the parts of a value meet
  neither gap nor overlap (`Positions`).  `FromToBytes` and the theorem
  `CanonicalEncoding` put them together: `from_bytes` is the inverse of `to_bytes`
  on values, and what it accepts has no second encoding.  Hex and layouts are
  defined position by position, so none of this takes induction over data.  The
  invariant adds to the properties that a document nobody tampered with is the
  one that the first value is written to (`Untouched`).

**The inductive invariant of Issuance.** `AcceptedOutputIsEvaluate` is not
inductive: a state whose session has a tweaked key unrelated to its info, or a blinded
element unrelated to its input, satisfies it until the next `Finalize`.  `IInv`
is `TypeOK` and `Provenance`, which says that

- the client's key is one of `KeyBytes`;
- every session and every stored session is `Opened`: its lengths passed, its
  input does not hash to the identity, its tweaked key is that of its pinned key
  and info, its blinded element is its blind times its hashed input;
- every response is `WellFormed`, in particular its challenge is grounded.

`StepInv` has one lemma per action.  `AcceptedIsEvaluate` then shows, again by
action (`StepOutput`), that an output is stored only by `Finalize`,
`FinalizeBatch` and `FinalizeBatchWasm`, where soundness of the proof gives the evaluated element, and
`UnblindIsEvaluate` the output.  In the batch case, equality of all tweaked keys
and the absence of collisions (below) say that all sessions have the info that
the caller gave.  That is the step the `InconsistentState` check is needed for.

**The refinement of PoprfIdeal.** A session claims the value at its key, input
and info (`Claims`), and has revealed it once it has an output (`Revealed`).
`ImplementsPoprf` takes each action to one of `PoprfIdeal`: opening or restoring a
session to `MakeClaim`, `Finalize` and both batch forms to `Reveal`, `Crash` to
`Forget`; what the server and the channel do, and calls that fail, to a stutter.
`OpenedClaims` says that a claim is made only where `evaluate` is defined: the
client refuses at `Blind` what the server would refuse.  `OutputIsValue`
says that what is revealed is the value of `evaluate` there, which is
`AcceptedIsEvaluate` of one session.  A restored session has no output and makes
its claim again.

**Assumptions.**

| Assumption | Why |
|---|---|
| `OrderAssumption`, `InverseAssumption` | the group has prime order |
| `HashAssumption` | hashes are functions into the group and the scalars |
| `CollisionAssumption` | tweaked keys of different admissible infos differ, for the keys in use; in the code infos hash to 252-bit scalars |
| `IssuanceAssumption` | the sets of the environment are made of encodings |
| `RedemptionAssumption`, `KeyDeriveAssumption` | likewise; the counter fits a byte |
| `BaseAssumption`, `FramingAssumption` | strings are bytes; elements, digests and tags have lengths that a prefix can hold |
| `DomainAssumption` | `"In"`, 0x0020 and 0x0040, with which the uses of `HashToScalar` begin, differ: so they do in the code |
| `FfiAssumption`, `IdleAssumption` | model values differ from addresses, objects and calls |
| `DigitAssumption` | the codes of digits, upper and lower case letters are apart, as in ASCII |
| `EncodingAssumption` | an encoding belongs to one scalar or element |
| `DamageAssumption` | the bound on changes is a number |
| `NoneAssumption` | no session and no claim is the value that stands for none |
| `ConsistentCaller` (`AcceptedIsEvaluate` and `ImplementsPoprf` only) | the API cannot check it: section 6 |

TLC evaluates the ASSUMEs on every run.

**Only model-checked.** `EveryCallReturns` (liveness under fairness is out of the
proof system's reach; `DerivationEnds` is its part for `derive_key_pair` that is
not), and the four violations.  Every invariant, action property and refinement
that a passing run checks is a theorem.

## 6. Where code and docs differ

- **`issuance_info_mismatch`.** `P/lib.rs:77-80` says that a mismatch of `info`
  yields `Error::Verify` because the *reconstructed* tweaked key does not match.
  `finalize` reconstructs no tweaked key; it uses the one stored by `blind`, and
  takes `info` again only to hash it.  Called with another info than the one
  blinded and evaluated for, it returns an output that is `Evaluate` of nothing.
  The mismatch the doc has first in mind, client against server, is detected:
  that is part of `AcceptedOutputIsEvaluate`.
- **`issuance_divergent_batch`.** The comment at `P/poprf.rs:389-392` and
  `poprf-ristretto/tests/negative.rs:519-521` say that in a batch with divergent
  tweaked keys the outputs of the divergent entries would not match
  `Evaluate(input_i, info)`.  They would: unblinding uses the blind alone.  What
  the check prevents is an output under an info other than the session's own,
  as the mutant of `finalize_batch` shows.

- **`framing_long_batch`.** `P/util.rs:42` requires of callers of `i2osp_2` that
  `x <= u16::MAX` and says that every public entry point checks.  The index of a
  pair (`P/dleq.rs:296`) goes through it and nothing bounds a batch: with 65537
  pairs a debug build stops at the assertion and a release build wraps.  The
  weight still hashes both points of the pair, so wrapped indices give equal
  weights only to equal pairs.
- **`ffi_uninit_slots`.** `poprf_evaluate_tables` explains (lines 715-716) that a
  C caller's array is normally uninitialised and that `from_raw_parts_mut`
  forbids it for plain pointers; `poprf_blind_evaluate_batch` does just that at
  line 520, and its contract asks for writable slots only.

Three more are seen in the model without a run of their own:

- `P/serde_util.rs:37` says that lowercase hex is expected, and `nibble_from_hex`
  takes uppercase digits as well.  They are read as what they spell
  (`ReadsAsFromBytes`).
- `P/lib.rs:81-83` says that every hash invocation is namespaced with a DST.  The
  hash of `Finalize` (`P/poprf.rs:698-706`) and the seed of the composites
  (`P/dleq.rs:273-283`) are plain SHA-512, as RFC 9497 has it; the seed has a label
  inside its transcript, `Finalize` only the word at its end.  `TranscriptsBind`
  shows that no transcript of one is a transcript of the other.
- `finalizeBatch` of the wasm crate asks for the server's public key and parses it,
  but `finalize_batch` verifies under the tweaked key of the states: which key was
  given makes no difference as long as it parses (`FinalizeText`).

## 7. Not modelled

- *Base64* of the C and JavaScript interfaces, and the text of the tags: a
  library's codec around the wire forms that `WireCodec` models.
- *Zeroization, constant-time comparison, precomputed multiplication tables:* no
  observable state.
- *Probabilities:* the theorems are about the algebra.  Hash collisions of
  negligible probability are excluded by assumption or by the formal oracle;
  `BlindingHides` is the counting fact behind unlinkability, not a game.
- *Malicious provers.* The channel damages and recombines proofs; a party that
  searches for forgeries is outside the model.
- *Callers that break a "# Safety" clause:* the behaviour of the program is then
  undefined, and no property of this code is left to state.
- *JavaScript conversions:* generated glue of `wasm-bindgen`, and the strings and
  arrays it may fail to convert.  What `finalizeBatch` itself does, parse in order
  and stop at the first failure, is `FinalizeBatchWasm` of `Issuance`.
- *Records that mix old and new bytes.* A torn record is one cut short.  A record
  of full length made of the bytes of two sessions may parse, since the wire form
  of a blind state has no checksum; keeping records whole is up to the application.
- *The two builds of the composites.* With or without the feature `fast-dleq` a
  composite is the set of its terms, so a difference between the loop and
  `group::msm` would not show.
- *The error path of `cstring_or_null`* (`ffi lib.rs:93-102`): it refuses a text
  with a NUL in it, and base64 has none.
- *What follows running out of memory:* the allocator aborts the process.
- *Crate root, tests, benchmarks:* no code of their own to model.

## 8. Plan

Done, in this order: `Group`, `LengthPrefix`, `Dleq`, `Poprf`, `Issuance` with its
runs, `PoprfIdeal`, `Redemption`, `KeyDerive` and their proofs; `Framing`, `Ffi`
with `FfiContract`, `WireCodec`; `FramingProofs`, `FfiProofs`, `HonestAccepted`
and the type invariant of `Redemption`; the refinement of `PoprfIdeal`, the
theorems about the calls of one issuance, `WireCodecProofs` and `DerivationEnds`.

Next: the batch form of `IssuanceCorrect`, for any length; what two accepted
documents of one value have in common, as a corollary of `CanonicalDocuments`; and
the promises of `FfiContract` itself (an error is reported to the thread of the failed call and to no other) as
invariants of the abstract machine, carried over by `KeepsContract`.
