---- MODULE Framing ----
(***************************************************************************)
(* The transcripts that are hashed: util.rs, dleq.rs, key.rs and poprf.rs  *)
(* of poprf-ristretto/src.                                                 *)
(*                                                                         *)
(* Every other module takes a hash of several values to be a function of   *)
(* those values that no two different calls share.  The code hashes one    *)
(* byte string, the concatenation of the values with two-byte lengths      *)
(* before some of them and a label before or after; and one function with  *)
(* one domain separation tag serves infos, weights and challenges alike.   *)
(* This module records what was hashed, for which purpose, and asks        *)
(* whether the byte string determines both.                                *)
(***************************************************************************)
EXTENDS LengthPrefix, FiniteSets

CONSTANTS
  Strings,        \* the inputs and infos that callers pass
  Elements,       \* serialized elements
  Digests,        \* SHA-512 values
  KeySeeds,       \* the seeds of derive_key_pair
  Counters,       \* the counters of derive_key_pair
  ELEMENT_LEN, HASH_LEN, SEED_LEN,               \* 32, 64 and 32 in the code
  INFO, FINALIZE, CHALLENGE, COMPOSITE, SEED_DST,  \* labels, as bytes
  None,           \* absence of a table
  MaxPairs,       \* bound: the pairs of a batch, which the code does not bound
  MaxQueries      \* bound: hash calls that are remembered

Byte == 0..(Base - 1)
Indices == 0..(MaxPairs - 1)

ASSUME FramingAssumption ==
  /\ Strings \subseteq Seq(Byte)
  /\ ELEMENT_LEN \in 0..(U16 - 1)
  /\ HASH_LEN \in 0..(U16 - 1)
  /\ SEED_LEN \in Nat
  /\ Elements \subseteq [1..ELEMENT_LEN -> Byte]
  /\ Digests \subseteq [1..HASH_LEN -> Byte]
  /\ KeySeeds \subseteq [1..SEED_LEN -> Byte]
  /\ Counters \subseteq Byte
  /\ {INFO, FINALIZE, CHALLENGE, COMPOSITE, SEED_DST} \subseteq Seq(Byte)
  /\ Len(SEED_DST) < U16
  /\ None \notin [prefix : Seq(Byte), of : Strings]
  /\ MaxPairs \in Nat

(* What tells the uses of HashToScalar apart is how their transcripts      *)
(* begin: "In", 0x0020 and 0x0040.                                         *)
ASSUME DomainAssumption ==
  /\ ELEMENT_LEN # HASH_LEN
  /\ Len(INFO) >= 2
  /\ \A n \in {ELEMENT_LEN, HASH_LEN} : <<INFO[1], INFO[2]>> # i2osp_2(n)

VARIABLES
  queries,     \* the hash calls made so far
  table        \* a PoprfInputTable: the hasher's state and the input it absorbed

vars == <<queries, table>>

(***************************************************************************)
(* Transcripts.                                                            *)
(***************************************************************************)
framed_info(info) == INFO \o lp(info)

\* SHA-512 after it has absorbed the length-prefixed input.
lp_hasher(input) == lp(input)

finalize_from(prefix, info, unblinded) ==
  prefix \o (lp(info) \o (lp(unblinded) \o FINALIZE))

derive_input(seed, info, counter) == seed \o (lp(info) \o <<counter>>)

composite_seed(b) == lp(b) \o lp(SEED_DST)

\* seed_len and elem_len are the prefixes of lp.
composite_di(seed, i, ci, di) ==
  lp(seed) \o (i2osp_2(i) \o (lp(ci) \o (lp(di) \o COMPOSITE)))

challenge(bm, a0, a1, a2, a3) ==
  lp(bm) \o (lp(a0) \o (lp(a1) \o (lp(a2) \o (lp(a3) \o CHALLENGE))))

(***************************************************************************)
(* Hash calls.  fn is the hash with its domain separation tag, msg what it *)
(* is applied to, of the purpose and the values, prefixed the arguments    *)
(* that i2osp_2 was given.                                                 *)
(***************************************************************************)
Query(fn, msg, use, args, prefixed) ==
  [fn |-> fn, msg |-> msg, of |-> [use |-> use, args |-> args], prefixed |-> prefixed]

InfoQuery(info) ==
  Query("HashToScalar", framed_info(info), "info", <<info>>, {Len(info)})

FinalizeQuery(prefix, input, info, unblinded) ==
  Query("SHA512", finalize_from(prefix, info, unblinded), "finalize",
        <<input, info, unblinded>>, {Len(input), Len(info), Len(unblinded)})

DeriveQuery(seed, info, counter) ==
  Query("DeriveKeyPair", derive_input(seed, info, counter), "derive",
        <<seed, info, counter>>, {Len(info)})

SeedQuery(b) ==
  Query("SHA512", composite_seed(b), "seed", <<b>>, {Len(b), Len(SEED_DST)})

WeightQuery(seed, i, ci, di) ==
  Query("HashToScalar", composite_di(seed, i, ci, di), "weight", <<seed, i, ci, di>>,
        {Len(seed), ELEMENT_LEN, i})

ChallengeQuery(bm, a0, a1, a2, a3) ==
  Query("HashToScalar", challenge(bm, a0, a1, a2, a3), "challenge",
        <<bm, a0, a1, a2, a3>>, {ELEMENT_LEN})

\* Bound: MaxQueries calls are remembered; those may be repeated.
Ask(q) ==
  /\ q \in queries \/ Cardinality(queries) < MaxQueries
  /\ queries' = queries \cup {q}

\* compute_t of the server and blind of the client.
FramedInfo(info) ==
  /\ LpLenOk(Len(info))
  /\ Ask(InfoQuery(info))
  /\ UNCHANGED table

\* evaluate, finalize and finalize_batch, which check both lengths.
FinalizeHash(input, info, unblinded) ==
  /\ LpLenOk(Len(input)) /\ LpLenOk(Len(info))
  /\ Ask(FinalizeQuery(lp_hasher(input), input, info, unblinded))
  /\ UNCHANGED table

InputTableNew(input) ==
  /\ LpLenOk(Len(input))
  /\ table' = [prefix |-> lp_hasher(input), of |-> input]
  /\ UNCHANGED queries

\* evaluate_tables: the length of info is checked now, that of the input was then.
EvaluateTable(info, unblinded) ==
  /\ table # None
  /\ LpLenOk(Len(info))
  /\ Ask(FinalizeQuery(table.prefix, table.of, info, unblinded))
  /\ UNCHANGED table

DeriveKeyPair(seed, info, counter) ==
  /\ LpLenOk(Len(info))
  /\ Ask(DeriveQuery(seed, info, counter))
  /\ UNCHANGED table

CompositeSeed(b) ==
  /\ Ask(SeedQuery(b))
  /\ UNCHANGED table

\* The pair at index i of a batch.
CompositeDi(seed, i, ci, di) ==
  /\ Ask(WeightQuery(seed, i, ci, di))
  /\ UNCHANGED table

Challenge(bm, a0, a1, a2, a3) ==
  /\ Ask(ChallengeQuery(bm, a0, a1, a2, a3))
  /\ UNCHANGED table

(***************************************************************************)
(* Specification.                                                          *)
(***************************************************************************)
Init ==
  /\ queries = {}
  /\ table = None

Next ==
  \/ \E info \in Strings : FramedInfo(info)
  \/ \E input, info \in Strings, n \in Elements : FinalizeHash(input, info, n)
  \/ \E input \in Strings : InputTableNew(input)
  \/ \E info \in Strings, n \in Elements : EvaluateTable(info, n)
  \/ \E seed \in KeySeeds, info \in Strings, c \in Counters : DeriveKeyPair(seed, info, c)
  \/ \E b \in Elements : CompositeSeed(b)
  \/ \E seed \in Digests, i \in Indices, ci, di \in Elements :
       CompositeDi(seed, i, ci, di)
  \/ \E bm, a0, a1, a2, a3 \in Elements : Challenge(bm, a0, a1, a2, a3)

Spec == Init /\ [][Next]_vars

(***************************************************************************)
(* Properties.                                                             *)
(***************************************************************************)
\* What two bytes can tell of a use: the index of a pair, which nothing bounds,
\* counts modulo 2^16 (dleq.rs:296).
Told(of) ==
  IF of.use = "weight" THEN [of EXCEPT !.args[2] = @ % U16] ELSE of

(* Under one hash and tag, equal bytes mean the same purpose and the same  *)
(* values, and the same values mean equal bytes, whether they were         *)
(* absorbed at once or through a PoprfInputTable.  In batches of more than *)
(* 2^16 pairs, where the index wraps, two weights still hash the same      *)
(* bytes only for the same seed and the same two points.                   *)
TranscriptsBind ==
  \A q, r \in queries : q.fn = r.fn => (q.msg = r.msg <=> Told(q.of) = Told(r.of))

(* util.rs:42: callers of i2osp_2 ensure x <= u16::MAX; the helper asserts *)
(* it in debug builds.                                                     *)
I2ospInRange == \A q \in queries : \A x \in q.prefixed : x < U16

(***************************************************************************)
(* The inductive invariant behind TranscriptsBind: every call has the      *)
(* transcript of its purpose and values.                                   *)
(***************************************************************************)
Checked == {s \in Strings : LpLenOk(Len(s))}

InfoQueries == {InfoQuery(i) : i \in Checked}

FinalizeQueries ==
  {FinalizeQuery(lp_hasher(x), x, i, n) : x \in Checked, i \in Checked, n \in Elements}

DeriveQueries == {DeriveQuery(s, i, c) : s \in KeySeeds, i \in Checked, c \in Counters}

SeedQueries == {SeedQuery(b) : b \in Elements}

WeightQueries ==
  {WeightQuery(s, i, c, d) : s \in Digests, i \in Indices, c \in Elements, d \in Elements}

ChallengeQueries ==
  {ChallengeQuery(b, m, z, t, u) :
     b \in Elements, m \in Elements, z \in Elements, t \in Elements, u \in Elements}

AllQueries == InfoQueries \cup FinalizeQueries \cup DeriveQueries
                \cup SeedQueries \cup WeightQueries \cup ChallengeQueries

IInv ==
  /\ queries \subseteq AllQueries
  /\ table # None => table.of \in Checked /\ table.prefix = lp_hasher(table.of)
====
