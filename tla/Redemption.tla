----------------------------- MODULE Redemption -----------------------------
(***************************************************************************)
(* Offline redemption: a redeemer recomputes outputs with evaluate and     *)
(* evaluate_tables (poprf-ristretto/src/poprf.rs), through the C interface *)
(* (poprf-ristretto-ffi/src/lib.rs), and compares them with what clients   *)
(* present.                                                                *)
(*                                                                         *)
(* The redeemer holds a secret key that may be replaced at any time,       *)
(* tables of pre-hashed inputs that outlive keys and infos, and an array   *)
(* of outputs that outlive all three.  Clients hold outputs issued to them *)
(* under any of the keys; issuing is module PoprfIdeal, which Issuance     *)
(* implements.                                                             *)
(***************************************************************************)
EXTENDS Poprf

CONSTANTS
  Tokens,      \* names of the outputs that clients hold
  Slots,       \* names of the tables that the redeemer holds
  None,        \* absence of a table, an output or a claim
  KeyBytes,    \* the key encodings that are ever loaded
  MaxBatch     \* bound: length of the redeemer's array of outputs

ASSUME RedemptionAssumption ==
  /\ KeyBytes \subseteq Bytes
  /\ MaxBatch \in Nat

VARIABLES
  server,      \* PoprfServer.sk
  tables,      \* for each slot a table and the input it was built from
  outputs,     \* the array handed to evaluate_tables: outputs and their origin
  claim, out,  \* the clients' tokens, as in PoprfIdeal
  ret          \* the outcome of the last call: "Ok" or the error

vars == <<server, tables, outputs, claim, out, ret>>

Places == 1..MaxBatch

(***************************************************************************)
(* Tables.                                                                 *)
(***************************************************************************)
\* SHA-512 after it has absorbed the length-prefixed input.
lp_hasher(input) == [absorbed |-> input]

finalize_from(prefix, info, unblinded) == finalize_hash(prefix.absorbed, info, unblinded)

\* fixed_base prepares multiples of the point: scalar_mul_fixed is scalar_mul.
Table(input) == [prefix |-> lp_hasher(input), base |-> HashToGroup[input]]

\* Mutant: an input that hashes to the identity is not rejected.
PoprfInputTable_new_unchecked(input) ==
  IF ~check_lp_len(input) THEN Err("InputTooLong") ELSE Ok(Table(input))

PoprfInputTable_new(input) ==
  IF ~check_lp_len(input) THEN Err("InputTooLong")
  ELSE IF is_identity(HashToGroup[input]) THEN Err("InvalidInput")
  ELSE Ok(Table(input))

evaluate_tables(sk, tbs, info) ==
  LET t == compute_t(sk, info)
  IN  IF tbs = << >> THEN Err("LengthMismatch")
      ELSE IF ~t.ok THEN t
      ELSE Ok([i \in DOMAIN tbs |->
                 finalize_from(tbs[i].prefix, info,
                               scalar_mul(scalar_invert(t.val), tbs[i].base))])

(***************************************************************************)
(* Comparison of an output with the bytes that a client presents.          *)
(***************************************************************************)
output_to_bytes(o) == [whole |-> TRUE, digest |-> o]

output_from_bytes(buf) == IF buf.whole THEN Ok(buf.digest) ELSE Err("Deserialize")

output_eq_base64(o, buf) ==
  LET other == output_from_bytes(buf)
  IN  IF ~other.ok THEN -1 ELSE IF o = other.val THEN 1 ELSE 0

(***************************************************************************)
(* The clients: whatever their sessions were, they hold the value at their *)
(* claim, for one of the keys that are ever loaded.                        *)
(***************************************************************************)
Keys == {k \in KeyBytes : secret_key_from_bytes(k).ok}
F(k, input, info) == evaluate(k, input, info).val
Defined(k, input, info) == evaluate(k, input, info).ok

Ideal == INSTANCE PoprfIdeal

Issue == Ideal!Next /\ UNCHANGED <<server, tables, outputs, ret>>

(***************************************************************************)
(* The redeemer.                                                           *)
(***************************************************************************)
ServerNew(bytes) ==
  LET sk == secret_key_from_bytes(bytes)
  IN  /\ server' = IF sk.ok THEN sk.val ELSE server
      /\ ret' = Outcome(sk)
      /\ UNCHANGED <<tables, outputs, claim, out>>

InputTableNew(s, input) ==
  LET table == PoprfInputTable_new(input)
  IN  /\ tables[s] = None
      /\ tables' = IF table.ok
                   THEN [tables EXCEPT ![s] = [table |-> table.val, of |-> input]]
                   ELSE tables
      /\ ret' = Outcome(table)
      /\ UNCHANGED <<server, outputs, claim, out>>

InputTableDestroy(s) ==
  /\ tables' = [tables EXCEPT ![s] = None]
  /\ UNCHANGED <<server, outputs, claim, out, ret>>

\* An output at place h, with what it was asked for.
Written(h, input, info, o) == [key |-> server, input |-> input, info |-> info, out |-> o]

Evaluate(h, input, info) ==
  LET res == evaluate(server, input, info)
  IN  /\ outputs' = IF res.ok
                    THEN [outputs EXCEPT ![h] = Written(h, input, info, res.val)]
                    ELSE outputs
      /\ ret' = Outcome(res)
      /\ UNCHANGED <<server, tables, claim, out>>

\* ss are the slots of the tables; the same table may be passed twice.
EvaluateTables(ss, info) ==
  LET res == IF \E i \in DOMAIN ss : tables[ss[i]] = None THEN Err("NullTable")
             ELSE evaluate_tables(server, [i \in DOMAIN ss |-> tables[ss[i]].table], info)
  IN  /\ outputs' = [h \in Places |->
                       IF res.ok /\ h \in DOMAIN ss
                       THEN Written(h, tables[ss[h]].of, info, res.val[h])
                       ELSE outputs[h]]
      /\ ret' = Outcome(res)
      /\ UNCHANGED <<server, tables, claim, out>>

OutputDestroy(h) ==
  /\ outputs' = [outputs EXCEPT ![h] = None]
  /\ UNCHANGED <<server, tables, claim, out, ret>>

(***************************************************************************)
(* Specification.                                                          *)
(***************************************************************************)
Init ==
  /\ server \in Keys
  /\ tables = [s \in Slots |-> None]
  /\ outputs = [h \in Places |-> None]
  /\ Ideal!Init
  /\ ret = "Ok"

Next ==
  \/ Issue
  \/ \E bytes \in KeyBytes : ServerNew(bytes)
  \/ \E s \in Slots : InputTableDestroy(s) \/ \E input \in Inputs : InputTableNew(s, input)
  \/ \E h \in Places :
       OutputDestroy(h) \/ \E input \in Inputs, info \in Infos : Evaluate(h, input, info)
  \/ \E n \in 0..MaxBatch : \E ss \in [1..n -> Slots], info \in Infos : EvaluateTables(ss, info)

Spec == Init /\ [][Next]_vars

(***************************************************************************)
(* Properties.                                                             *)
(***************************************************************************)
(* Type correctness.  The base of a table is never the identity.           *)
TypeOK ==
  /\ server \in SecretKey
  /\ tables \in [Slots -> [table : [prefix : [absorbed : Inputs], base : Element \ {identity}],
                           of : Inputs] \cup {None}]
  /\ outputs \in [Places -> [key : SecretKey, input : Inputs, info : Infos, out : Output]
                              \cup {None}]
  /\ claim \in [Tokens -> [key : Keys, input : Inputs, info : Infos] \cup {None}]
  /\ out \in [Tokens -> Output \cup {None}]

(* A table is as good as its input: under any key and any info, whatever   *)
(* was in force when it was built, evaluate_tables returns of it what      *)
(* evaluate returns of the input, errors included.                         *)
TablesAgreeWithEvaluate ==
  \A s \in Slots, k \in SecretKey, info \in Infos :
    tables[s] # None =>
      LET one == evaluate(k, tables[s].of, info)
      IN  evaluate_tables(k, <<tables[s].table>>, info)
            = IF one.ok THEN Ok(<<one.val>>) ELSE one

(* A presented token matches an output the redeemer holds, however either  *)
(* was made and however old they are, exactly if it was issued for the     *)
(* input, the info and the key which that output was asked for.            *)
RedeemedIffIssued ==
  \A h \in Places, t \in Tokens, whole \in BOOLEAN :
    outputs[h] # None /\ out[t] # None =>
      LET o == outputs[h]
          presented == [output_to_bytes(out[t]) EXCEPT !.whole = whole]
      IN  output_eq_base64(o.out, presented) = 1
            <=> whole /\ [key |-> o.key, input |-> o.input, info |-> o.info] = claim[t]

(***************************************************************************)
(* The inductive invariant behind them: TypeOK and the following.          *)
(***************************************************************************)
(* Tables were built from their inputs, outputs and tokens are what        *)
(* evaluate returns.                                                       *)
Provenance ==
  /\ \A s \in Slots : tables[s] # None =>
       /\ PoprfInputTable_new(tables[s].of) = Ok(tables[s].table)
  /\ \A h \in Places : outputs[h] # None =>
       evaluate(outputs[h].key, outputs[h].input, outputs[h].info) = Ok(outputs[h].out)
  /\ \A t \in Tokens : claim[t] # None => Defined(claim[t].key, claim[t].input, claim[t].info)
  /\ \A t \in Tokens : out[t] # None =>
       /\ claim[t] # None
       /\ out[t] = F(claim[t].key, claim[t].input, claim[t].info)

IInv == TypeOK /\ Provenance
=============================================================================
