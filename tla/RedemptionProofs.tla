-------------------------- MODULE RedemptionProofs --------------------------
(***************************************************************************)
(* Proofs about module Redemption: a table stands for its input under any  *)
(* key and info, and a presented token matches an output exactly if it was *)
(* issued for what the output was asked for.                               *)
(***************************************************************************)
EXTENDS Redemption, PoprfProofs

(***************************************************************************)
(* The algebra of outputs.                                                 *)
(***************************************************************************)
(* Tweaking by one info is injective in the key.                           *)
LEMMA TweakInjective ==
  ASSUME NEW k1 \in Scalar, NEW k2 \in Scalar, NEW m \in Scalar,
         scalar_add(k1, m) = scalar_add(k2, m)
  PROVE  k1 = k2
<1> k1 \in Int /\ k2 \in Int /\ m \in Int BY OrderAssumption DEF Scalar
<1> DEFINE q1 == (k1 + m) \div Order
           q2 == (k2 + m) \div Order
           r == (k1 + m) % Order
<1>1. q1 \in Int /\ r \in Scalar /\ k1 + m = Order * q1 + r
  <2>1. k1 + m \in Int OBVIOUS
  <2> QED BY <2>1, DivMod
<1>2. q2 \in Int /\ k2 + m = Order * q2 + r
  <2>1. k2 + m \in Int OBVIOUS
  <2> QED BY <2>1, DivMod DEF scalar_add
<1> HIDE DEF q1, q2, r
<1>3. k1 = k2 + Order * (q1 - q2) BY <1>1, <1>2, OrderAssumption DEF Scalar
<1>4. q1 - q2 = 0
  <2>1. q1 - q2 \in Int BY <1>1, <1>2
  <2> QED BY <1>3, <2>1, SmallMultiple
<1> QED BY <1>3, <1>4, OrderAssumption

(* So is taking the inverse.                                               *)
LEMMA InverseInjective ==
  ASSUME NEW s1 \in RandomScalar, NEW s2 \in RandomScalar,
         scalar_invert(s1) = scalar_invert(s2)
  PROVE  s1 = s2
<1> DEFINE i == scalar_invert(s1)
<1>1. i \in RandomScalar /\ scalar_mul(s1, i) = 1 /\ scalar_mul(s2, i) = 1
  BY InverseCancels
<1>2. i \in Scalar \ {0} BY <1>1, RandomScalarIsScalar
<1>3. 1 \in Scalar \ {0} BY OrderAssumption DEF Scalar
<1> HIDE DEF i
<1> QED BY <1>1, <1>2, <1>3, BlindingHides

(* What evaluate returns, when it returns.                                 *)
LEMMA Evaluated ==
  ASSUME NEW k \in SecretKey, NEW input \in Inputs, NEW info \in Infos,
         evaluate(k, input, info).ok
  PROVE  /\ compute_t(k, info).ok
         /\ HashToGroup[input] \in Scalar \ {0}
         /\ evaluate(k, input, info)
              = Ok(finalize_hash(input, info,
                     scalar_mul(scalar_invert(compute_t(k, info).val), HashToGroup[input])))
<1>1. HashToGroup[input] \in Scalar BY HashAssumption, RandomScalarIsScalar
<1> QED BY <1>1, Results, RandomScalarIsScalar DEF evaluate, is_identity

LEMMA EvaluatedIsOutput ==
  ASSUME NEW k \in SecretKey, NEW input \in Inputs, NEW info \in Infos,
         evaluate(k, input, info).ok
  PROVE  evaluate(k, input, info).val \in Output
<1> DEFINE t == compute_t(k, info).val
           u == scalar_mul(scalar_invert(t), HashToGroup[input])
<1>1. HashToGroup[input] \in Scalar /\ evaluate(k, input, info) = Ok(finalize_hash(input, info, u))
  BY Evaluated
<1>2. t \in RandomScalar BY Evaluated, ComputedT
<1>3. scalar_invert(t) \in Scalar BY <1>2, InverseCancels, RandomScalarIsScalar
<1>4. u \in Element BY <1>1, <1>3, MulClosed, RandomScalarIsScalar
<1> HIDE DEF u
<1> QED BY <1>1, <1>4, Results DEF finalize_hash, Output

(* Equal outputs are outputs of the same input, info and key: the key is   *)
(* told apart because the input does not hash to the identity.             *)
LEMMA OutputsBind ==
  ASSUME NEW k1 \in SecretKey, NEW k2 \in SecretKey,
         NEW x1 \in Inputs, NEW x2 \in Inputs, NEW i1 \in Infos, NEW i2 \in Infos,
         evaluate(k1, x1, i1).ok, evaluate(k2, x2, i2).ok,
         evaluate(k1, x1, i1).val = evaluate(k2, x2, i2).val
  PROVE  k1 = k2 /\ x1 = x2 /\ i1 = i2
<1> DEFINE t1 == compute_t(k1, i1).val
           t2 == compute_t(k2, i2).val
           u1 == scalar_mul(scalar_invert(t1), HashToGroup[x1])
           u2 == scalar_mul(scalar_invert(t2), HashToGroup[x2])
<1>1. /\ evaluate(k1, x1, i1).val = finalize_hash(x1, i1, u1)
      /\ evaluate(k2, x2, i2).val = finalize_hash(x2, i2, u2)
  BY Evaluated, Results
<1>2. x1 = x2 /\ i1 = i2 /\ u1 = u2
  <2> HIDE DEF u1, u2
  <2>1. finalize_hash(x1, i1, u1) = finalize_hash(x2, i2, u2) BY <1>1
  <2> QED BY ONLY <2>1, Zenon DEF finalize_hash
<1>3. t1 \in RandomScalar /\ t2 \in RandomScalar /\ HashToGroup[x1] \in Scalar \ {0}
  BY Evaluated, ComputedT
<1>4. /\ scalar_invert(t1) \in RandomScalar
      /\ scalar_invert(t2) \in RandomScalar
  BY <1>3, InverseCancels
<1>5. u1 \in Scalar \ {0}
  <2>1. scalar_invert(t1) \in Scalar /\ HashToGroup[x1] \in Scalar
    BY <1>3, <1>4, RandomScalarIsScalar
  <2>2. u1 \in Scalar BY <2>1, MulClosed
  <2>3. u1 # 0 BY <1>3, <1>4, <2>1, NoZeroDivisor
  <2> QED BY <2>2, <2>3
<1>6. scalar_invert(t1) = scalar_invert(t2)
  <2> DEFINE b1 == scalar_invert(t1)
             b2 == scalar_invert(t2)
             h == HashToGroup[x1]
  <2>1. scalar_mul(b1, h) = scalar_mul(b2, h) BY <1>2
  <2>2. b1 \in RandomScalar /\ b2 \in RandomScalar /\ h \in Scalar \ {0} BY <1>3, <1>4
  <2> HIDE DEF b1, b2, h
  <2>3. b1 = b2 BY <1>5, <2>1, <2>2, BlindingHides
  <2> QED BY <2>3 DEF b1, b2
<1>7. t1 = t2 BY <1>3, <1>6, InverseInjective
<1>8. t1 = scalar_add(k1, HashToScalar[i1]) /\ t2 = scalar_add(k2, HashToScalar[i1])
  BY <1>2, Evaluated, ComputedT
<1>9. k1 \in Scalar /\ k2 \in Scalar /\ HashToScalar[i1] \in Scalar
  BY HashAssumption, RandomScalarIsScalar DEF SecretKey
<1>10. k1 = k2 BY <1>7, <1>8, <1>9, TweakInjective
<1> QED BY <1>2, <1>10

(***************************************************************************)
(* Tables.                                                                 *)
(***************************************************************************)
LEMMA TableBuilt ==
  ASSUME NEW input \in Inputs, PoprfInputTable_new(input).ok
  PROVE  /\ PoprfInputTable_new(input) = Ok(Table(input))
         /\ Table(input) \in [prefix : [absorbed : Inputs], base : Element \ {identity}]
         /\ check_lp_len(input) /\ ~is_identity(HashToGroup[input])
<1>1. /\ PoprfInputTable_new(input) = Ok(Table(input))
      /\ check_lp_len(input) /\ ~is_identity(HashToGroup[input])
  BY Results DEF PoprfInputTable_new
<1>2. HashToGroup[input] \in Element \ {identity}
  BY <1>1, HashAssumption DEF is_identity
<1> QED BY <1>1, <1>2 DEF Table, lp_hasher

(* The fan-out over tables gives, at every place, what evaluate gives.     *)
LEMMA FanOut ==
  ASSUME NEW k \in SecretKey, NEW info \in Infos, NEW n \in Nat,
         NEW xs \in [1..n -> Inputs], NEW tbs,
         tbs = [i \in 1..n |-> Table(xs[i])],
         \A i \in 1..n : PoprfInputTable_new(xs[i]).ok,
         evaluate_tables(k, tbs, info).ok
  PROVE  \A i \in 1..n : evaluate(k, xs[i], info) = Ok(evaluate_tables(k, tbs, info).val[i])
<1> DEFINE t == compute_t(k, info)
           o(i) == finalize_from(tbs[i].prefix, info,
                                 scalar_mul(scalar_invert(t.val), tbs[i].base))
<1>1. t.ok /\ evaluate_tables(k, tbs, info) = Ok([i \in DOMAIN tbs |-> o(i)])
  BY Results DEF evaluate_tables
<1>2. DOMAIN tbs = 1..n OBVIOUS
<1> SUFFICES ASSUME NEW i \in 1..n
             PROVE  evaluate(k, xs[i], info) = Ok(o(i))
  BY <1>1, <1>2, Results
<1>3. check_lp_len(xs[i]) /\ ~is_identity(HashToGroup[xs[i]]) BY TableBuilt
<1>4. o(i) = finalize_hash(xs[i], info,
                           scalar_mul(scalar_invert(t.val), HashToGroup[xs[i]]))
  BY DEF Table, lp_hasher, finalize_from
<1> QED BY <1>1, <1>3, <1>4 DEF evaluate

(***************************************************************************)
(* The invariant.                                                          *)
(***************************************************************************)
LEMMA KeysAreSecretKeys == Keys \subseteq SecretKey
<1> SUFFICES ASSUME NEW k \in Keys PROVE k \in SecretKey OBVIOUS
<1>1. k \in Bytes /\ secret_key_from_bytes(k).ok BY RedemptionAssumption DEF Keys
<1> QED BY <1>1, SecretKeyParsed

LEMMA InvInit == Init => IInv
<1> SUFFICES ASSUME Init PROVE IInv OBVIOUS
<1>1. /\ server \in SecretKey
      /\ tables = [s \in Slots |-> None] /\ outputs = [h \in Places |-> None]
      /\ claim = [t \in Tokens |-> None] /\ out = [t \in Tokens |-> None]
  BY KeysAreSecretKeys DEF Init, Ideal!Init
<1>2. TypeOK BY <1>1 DEF TypeOK
<1>3. Provenance BY <1>1 DEF Provenance
<1> QED BY <1>2, <1>3 DEF IInv

(* The clients' steps are those of PoprfIdeal.                             *)
LEMMA ClaimEvaluates ==
  ASSUME NEW c \in Ideal!Claim
  PROVE  /\ c \in [key : Keys, input : Inputs, info : Infos]
         /\ Defined(c.key, c.input, c.info)
         /\ F(c.key, c.input, c.info) \in Output
<1>1. c \in [key : Keys, input : Inputs, info : Infos] /\ Defined(c.key, c.input, c.info)
  BY DEF Ideal!Claim
<1>2. F(c.key, c.input, c.info) \in Output
  BY <1>1, KeysAreSecretKeys, EvaluatedIsOutput DEF F, Defined
<1> QED BY <1>1, <1>2

LEMMA IssueInv == ASSUME IInv, Issue PROVE IInv'
<1> USE DEF IInv, Issue
<1>1. CASE \E t \in Tokens, c \in Ideal!Claim : Ideal!MakeClaim(t, c)
  <2>1. PICK t \in Tokens, c \in Ideal!Claim :
          claim' = [claim EXCEPT ![t] = c] /\ out' = [out EXCEPT ![t] = None]
    BY <1>1 DEF Ideal!MakeClaim
  <2>2. TypeOK' BY <2>1, ClaimEvaluates DEF TypeOK
  <2>3. Provenance' BY <2>1, ClaimEvaluates DEF Provenance, TypeOK
  <2> QED BY <2>2, <2>3
<1>2. CASE \E S \in SUBSET Tokens : Ideal!Reveal(S)
  <2>1. PICK S \in SUBSET Tokens :
          /\ \A t \in S : claim[t] # None
          /\ out' = [t \in Tokens |-> IF t \in S THEN F(claim[t].key, claim[t].input, claim[t].info)
                                      ELSE out[t]]
          /\ claim' = claim
    BY <1>2 DEF Ideal!Reveal, Ideal!Value
  <2>2. \A t \in S : F(claim[t].key, claim[t].input, claim[t].info) \in Output
    <3> SUFFICES ASSUME NEW t \in S
                 PROVE  F(claim[t].key, claim[t].input, claim[t].info) \in Output
      OBVIOUS
    <3>1. /\ claim[t] \in [key : Keys, input : Inputs, info : Infos]
          /\ Defined(claim[t].key, claim[t].input, claim[t].info)
      BY <2>1 DEF TypeOK, Provenance
    <3> QED BY <3>1, KeysAreSecretKeys, EvaluatedIsOutput DEF F, Defined
  <2>3. TypeOK'
    <3>1. out' \in [Tokens -> Output \cup {None}] BY <2>1, <2>2 DEF TypeOK
    <3> QED BY <2>1, <3>1 DEF TypeOK
  <2>4. Provenance' BY <2>1 DEF Provenance
  <2> QED BY <2>3, <2>4
<1>3. CASE Ideal!Forget
  <2>1. /\ claim' = [t \in Tokens |-> None] /\ out' = [t \in Tokens |-> None]
    BY <1>3 DEF Ideal!Forget
  <2>2. TypeOK' BY <2>1 DEF TypeOK
  <2>3. Provenance' BY <2>1 DEF Provenance
  <2> QED BY <2>2, <2>3
<1> QED BY <1>1, <1>2, <1>3 DEF Ideal!Next

LEMMA ServerNewInv ==
  ASSUME IInv, NEW bytes \in KeyBytes, ServerNew(bytes)
  PROVE  IInv'
<1>1. server' \in SecretKey
  BY RedemptionAssumption, SecretKeyParsed DEF ServerNew, IInv, TypeOK
<1>2. TypeOK' BY <1>1 DEF IInv, TypeOK, ServerNew
<1>3. Provenance' BY DEF IInv, Provenance, ServerNew
<1> QED BY <1>2, <1>3 DEF IInv

LEMMA InputTableNewInv ==
  ASSUME IInv, NEW s \in Slots, NEW input \in Inputs, InputTableNew(s, input)
  PROVE  IInv'
<1>1. CASE ~PoprfInputTable_new(input).ok
  <2>1. tables' = tables BY <1>1 DEF InputTableNew
  <2>2. TypeOK' BY <2>1 DEF IInv, TypeOK, InputTableNew
  <2>3. Provenance' BY <2>1 DEF IInv, Provenance, InputTableNew
  <2> QED BY <2>2, <2>3 DEF IInv
<1>2. CASE PoprfInputTable_new(input).ok
  <2> DEFINE tb == Table(input)
  <2>1. /\ PoprfInputTable_new(input) = Ok(tb)
        /\ tb \in [prefix : [absorbed : Inputs], base : Element \ {identity}]
    BY <1>2, TableBuilt
  <2> HIDE DEF tb
  <2>2. tables' = [tables EXCEPT ![s] = [table |-> tb, of |-> input]]
    BY <1>2, <2>1, Results DEF InputTableNew
  <2>3. TypeOK' BY <2>1, <2>2 DEF IInv, TypeOK, InputTableNew
  <2>4. \A u \in Slots : tables'[u] # None =>
          PoprfInputTable_new(tables'[u].of) = Ok(tables'[u].table)
    BY <2>1, <2>2 DEF IInv, TypeOK, Provenance
  <2>5. Provenance' BY <2>4 DEF IInv, Provenance, InputTableNew
  <2> QED BY <2>3, <2>5 DEF IInv
<1> QED BY <1>1, <1>2

LEMMA InputTableDestroyInv ==
  ASSUME IInv, NEW s \in Slots, InputTableDestroy(s)
  PROVE  IInv'
<1>1. TypeOK' BY DEF IInv, TypeOK, InputTableDestroy
<1>2. Provenance' BY DEF IInv, TypeOK, Provenance, InputTableDestroy
<1> QED BY <1>1, <1>2 DEF IInv

(* What a step must write into the array of outputs.                       *)
Genuine(o) ==
  /\ o \in [key : SecretKey, input : Inputs, info : Infos, out : Output]
  /\ evaluate(o.key, o.input, o.info) = Ok(o.out)

LEMMA WrittenIsGenuine ==
  ASSUME IInv, NEW h, NEW input \in Inputs, NEW info \in Infos, NEW o,
         evaluate(server, input, info) = Ok(o)
  PROVE  Genuine(Written(h, input, info, o))
<1>1. server \in SecretKey BY DEF IInv, TypeOK
<1>2. evaluate(server, input, info).ok /\ evaluate(server, input, info).val = o BY Results
<1>3. o \in Output BY <1>1, <1>2, EvaluatedIsOutput
<1> QED BY <1>1, <1>3 DEF Genuine, Written

LEMMA OutputsInv ==
  ASSUME IInv, UNCHANGED <<server, tables, claim, out>>,
         NEW P \in SUBSET Places, NEW w,
         \A h \in P : Genuine(w[h]),
         outputs' = [h \in Places |-> IF h \in P THEN w[h] ELSE outputs[h]]
  PROVE  IInv'
<1>1. TypeOK'
  <2>1. outputs' \in [Places -> [key : SecretKey, input : Inputs, info : Infos, out : Output]
                                 \cup {None}]
    BY DEF IInv, TypeOK, Genuine
  <2> QED BY <2>1 DEF IInv, TypeOK
<1>2. Provenance'
  <2>1. \A h \in Places : outputs'[h] # None =>
          evaluate(outputs'[h].key, outputs'[h].input, outputs'[h].info) = Ok(outputs'[h].out)
    BY DEF IInv, Provenance, Genuine
  <2> QED BY <2>1 DEF IInv, Provenance
<1> QED BY <1>1, <1>2 DEF IInv

LEMMA EvaluateInv ==
  ASSUME IInv, NEW h \in Places, NEW input \in Inputs, NEW info \in Infos,
         Evaluate(h, input, info)
  PROVE  IInv'
<1> DEFINE res == evaluate(server, input, info)
           w == [g \in {h} |-> Written(h, input, info, res.val)]
<1>1. CASE res.ok
  <2>1. server \in SecretKey BY DEF IInv, TypeOK
  <2>2. res = Ok(res.val) BY <1>1, <2>1, Evaluated, Results
  <2>3. Genuine(w[h]) BY <2>2, WrittenIsGenuine
  <2>4. outputs' = [g \in Places |-> IF g \in {h} THEN w[g] ELSE outputs[g]]
    BY <1>1 DEF Evaluate, IInv, TypeOK
  <2>5. UNCHANGED <<server, tables, claim, out>> BY DEF Evaluate
  <2> HIDE DEF w
  <2>6. \A g \in {h} : Genuine(w[g]) BY <2>3
  <2>7. {h} \in SUBSET Places OBVIOUS
  <2> QED BY <2>4, <2>5, <2>6, <2>7, OutputsInv
<1>2. CASE ~res.ok
  <2>1. UNCHANGED <<server, tables, outputs, claim, out>> BY <1>2 DEF Evaluate
  <2>2. TypeOK' BY <2>1 DEF IInv, TypeOK
  <2>3. Provenance' BY <2>1 DEF IInv, Provenance
  <2> QED BY <2>2, <2>3 DEF IInv
<1> QED BY <1>1, <1>2

LEMMA EvaluateTablesInv ==
  ASSUME IInv, NEW n \in 0..MaxBatch, NEW ss \in [1..n -> Slots], NEW info \in Infos,
         EvaluateTables(ss, info)
  PROVE  IInv'
<1> n \in Nat /\ MaxBatch \in Nat BY RedemptionAssumption
<1> DEFINE tbs == [i \in DOMAIN ss |-> tables[ss[i]].table]
           held == \A i \in DOMAIN ss : tables[ss[i]] # None
           res == evaluate_tables(server, tbs, info)
           w == [h \in 1..n |-> Written(h, tables[ss[h]].of, info, res.val[h])]
<1>1. UNCHANGED <<server, tables, claim, out>> BY DEF EvaluateTables
<1>2. CASE held /\ res.ok
  <2> DEFINE xs == [i \in 1..n |-> tables[ss[i]].of]
  <2>1. \A i \in 1..n : /\ tables[ss[i]].of \in Inputs
                        /\ PoprfInputTable_new(tables[ss[i]].of) = Ok(tables[ss[i]].table)
    BY <1>2 DEF IInv, TypeOK, Provenance
  <2>2. \A i \in 1..n : /\ xs[i] \in Inputs
                        /\ PoprfInputTable_new(xs[i]).ok
                        /\ tables[ss[i]].table = Table(xs[i])
    <3> SUFFICES ASSUME NEW i \in 1..n
                 PROVE  /\ xs[i] \in Inputs
                        /\ PoprfInputTable_new(xs[i]).ok
                        /\ tables[ss[i]].table = Table(xs[i])
      OBVIOUS
    <3>1. xs[i] \in Inputs /\ PoprfInputTable_new(xs[i]) = Ok(tables[ss[i]].table) BY <2>1
    <3> QED BY <3>1, TableBuilt, Results
  <2>3. xs \in [1..n -> Inputs] /\ tbs = [i \in 1..n |-> Table(xs[i])] BY <2>2
  <2>4. server \in SecretKey BY DEF IInv, TypeOK
  <2>5. \A i \in 1..n : evaluate(server, xs[i], info) = Ok(res.val[i])
    <3> HIDE DEF xs, tbs
    <3> QED BY <1>2, <2>2, <2>3, <2>4, FanOut
  <2>6. \A h \in 1..n : Genuine(w[h])
    <3> SUFFICES ASSUME NEW h \in 1..n PROVE Genuine(w[h]) OBVIOUS
    <3>1. evaluate(server, tables[ss[h]].of, info) = Ok(res.val[h]) BY <2>5
    <3>2. tables[ss[h]].of \in Inputs BY <2>1
    <3> HIDE DEF res
    <3> QED BY <3>1, <3>2, WrittenIsGenuine
  <2>7. outputs' = [h \in Places |-> IF h \in 1..n THEN w[h] ELSE outputs[h]]
    BY <1>2 DEF EvaluateTables
  <2>8. 1..n \in SUBSET Places BY DEF Places
  <2> HIDE DEF w
  <2> QED BY <1>1, <2>6, <2>7, <2>8, OutputsInv
<1>3. CASE ~(held /\ res.ok)
  <2>1. outputs' = [h \in Places |-> outputs[h]]
    <3>1. CASE ~held BY <3>1, Results DEF EvaluateTables
    <3>2. CASE held /\ ~res.ok BY <3>2 DEF EvaluateTables
    <3> QED BY <1>3, <3>1, <3>2
  <2>2. outputs' = outputs BY <2>1 DEF IInv, TypeOK
  <2>3. TypeOK' BY <1>1, <2>2 DEF IInv, TypeOK
  <2>4. Provenance' BY <1>1, <2>2 DEF IInv, Provenance
  <2> QED BY <2>3, <2>4 DEF IInv
<1> QED BY <1>2, <1>3

LEMMA OutputDestroyInv ==
  ASSUME IInv, NEW h \in Places, OutputDestroy(h)
  PROVE  IInv'
<1>1. TypeOK' BY DEF IInv, TypeOK, OutputDestroy
<1>2. Provenance' BY DEF IInv, TypeOK, Provenance, OutputDestroy
<1> QED BY <1>1, <1>2 DEF IInv

LEMMA StepInv == IInv /\ [Next]_vars => IInv'
<1> SUFFICES ASSUME IInv, [Next]_vars PROVE IInv' OBVIOUS
<1>1. CASE Issue BY <1>1, IssueInv
<1>2. CASE \E bytes \in KeyBytes : ServerNew(bytes) BY <1>2, ServerNewInv
<1>3. CASE \E s \in Slots : \/ InputTableDestroy(s)
                            \/ \E input \in Inputs : InputTableNew(s, input)
  BY <1>3, InputTableDestroyInv, InputTableNewInv
<1>4. CASE \E h \in Places : \/ OutputDestroy(h)
                             \/ \E input \in Inputs, info \in Infos : Evaluate(h, input, info)
  BY <1>4, OutputDestroyInv, EvaluateInv
<1>5. CASE \E n \in 0..MaxBatch : \E ss \in [1..n -> Slots], info \in Infos :
             EvaluateTables(ss, info)
  BY <1>5, EvaluateTablesInv
<1>6. CASE UNCHANGED vars
  <2>1. TypeOK' BY <1>6 DEF IInv, TypeOK, vars
  <2>2. Provenance' BY <1>6 DEF IInv, Provenance, vars
  <2> QED BY <2>1, <2>2 DEF IInv
<1> QED BY <1>1, <1>2, <1>3, <1>4, <1>5, <1>6 DEF Next

(***************************************************************************)
(* Theorems.                                                               *)
(***************************************************************************)
(* Tables were built from the inputs they stand for, and outputs and       *)
(* tokens are what evaluate returns, in every reachable state.             *)
THEOREM InductiveInvariant == Spec => []IInv
BY InvInit, StepInv, PTL DEF Spec

(* Type correctness of every reachable state: no reload of keys, reuse of  *)
(* tables or failed call gives the redeemer a zero key or a table of the   *)
(* identity.                                                               *)
THEOREM TypeCorrect == Spec => []TypeOK
<1>1. IInv => TypeOK BY DEF IInv
<1> QED BY <1>1, InductiveInvariant, PTL

(* A table built at any time stands for its input under every key and      *)
(* info: evaluate_tables gives of it what evaluate gives of the input,     *)
(* errors included.                                                        *)
THEOREM TablesAgree == Spec => []TablesAgreeWithEvaluate
<1>1. IInv => TablesAgreeWithEvaluate
  <2> SUFFICES ASSUME IInv, NEW s \in Slots, NEW k \in SecretKey, NEW info \in Infos,
                      tables[s] # None
               PROVE  LET one == evaluate(k, tables[s].of, info)
                      IN  evaluate_tables(k, <<tables[s].table>>, info)
                            = IF one.ok THEN Ok(<<one.val>>) ELSE one
    BY DEF TablesAgreeWithEvaluate
  <2> DEFINE x == tables[s].of
             t == compute_t(k, info)
             o == finalize_hash(x, info, scalar_mul(scalar_invert(t.val), HashToGroup[x]))
  <2>1. x \in Inputs /\ PoprfInputTable_new(x) = Ok(tables[s].table)
    BY DEF IInv, TypeOK, Provenance
  <2>2. /\ tables[s].table = Table(x)
        /\ check_lp_len(x) /\ ~is_identity(HashToGroup[x])
    BY <2>1, TableBuilt, Results
  <2>3. evaluate(k, x, info) = IF ~t.ok THEN t ELSE Ok(o) BY <2>2 DEF evaluate
  <2>4. evaluate_tables(k, <<tables[s].table>>, info) = IF ~t.ok THEN t ELSE Ok(<<o>>)
    <3>1. [i \in DOMAIN <<Table(x)>> |->
             finalize_from((<<Table(x)>>)[i].prefix, info,
                           scalar_mul(scalar_invert(t.val), (<<Table(x)>>)[i].base))] = <<o>>
      BY DEF Table, lp_hasher, finalize_from
    <3>2. <<Table(x)>> # << >> OBVIOUS
    <3> HIDE DEF o, x
    <3> QED BY <2>2, <3>1, <3>2 DEF evaluate_tables
  <2> HIDE DEF o, x, t
  <2> QED BY <2>3, <2>4, Results DEF x
<1> QED BY <1>1, InductiveInvariant, PTL

(* A token that is presented matches an output of the redeemer exactly if  *)
(* it was issued for the input, the info and under the key that the output *)
(* was asked for: no replacement of keys between issuing, building tables, *)
(* evaluating and comparing makes a token pass for another, or fail.       *)
THEOREM RedeemExactly == Spec => []RedeemedIffIssued
<1>1. IInv => RedeemedIffIssued
  <2> SUFFICES ASSUME IInv, NEW h \in Places, NEW t \in Tokens, NEW whole \in BOOLEAN,
                      outputs[h] # None, out[t] # None
               PROVE  output_eq_base64(outputs[h].out,
                                       [output_to_bytes(out[t]) EXCEPT !.whole = whole]) = 1
                        <=> whole /\ [key |-> outputs[h].key, input |-> outputs[h].input,
                                      info |-> outputs[h].info] = claim[t]
    BY DEF RedeemedIffIssued
  <2> DEFINE o == outputs[h]
             c == claim[t]
  <2>1. /\ o.key \in SecretKey /\ o.input \in Inputs /\ o.info \in Infos
        /\ evaluate(o.key, o.input, o.info) = Ok(o.out)
    BY DEF IInv, TypeOK, Provenance
  <2>2. /\ c \in [key : Keys, input : Inputs, info : Infos]
        /\ evaluate(c.key, c.input, c.info).ok
        /\ out[t] = evaluate(c.key, c.input, c.info).val
    BY DEF IInv, TypeOK, Provenance, Defined, F
  <2>3. evaluate(o.key, o.input, o.info).ok /\ evaluate(o.key, o.input, o.info).val = o.out
    BY <2>1, Results
  <2>4. output_eq_base64(o.out, [output_to_bytes(out[t]) EXCEPT !.whole = whole]) = 1
          <=> whole /\ o.out = out[t]
    <3>1. [output_to_bytes(out[t]) EXCEPT !.whole = whole] = [whole |-> whole, digest |-> out[t]]
      BY DEF output_to_bytes
    <3> QED BY <3>1, Results DEF output_eq_base64, output_from_bytes
  <2>5. o.out = out[t] <=> o.key = c.key /\ o.input = c.input /\ o.info = c.info
    <3>1. c.key \in SecretKey /\ c.input \in Inputs /\ c.info \in Infos
      BY <2>2, KeysAreSecretKeys
    <3> HIDE DEF o, c
    <3>2. CASE o.out = out[t]
      <4>1. evaluate(o.key, o.input, o.info).val = evaluate(c.key, c.input, c.info).val
        BY <2>2, <2>3, <3>2
      <4> QED BY <2>1, <2>2, <2>3, <3>1, <3>2, <4>1, OutputsBind
    <3>3. CASE o.key = c.key /\ o.input = c.input /\ o.info = c.info
      BY <2>2, <2>3, <3>3
    <3> QED BY <3>2, <3>3
  <2>6. o.key = c.key /\ o.input = c.input /\ o.info = c.info
          <=> [key |-> o.key, input |-> o.input, info |-> o.info] = c
    <3> HIDE DEF o, c
    <3> QED BY <2>2
  <2> HIDE DEF o, c
  <2> QED BY <2>4, <2>5, <2>6 DEF o, c
<1> QED BY <1>1, InductiveInvariant, PTL
=============================================================================
