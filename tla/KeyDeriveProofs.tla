--------------------------- MODULE KeyDeriveProofs ---------------------------
(***************************************************************************)
(* Proofs about module KeyDerive, for every hash function, number of       *)
(* counters and prime order.                                               *)
(***************************************************************************)
EXTENDS KeyDerive, TLAPS

LEMMA InvInit == Init => IInv
BY KeyDeriveAssumption
   DEF Init, IInv, TypeOK, Progress, DerivesFirstAdmissible, Counters

(* A call that is starting has tried nothing.                              *)
LEMMA DeriveKeyPairInv ==
  ASSUME IInv, NEW whole_seed \in BOOLEAN, NEW info \in Infos,
         DeriveKeyPair(whole_seed, info)
  PROVE  IInv'
<1> USE DEF IInv, DeriveKeyPair
<1>1. TypeOK' BY KeyDeriveAssumption DEF TypeOK, Return, Counters
<1>2. Progress' BY DEF TypeOK, Progress, Return, Counters
<1>3. DerivesFirstAdmissible' BY DEF DerivesFirstAdmissible, Return, Err
<1> QED BY <1>1, <1>2, <1>3

(* A turn of the loop finds the first admissible counter, or rules out one *)
(* more.                                                                   *)
LEMMA TryCounterInv == ASSUME IInv, TryCounter PROVE IInv'
<1> DEFINE sk == hash[asked][counter]
<1>1. /\ pc = "deriving" /\ asked \in Infos /\ counter \in Counters
      /\ \A c \in Counters : c < counter => hash[asked][c] = 0
      /\ UNCHANGED <<hash, asked>>
  BY DEF IInv, TypeOK, Progress, TryCounter
<1>2. CASE sk # 0
  <2>1. pc' = "idle" /\ result' = Ok(KeyPair(sk)) /\ counter' = counter
    BY <1>2 DEF TryCounter, Return, scalar_is_zero
  <2>2. TypeOK' BY <1>1, <2>1 DEF IInv, TypeOK
  <2>3. Progress' BY <2>1 DEF Progress
  <2>4. DerivesFirstAdmissible'
    <3>1. counter \in Admissible(asked) BY <1>1, <1>2 DEF Admissible, scalar_is_zero
    <3>2. \A d \in Admissible(asked) : counter <= d
      <4> SUFFICES ASSUME NEW d \in Admissible(asked) PROVE counter <= d OBVIOUS
      <4>1. d \in Counters /\ hash[asked][d] # 0 BY DEF Admissible, scalar_is_zero
      <4> QED BY <1>1, <4>1, KeyDeriveAssumption DEF Counters
    <3>3. Admissible(asked)' = Admissible(asked) BY <1>1 DEF Admissible
    <3> QED BY <1>1, <2>1, <3>1, <3>2, <3>3 DEF DerivesFirstAdmissible, Ok
  <2> QED BY <2>2, <2>3, <2>4 DEF IInv
<1>3. CASE sk = 0 /\ counter = LastCounter
  <2>1. pc' = "idle" /\ result' = Err("DeriveKeyPair") /\ counter' = counter
    BY <1>3 DEF TryCounter, Return, scalar_is_zero
  <2>2. TypeOK' BY <1>1, <2>1 DEF IInv, TypeOK
  <2>3. Progress' BY <2>1 DEF Progress
  <2>4. DerivesFirstAdmissible'
    <3>1. \A c \in Counters : hash[asked][c] = 0
      <4> SUFFICES ASSUME NEW c \in Counters PROVE hash[asked][c] = 0 OBVIOUS
      <4>1. c < counter \/ c = counter BY <1>3, KeyDeriveAssumption DEF Counters
      <4> QED BY <1>1, <1>3, <4>1
    <3>2. Admissible(asked)' = {} BY <1>1, <3>1 DEF Admissible, scalar_is_zero
    <3> QED BY <1>1, <2>1, <3>2 DEF DerivesFirstAdmissible, Err
  <2> QED BY <2>2, <2>3, <2>4 DEF IInv
<1>4. CASE sk = 0 /\ counter # LastCounter
  <2>1. pc' = "deriving" /\ counter' = counter + 1
    BY <1>1, <1>4 DEF TryCounter, scalar_is_zero
  <2>2. TypeOK' BY <1>1, <1>4, <2>1, KeyDeriveAssumption DEF IInv, TypeOK, Counters
  <2>3. Progress'
    <3> SUFFICES ASSUME NEW c \in Counters, c < counter + 1 PROVE hash[asked][c] = 0
      BY <1>1, <2>1 DEF Progress
    <3>1. c < counter \/ c = counter BY <1>1, KeyDeriveAssumption DEF Counters
    <3> QED BY <1>1, <1>4, <3>1
  <2>4. DerivesFirstAdmissible' BY <2>1 DEF DerivesFirstAdmissible
  <2> QED BY <2>2, <2>3, <2>4 DEF IInv
<1> QED BY <1>2, <1>3, <1>4

LEMMA GenerateKeyPairInv == ASSUME IInv, GenerateKeyPair PROVE IInv'
BY DEF IInv, TypeOK, Progress, DerivesFirstAdmissible, GenerateKeyPair

(* A sampled key is not the answer to a derivation: asked stays None.      *)
LEMMA SampleInv == ASSUME IInv, NEW s \in Scalar, Sample(s) PROVE IInv'
<1> USE DEF IInv, Sample, Return
<1>1. TypeOK' BY DEF TypeOK
<1>2. Progress' BY DEF Progress
<1>3. DerivesFirstAdmissible'
  BY KeyDeriveAssumption DEF Progress, DerivesFirstAdmissible
<1> QED BY <1>1, <1>2, <1>3

LEMMA RestartInv == ASSUME IInv, Restart PROVE IInv'
BY KeyDeriveAssumption
   DEF IInv, TypeOK, Progress, DerivesFirstAdmissible, Restart, Counters

LEMMA StepInv == IInv /\ [Next]_vars => IInv'
<1> SUFFICES ASSUME IInv, [Next]_vars PROVE IInv' OBVIOUS
<1>1. CASE \E whole_seed \in BOOLEAN, info \in Infos : DeriveKeyPair(whole_seed, info)
  BY <1>1, DeriveKeyPairInv
<1>2. CASE TryCounter BY <1>2, TryCounterInv
<1>3. CASE GenerateKeyPair BY <1>3, GenerateKeyPairInv
<1>4. CASE \E s \in Scalar : Sample(s) BY <1>4, SampleInv
<1>5. CASE Restart BY <1>5, RestartInv
<1>6. CASE UNCHANGED vars
  BY <1>6 DEF IInv, TypeOK, Progress, DerivesFirstAdmissible, Admissible, vars
<1> QED BY <1>1, <1>2, <1>3, <1>4, <1>5, <1>6 DEF Next

(* derive_key_pair returns the key of the first counter whose hash is not  *)
(* zero, on every start and after every interruption, and gives up only if *)
(* there is none.                                                          *)
THEOREM DerivesFirst == Spec => []DerivesFirstAdmissible
<1>1. IInv => DerivesFirstAdmissible BY DEF IInv
<1> QED BY <1>1, InvInit, StepInv, PTL DEF Spec

(* A derivation that runs tries at most the counters there are: with every *)
(* step that is taken while it runs, fewer turns are left.                 *)
THEOREM DerivationEnds == Spec => DerivationDescends
<1>1. ASSUME IInv, [Next]_vars
      PROVE  [pc = "deriving" => TurnsLeft' \in 0..(TurnsLeft - 1)]_vars
  <2> SUFFICES ASSUME Next, pc = "deriving" PROVE TurnsLeft' \in 0..(TurnsLeft - 1)
    BY <1>1
  <2>1. counter \in 0..LastCounter /\ LastCounter \in Nat
    BY <1>1, KeyDeriveAssumption DEF IInv, TypeOK, Counters
  <2>2. TurnsLeft = LastCounter + 1 - counter BY DEF TurnsLeft
  <2>3. pc' = "idle" \/ (pc' = "deriving" /\ counter # LastCounter /\ counter' = counter + 1)
    <3>1. CASE TryCounter BY <3>1 DEF TryCounter, Return
    <3>2. CASE Restart BY <3>2 DEF Restart
    <3> QED BY <3>1, <3>2 DEF Next, DeriveKeyPair, GenerateKeyPair, Sample
  <2>4. CASE pc' = "idle"
    <3>1. TurnsLeft' = 0 BY <2>4 DEF TurnsLeft
    <3> QED BY <2>1, <2>2, <3>1
  <2>5. CASE pc' = "deriving" /\ counter # LastCounter /\ counter' = counter + 1
    <3>1. TurnsLeft' = LastCounter + 1 - (counter + 1) BY <2>5 DEF TurnsLeft
    <3> QED BY <2>1, <2>2, <2>5, <3>1
  <2> QED BY <2>3, <2>4, <2>5
<1> QED BY <1>1, InvInit, StepInv, PTL DEF Spec, DerivationDescends
=============================================================================
