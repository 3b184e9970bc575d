---- MODULE FfiProofs ----
(***************************************************************************)
(* Whatever calls the threads make, in whatever order their steps come:    *)
(* every object has one owner, no call reads what is gone, and the         *)
(* interface keeps its contract.                                           *)
(***************************************************************************)
EXTENDS Ffi, SequenceTheorems, TLAPS

(***************************************************************************)
(* Signatures and arguments.                                               *)
(***************************************************************************)
LEMMA SignatureType ==
  ASSUME NEW f \in Functions
  PROVE  /\ f.in \in Seq(Types) /\ f.out \in Seq(Types)
         /\ f.slots \in Types \cup {None}
<1>1. /\ <<"SecretKey">> \in Seq(Types) /\ <<"PublicKey">> \in Seq(Types)
      /\ <<"BlindedElement">> \in Seq(Types) /\ <<"Proof">> \in Seq(Types)
      /\ <<"PoprfOutput">> \in Seq(Types) /\ <<"PoprfInputTable">> \in Seq(Types)
      /\ <<"c_char">> \in Seq(Types) /\ <<"EvaluatedElement">> \in Seq(Types)
      /\ << >> \in Seq(Types)
  BY DEF Types
<1>2. "EvaluatedElement" \in Types /\ "PoprfOutput" \in Types BY DEF Types
<1>3. CASE f = poprf_secret_key_from_seed
  BY <1>1, <1>3 DEF Returning, poprf_secret_key_from_seed
<1>4. CASE f = poprf_secret_key_decode_base64
  BY <1>1, <1>4 DEF Returning, poprf_secret_key_decode_base64
<1>5. CASE f = poprf_secret_key_encode_base64
  BY <1>1, <1>5 DEF Returning, poprf_secret_key_encode_base64
<1>6. CASE f = poprf_public_key_from_secret
  BY <1>1, <1>6 DEF Returning, poprf_public_key_from_secret
<1>7. CASE f = poprf_public_key_encode_base64
  BY <1>1, <1>7 DEF Returning, poprf_public_key_encode_base64
<1>8. CASE f = poprf_blinded_element_decode_base64
  BY <1>1, <1>8 DEF Returning, poprf_blinded_element_decode_base64
<1>9. CASE f = poprf_evaluated_element_encode_base64
  BY <1>1, <1>9 DEF Returning, poprf_evaluated_element_encode_base64
<1>10. CASE f = poprf_proof_encode_base64
  BY <1>1, <1>10 DEF Returning, poprf_proof_encode_base64
<1>11. CASE f = poprf_evaluate
  BY <1>1, <1>11 DEF Returning, poprf_evaluate
<1>12. CASE f = poprf_input_table_new
  BY <1>1, <1>12 DEF Returning, poprf_input_table_new
<1>13. CASE f = poprf_output_encode_base64
  BY <1>1, <1>13 DEF Returning, poprf_output_encode_base64
<1>14. CASE f = poprf_output_eq_base64
  BY <1>1, <1>14 DEF Returning, poprf_output_eq_base64
<1>15. CASE f = poprf_blind_evaluate_batch
  BY <1>1, <1>2, <1>15 DEF Batched, poprf_blind_evaluate_batch
<1>16. CASE f = poprf_evaluate_tables
  BY <1>1, <1>2, <1>16 DEF Batched, poprf_evaluate_tables
<1> QED
  BY <1>3, <1>4, <1>5, <1>6, <1>7, <1>8, <1>9, <1>10, <1>11, <1>12, <1>13, <1>14, <1>15, <1>16
  DEF Functions

LEMMA OutTypesType ==
  ASSUME NEW f \in Functions, NEW n \in Nat
  PROVE  OutTypes(f, n) \in Seq(Types \cup {None})
<1> DEFINE T == Types \cup {None}
           s == [i \in 1..n |-> f.slots]
<1>1. f.out \in Seq(Types) /\ f.slots \in T BY SignatureType
<1>2. f.out \in Seq(T) BY <1>1, SeqMonotonic
<1>3. s \in Seq(T) BY <1>1
<1> QED BY <1>2, <1>3, ConcatProperties DEF OutTypes

LEMMA CellSeqsType ==
  ASSUME NEW S, NEW types \in Seq(S), NEW cs \in CellSeqs(types)
  PROVE  /\ cs \in Seq(Cells)
         /\ Len(cs) = Len(types)
         /\ \A i \in 1..Len(cs) : cs[i] \in Cells /\ CellType[cs[i]] = types[i]
<1>1. Len(types) \in Nat BY LenProperties
<1>2. cs \in [1..Len(types) -> Cells] BY DEF CellSeqs
<1>3. cs \in Seq(Cells) /\ Len(cs) = Len(types) BY <1>1, <1>2
<1> QED BY <1>2, <1>3 DEF CellSeqs

LEMMA RangeOfCells ==
  ASSUME NEW cs \in Seq(Cells)
  PROVE  /\ Range(cs) \subseteq Cells
         /\ \A c \in Range(cs) : \E i \in 1..Len(cs) : cs[i] = c
         /\ \A i \in 1..Len(cs) : cs[i] \in Range(cs)
<1>1. DOMAIN cs = 1..Len(cs) /\ cs \in [1..Len(cs) -> Cells] BY LenProperties
<1> QED BY <1>1 DEF Range

LEMMA ArraysType ==
  ASSUME NEW type, NEW arr \in Arrays(type)
  PROVE  arr \in Seq(Cells)
<1>1. CASE type = None
  BY <1>1 DEF Arrays
<1>2. CASE type # None
  <2>1. PICK n \in 0..MaxBatch : arr \in CellSeqs([i \in 1..n |-> type])
    BY <1>2 DEF Arrays
  <2>2. n \in Nat BY <2>1, FfiAssumption
  <2>3. [i \in 1..n |-> type] \in Seq({type}) BY <2>2
  <2> QED BY <2>1, <2>3, CellSeqsType
<1> QED BY <1>1, <1>2

LEMMA RunningCall ==
  ASSUME TypeOK, NEW u \in Threads, Running(u)
  PROVE  /\ call[u] \in Calls
         /\ call[u].fn \in Functions
         /\ call[u].in \subseteq Cells
         /\ call[u].out \in Seq(Cells)
         /\ call[u].types \in Seq(Types \cup {None})
         /\ call[u].next \in Nat
         /\ Len(call[u].out) \in Nat
         /\ Range(call[u].out) \subseteq Cells
         /\ \A c \in Range(call[u].out) : \E i \in 1..Len(call[u].out) : call[u].out[i] = c
         /\ \A i \in 1..Len(call[u].out) : call[u].out[i] \in Range(call[u].out)
<1>1. call[u] \in Calls BY DEF TypeOK, Running
<1>2. /\ call[u].fn \in Functions /\ call[u].in \subseteq Cells
      /\ call[u].out \in Seq(Cells) /\ call[u].types \in Seq(Types \cup {None})
      /\ call[u].next \in Nat
  BY <1>1 DEF Calls
<1>3. Len(call[u].out) \in Nat BY <1>2, LenProperties
<1> QED BY <1>1, <1>2, <1>3, RangeOfCells

LEMMA ObjectType ==
  ASSUME NEW type \in Types, NEW text \in Errors \cup {None}
  PROVE  /\ Object(type, text) \in Objects
         /\ Object(type, text) # Free
         /\ Object(type, text).type = type
         /\ Object(type, text).text = text
BY FfiAssumption DEF Object, Objects

LEMMA AddressType ==
  ASSUME TypeOK, NEW h \in Handles, h \in Live
  PROVE  heap[h] \in Objects /\ heap[h] # None
BY FfiAssumption DEF TypeOK, Live

(***************************************************************************)
(* Three kinds of steps.                                                   *)
(***************************************************************************)

\* The caller's cells may lose marks, but no object changes hands.
LEMMA BlankStep ==
  ASSUME IInv,
         heap' = heap,
         cell' \in [Cells -> Handles \cup {Null, Uninit}],
         error' \in [Threads -> Errors \cup {None}],
         call' \in [Threads -> Calls \cup {Idle}],
         \A u \in Threads : call'[u] # Idle => call'[u] = call[u] /\ error'[u] = error[u],
         \A c \in Cells : cell'[c] # cell[c] =>
           /\ cell[c] \notin Handles /\ cell'[c] \notin Handles
           /\ \A u \in Threads : call'[u] # Idle => c \notin Range(call[u].out)
  PROVE  IInv'
<1>1. TypeOK' BY DEF IInv, TypeOK
<1>2. OwnedOnce'
  BY DEF IInv, OwnedOnce, Live, TypeOK
<1>3. ReadsAreLive'
  <2> SUFFICES ASSUME NEW u \in Threads, call'[u] # Idle, NEW c \in call[u].in
               PROVE  cell'[c] \in Live /\ heap[cell'[c]].type = CellType[c]
    BY DEF ReadsAreLive, Running, Live
  <2>1. Running(u) /\ TypeOK BY DEF Running, IInv
  <2>2. cell[c] \in Live /\ heap[cell[c]].type = CellType[c] /\ cell[c] \in Handles
    BY <2>1 DEF IInv, ReadsAreLive, Live
  <2>3. c \in Cells BY <2>1, RunningCall
  <2> QED BY <2>2, <2>3
<1>4. Exclusive'
  BY DEF IInv, Exclusive, Running
<1>5. ASSUME NEW u \in Threads, call'[u] # Idle
      PROVE  Progress(call[u])' /\ error'[u] = None
  <2>1. Running(u) /\ TypeOK /\ call'[u] = call[u] /\ error'[u] = error[u]
    BY <1>5 DEF Running, IInv
  <2>2. Progress(call[u]) /\ error[u] = None BY <2>1 DEF IInv
  <2>3. \A i \in 1..Len(call[u].out) : cell'[call[u].out[i]] = cell[call[u].out[i]]
    BY <1>5, <2>1, RunningCall
  <2>4. Progress(call[u])'
    BY <2>1, <2>2, <2>3 DEF Progress
  <2> QED BY <2>1, <2>2, <2>4
<1> QED BY <1>1, <1>2, <1>3, <1>4, <1>5 DEF IInv, Running

\* What a call has filled so far stays as it is.
LEMMA ProgressKept ==
  ASSUME NEW u \in Threads, Progress(call[u]), call'[u] = call[u],
         \A j \in 1..Len(call[u].out) :
            /\ cell'[call[u].out[j]] = cell[call[u].out[j]]
            /\ cell[call[u].out[j]] \in Handles =>
                 heap'[cell[call[u].out[j]]] = heap[cell[call[u].out[j]]]
  PROVE  Progress(call[u])'
<1> DEFINE k == call[u]
<1>1. /\ k.next \in 1..(Len(k.out) + 1)
      /\ \A i, j \in 1..Len(k.out) : k.out[i] = k.out[j] => i = j
  BY DEF Progress
<1>2. ASSUME NEW i \in 1..Len(k.out)
      PROVE  /\ CellType[k.out[i]] = k.types[i]
             /\ i < k.next => /\ cell'[k.out[i]] \in Handles
                              /\ heap'[cell'[k.out[i]]] = Object(k.types[i], None)
             /\ i >= k.next => cell'[k.out[i]] \notin Handles
  BY DEF Progress
<1> QED BY <1>1, <1>2 DEF Progress

\* A new object comes to a cell that held none.
LEMMA HandOutStep ==
  ASSUME IInv, NEW c \in Cells, cell[c] \notin Handles,
         NEW object \in Objects, object.type = CellType[c],
         HandOut(c, object)
  PROVE  /\ heap' \in [Handles -> Objects \cup {Free}]
         /\ cell' \in [Cells -> Handles \cup {Null, Uninit}]
         /\ OwnedOnce'
         /\ cell'[c] \in Handles /\ heap'[cell'[c]] = object
         /\ \A d \in Cells : d # c =>
              /\ cell'[d] = cell[d]
              /\ cell[d] \in Handles => heap'[cell[d]] = heap[cell[d]]
         /\ \A u \in Threads : Running(u) =>
              \A d \in call[u].in : cell'[d] \in Live' /\ heap'[cell'[d]].type = CellType[d]
<1>1. PICK h \in Handles : /\ heap[h] = Free
                           /\ heap' = [heap EXCEPT ![h] = object]
                           /\ cell' = [cell EXCEPT ![c] = h]
  BY DEF HandOut
<1>2. TypeOK /\ OwnedOnce /\ object # Free BY FfiAssumption DEF IInv
<1>3. /\ heap' \in [Handles -> Objects \cup {Free}]
      /\ cell' \in [Cells -> Handles \cup {Null, Uninit}]
  BY <1>1, <1>2 DEF TypeOK
<1>4. cell'[c] = h /\ heap'[h] = object BY <1>1, <1>2 DEF TypeOK
<1>5. \A d \in Cells : cell[d] # h BY <1>1, <1>2 DEF OwnedOnce, Live
<1>6. ASSUME NEW d \in Cells, d # c
      PROVE  /\ cell'[d] = cell[d]
             /\ cell[d] \in Handles => heap'[cell[d]] = heap[cell[d]]
  <2>1. cell'[d] = cell[d] BY <1>1, <1>2, <1>6 DEF TypeOK
  <2>2. \A g \in Handles : g # h => heap'[g] = heap[g] BY <1>1, <1>2 DEF TypeOK
  <2> QED BY <2>1, <2>2, <1>5
<1>7. Live' = Live \cup {h}
  BY <1>1, <1>2, <1>3, <1>4 DEF Live, TypeOK
<1>8. OwnedOnce'
  <2>1. \A g \in Live' : \E d \in Cells : cell'[d] = g
    <3>1. ASSUME NEW g \in Live PROVE \E d \in Cells : cell'[d] = g
      <4>1. PICK d \in Cells : cell[d] = g BY <1>2 DEF OwnedOnce
      <4>2. d # c BY <4>1 DEF Live
      <4> QED BY <4>1, <4>2, <1>6
    <3> QED BY <3>1, <1>7, <1>4
  <2>2. \A d, e \in Cells : cell'[d] \in Handles /\ cell'[d] = cell'[e] => d = e
    BY <1>2, <1>4, <1>5, <1>6 DEF OwnedOnce
  <2>3. ASSUME NEW d \in Cells, cell'[d] \in Handles
        PROVE  cell'[d] \in Live' /\ heap'[cell'[d]].type = CellType[d]
    <3>1. CASE d = c BY <3>1, <1>4, <1>7
    <3>2. CASE d # c
      <4>1. cell'[d] = cell[d] /\ heap'[cell[d]] = heap[cell[d]] BY <3>2, <2>3, <1>6
      <4>2. cell[d] \in Live /\ heap[cell[d]].type = CellType[d]
        BY <4>1, <2>3, <1>2 DEF OwnedOnce
      <4> QED BY <4>1, <4>2, <1>7
    <3> QED BY <3>1, <3>2
  <2> QED BY <2>1, <2>2, <2>3 DEF OwnedOnce
<1>9. ASSUME NEW u \in Threads, Running(u), NEW d \in call[u].in
      PROVE  cell'[d] \in Live' /\ heap'[cell'[d]].type = CellType[d]
  <2>1. d \in Cells BY <1>2, <1>9, RunningCall
  <2>2. cell[d] \in Live /\ heap[cell[d]].type = CellType[d]
    BY <1>9 DEF IInv, ReadsAreLive
  <2>3. d # c /\ cell[d] \in Handles BY <2>2 DEF Live
  <2> QED BY <2>1, <2>2, <2>3, <1>6, <1>7
<1> QED BY <1>3, <1>4, <1>6, <1>8, <1>9

\* A call begins: nothing moves yet.
LEMMA BeginStep ==
  ASSUME IInv, NEW t \in Threads, NEW k \in Calls,
         ~Running(t),
         UNCHANGED <<heap, cell>>,
         call' = [call EXCEPT ![t] = k],
         error' = [error EXCEPT ![t] = None],
         Progress(k),
         \A c \in k.in : cell[c] \in Live /\ heap[cell[c]].type = CellType[c],
         Range(k.out) \cap k.in = {},
         \A c \in k.in : c \notin Reserved,
         \A c \in Range(k.out) : c \notin Reserved \cup InUse
  PROVE  IInv'
<1>1. TypeOK /\ TypeOK' BY DEF IInv, TypeOK
<1>2. /\ call'[t] = k /\ error'[t] = None
      /\ \A u \in Threads : u # t => call'[u] = call[u] /\ error'[u] = error[u]
  BY <1>1 DEF TypeOK
<1>3. OwnedOnce' BY DEF IInv, OwnedOnce, Live
<1>4. ReadsAreLive'
  BY <1>2 DEF IInv, ReadsAreLive, Live, Running
<1>5. \A u \in Threads : Running(u) =>
        /\ \A c \in k.in : c \notin Range(call[u].out)
        /\ \A c \in Range(k.out) : c \notin Range(call[u].out) /\ c \notin call[u].in
  BY DEF Reserved, InUse
<1>6. Exclusive'
  BY <1>2, <1>5 DEF IInv, Exclusive, Running
<1>7. ASSUME NEW u \in Threads, Running(u)'
      PROVE  Progress(call[u])' /\ error'[u] = None
  <2>1. CASE u = t BY <2>1, <1>2 DEF Progress
  <2>2. CASE u # t
    <3>1. Running(u) /\ call'[u] = call[u] /\ error'[u] = error[u]
      BY <2>2, <1>2, <1>7 DEF Running
    <3>2. Progress(call[u]) /\ error[u] = None BY <3>1 DEF IInv
    <3> QED BY <3>1, <3>2 DEF Progress
  <2> QED BY <2>1, <2>2
<1> QED BY <1>1, <1>3, <1>4, <1>6, <1>7 DEF IInv

(***************************************************************************)
(* The actions.                                                            *)
(***************************************************************************)
LEMMA EnterArguments ==
  ASSUME IInv, NEW t \in Threads, NEW f \in Functions,
         NEW in \in CellSeqs(f.in), NEW arr \in Arrays(f.array),
         NEW out \in CellSeqs(OutTypes(f, Len(arr))),
         MayCall(t, in, arr, out)
  PROVE  LET k == [fn |-> f, in |-> Range(in) \cup Range(arr), out |-> out,
                   types |-> OutTypes(f, Len(arr)), next |-> 1]
         IN  /\ k \in Calls /\ Progress(k)
             /\ ~Running(t)
             /\ k.in \subseteq Cells
             /\ \A c \in k.in : cell[c] # Uninit /\ c \notin Reserved
             /\ Range(out) \subseteq Cells
             /\ \A c \in Range(out) :
                  cell[c] \notin Handles /\ c \notin Reserved \cup InUse /\ c \notin k.in
<1> DEFINE types == OutTypes(f, Len(arr))
           k == [fn |-> f, in |-> Range(in) \cup Range(arr), out |-> out,
                 types |-> types, next |-> 1]
<1>1. in \in Seq(Cells) BY SignatureType, CellSeqsType
<1>2. arr \in Seq(Cells) /\ Len(arr) \in Nat BY ArraysType, LenProperties
<1>3. types \in Seq(Types \cup {None}) BY <1>2, OutTypesType
<1> HIDE DEF types
<1>4. /\ out \in Seq(Cells) /\ Len(out) = Len(types)
      /\ \A i \in 1..Len(out) : out[i] \in Cells /\ CellType[out[i]] = types[i]
  BY <1>3, CellSeqsType DEF types
<1>5. Len(out) \in Nat /\ DOMAIN out = 1..Len(out) BY <1>4, LenProperties
<1>6. /\ Range(in) \subseteq Cells /\ Range(arr) \subseteq Cells /\ Range(out) \subseteq Cells
      /\ \A i \in 1..Len(out) : out[i] \in Range(out)
  BY <1>1, <1>2, <1>4, RangeOfCells
<1>7. k \in Calls BY <1>3, <1>4, <1>6 DEF Calls
<1>8. /\ ~Running(t)
      /\ \A c \in k.in : cell[c] # Uninit /\ c \notin Reserved
      /\ \A c \in Range(out) :
           cell[c] \notin Handles /\ c \notin Reserved \cup InUse /\ c \notin k.in
  BY DEF MayCall, Readable, Writable
<1>9. \A i, j \in 1..Len(out) : out[i] = out[j] => i = j
  BY <1>5 DEF MayCall, IsInjective
<1>10. Progress(k)
  BY <1>4, <1>5, <1>6, <1>8, <1>9 DEF Progress
<1> QED BY <1>6, <1>7, <1>8, <1>10 DEF types

LEMMA EnterKeeps ==
  ASSUME IInv, NEW t \in Threads, NEW f \in Functions,
         NEW hasBytes, NEW hasSlots,
         NEW in \in CellSeqs(f.in), NEW arr \in Arrays(f.array),
         NEW out \in CellSeqs(OutTypes(f, Len(arr))),
         Enter(t, f, in, arr, out, hasBytes, hasSlots)
  PROVE  IInv'
<1> DEFINE k == [fn |-> f, in |-> Range(in) \cup Range(arr), out |-> out,
                 types |-> OutTypes(f, Len(arr)), next |-> 1]
           bad == ArgumentError(f, in, arr, hasBytes, hasSlots)
<1>1. MayCall(t, in, arr, out) /\ heap' = heap BY DEF Enter
<1>2. /\ k \in Calls /\ Progress(k)
      /\ ~Running(t)
      /\ k.in \subseteq Cells
      /\ \A c \in k.in : cell[c] # Uninit /\ c \notin Reserved
      /\ Range(out) \subseteq Cells
      /\ \A c \in Range(out) :
           cell[c] \notin Handles /\ c \notin Reserved \cup InUse /\ c \notin k.in
  BY <1>1, EnterArguments
<1>3. TypeOK /\ OwnedOnce BY DEF IInv
<1>4. CASE bad
  <2>1. /\ set_error(t, "argument") /\ cell' = FailedCells(f, out) /\ call' = call
    BY <1>4 DEF Enter
  <2>2. /\ error' \in [Threads -> Errors \cup {None}]
        /\ \A u \in Threads : u # t => error'[u] = error[u]
    BY <2>1, <1>3 DEF set_error, TypeOK, Errors
  <2>3. /\ cell' \in [Cells -> Handles \cup {Null, Uninit}]
        /\ \A c \in Cells : cell'[c] # cell[c] => c \in Range(out) /\ cell'[c] = Null
    BY <2>1, <1>3 DEF FailedCells, TypeOK
  <2>4. \A u \in Threads : call'[u] # Idle => call'[u] = call[u] /\ error'[u] = error[u]
    BY <2>1, <2>2, <1>2 DEF Running
  <2>5. \A u \in Threads, c \in Range(out) : call'[u] # Idle => c \notin Range(call[u].out)
    BY <2>1, <1>2 DEF Reserved, Running
  <2>6. \A c \in Cells : cell'[c] # cell[c] =>
          /\ cell[c] \notin Handles /\ cell'[c] \notin Handles
          /\ \A u \in Threads : call'[u] # Idle => c \notin Range(call[u].out)
    BY <2>3, <2>5, <1>2, FfiAssumption
  <2>7. call' \in [Threads -> Calls \cup {Idle}] BY <2>1, <1>3 DEF TypeOK
  <2> QED BY <2>2, <2>3, <2>4, <2>6, <2>7, <1>1, BlankStep
<1>5. CASE ~bad
  <2>1. clear_error(t) /\ call' = [call EXCEPT ![t] = k] /\ cell' = cell
    BY <1>5 DEF Enter
  <2>2. \A c \in k.in : cell[c] # Null BY <1>5 DEF ArgumentError
  <2>3. \A c \in k.in : cell[c] \in Live /\ heap[cell[c]].type = CellType[c]
    BY <2>2, <1>2, <1>3 DEF TypeOK, OwnedOnce
  <2>4. Range(k.out) \cap k.in = {} /\ k.out = out BY <1>2
  <2> HIDE DEF k
  <2> QED BY <2>1, <2>3, <2>4, <1>1, <1>2, BeginStep DEF clear_error
<1> QED BY <1>4, <1>5

LEMMA LibraryErrorKeeps ==
  ASSUME IInv, NEW t \in Threads, LibraryError(t)
  PROVE  IInv'
<1> DEFINE k == call[t]
<1>1. /\ Running(t) /\ k.next = 1 /\ set_error(t, "library")
      /\ cell' = FailedCells(k.fn, k.out)
      /\ call' = [call EXCEPT ![t] = Idle] /\ heap' = heap
  BY DEF LibraryError
<1>2. TypeOK /\ Progress(k) BY <1>1 DEF IInv
<1>3. \A c \in Range(k.out) : \E i \in 1..Len(k.out) : k.out[i] = c
  BY <1>1, <1>2, RunningCall
<1>4. \A c \in Range(k.out) : cell[c] \notin Handles
  <2> SUFFICES ASSUME NEW i \in 1..Len(k.out) PROVE cell[k.out[i]] \notin Handles BY <1>3
  <2> QED BY <1>1, <1>2, RunningCall DEF Progress
<1>5. /\ cell' \in [Cells -> Handles \cup {Null, Uninit}]
      /\ \A c \in Cells : cell'[c] # cell[c] => c \in Range(k.out) /\ cell'[c] = Null
  BY <1>1, <1>2 DEF FailedCells, TypeOK
<1>6. /\ error' \in [Threads -> Errors \cup {None}]
      /\ call' \in [Threads -> Calls \cup {Idle}]
      /\ \A u \in Threads : call'[u] # Idle =>
           u # t /\ call'[u] = call[u] /\ error'[u] = error[u]
  BY <1>1, <1>2 DEF set_error, TypeOK, Errors
<1>7. \A u \in Threads : call'[u] # Idle => Range(k.out) \cap Range(call[u].out) = {}
  BY <1>1, <1>6 DEF IInv, Exclusive, Running
<1>8. \A c \in Cells : cell'[c] # cell[c] =>
        /\ cell[c] \notin Handles /\ cell'[c] \notin Handles
        /\ \A u \in Threads : call'[u] # Idle => c \notin Range(call[u].out)
  BY <1>4, <1>5, <1>7, FfiAssumption
<1> QED BY <1>1, <1>5, <1>6, <1>8, BlankStep

LEMMA WriteSlotKeeps ==
  ASSUME IInv, NEW t \in Threads, WriteSlot(t)
  PROVE  IInv'
<1> DEFINE k == call[t]
           i == k.next
           c == k.out[i]
           object == Object(k.types[i], None)
<1>1. /\ Running(t) /\ i <= Len(k.out)
      /\ HandOut(c, object)
      /\ call' = [call EXCEPT ![t].next = @ + 1] /\ error' = error
  BY DEF WriteSlot
<1>2. TypeOK /\ Progress(k) BY <1>1 DEF IInv
<1>3. k \in Calls /\ i \in 1..Len(k.out) /\ k.out \in Seq(Cells) /\ Len(k.out) \in Nat
  BY <1>1, <1>2, RunningCall DEF Progress
<1>4. c \in Cells /\ CellType[c] = k.types[i] /\ cell[c] \notin Handles
  BY <1>2, <1>3 DEF Progress
<1>5. object \in Objects /\ object.type = CellType[c]
  BY <1>4, ObjectType, FfiAssumption
<1> HIDE DEF object
<1>6. /\ heap' \in [Handles -> Objects \cup {Free}]
      /\ cell' \in [Cells -> Handles \cup {Null, Uninit}]
      /\ OwnedOnce'
      /\ cell'[c] \in Handles /\ heap'[cell'[c]] = object
      /\ \A d \in Cells : d # c =>
           /\ cell'[d] = cell[d]
           /\ cell[d] \in Handles => heap'[cell[d]] = heap[cell[d]]
      /\ \A u \in Threads : Running(u) =>
           \A d \in call[u].in : cell'[d] \in Live' /\ heap'[cell'[d]].type = CellType[d]
  BY <1>1, <1>4, <1>5, HandOutStep
<1>7. /\ call'[t] = [k EXCEPT !.next = i + 1]
      /\ \A u \in Threads : u # t => call'[u] = call[u]
  BY <1>1, <1>2 DEF TypeOK
<1>8. /\ call'[t] \in Calls /\ call'[t].in = k.in /\ call'[t].out = k.out
      /\ call'[t].types = k.types /\ call'[t].next = i + 1
  BY <1>3, <1>7 DEF Calls
<1>9. TypeOK' BY <1>1, <1>2, <1>6, <1>7, <1>8 DEF TypeOK
<1>10. \A u \in Threads : Running(u)' =>
         Running(u) /\ call'[u].in = call[u].in /\ call'[u].out = call[u].out
  BY <1>1, <1>7, <1>8 DEF Running
<1>11. ReadsAreLive' BY <1>6, <1>10 DEF ReadsAreLive
<1>12. Exclusive' BY <1>10 DEF IInv, Exclusive
<1>13. ASSUME NEW u \in Threads, Running(u)' PROVE Progress(call[u])' /\ error'[u] = None
  <2>1. Running(u) /\ error'[u] = None BY <1>1, <1>10, <1>13 DEF IInv
  <2>2. Progress(call[u]) BY <2>1 DEF IInv
  <2>3. CASE u = t
    <3>1. \A j \in 1..Len(k.out) : j # i => k.out[j] # c /\ k.out[j] \in Cells
      BY <1>2, <1>3 DEF Progress
    <3>2. \A j \in 1..Len(k.out) : j # i =>
            /\ cell'[k.out[j]] = cell[k.out[j]]
            /\ cell[k.out[j]] \in Handles => heap'[cell[k.out[j]]] = heap[cell[k.out[j]]]
      BY <1>6, <3>1
    <3>3. /\ i + 1 \in 1..(Len(k.out) + 1)
          /\ \A j, l \in 1..Len(k.out) : k.out[j] = k.out[l] => j = l
      BY <1>2, <1>3 DEF Progress
    <3>4. ASSUME NEW j \in 1..Len(k.out)
          PROVE  /\ CellType[k.out[j]] = k.types[j]
                 /\ j < i + 1 => /\ cell'[k.out[j]] \in Handles
                                 /\ heap'[cell'[k.out[j]]] = Object(k.types[j], None)
                 /\ j >= i + 1 => cell'[k.out[j]] \notin Handles
      <4>1. CASE j = i BY <4>1, <1>3, <1>4, <1>6 DEF object
      <4>2. CASE j # i
        BY <4>2, <3>2, <1>2, <1>3 DEF Progress
      <4> QED BY <4>1, <4>2
    <3>5. Progress(call[t])' BY <1>8, <3>3, <3>4 DEF Progress
    <3> QED BY <2>1, <2>3, <3>5
  <2>4. CASE u # t
    <3>1. c \in Range(k.out) BY <1>1, <1>2, <1>3, RunningCall
    <3>2. \A j \in 1..Len(call[u].out) :
            call[u].out[j] \in Cells /\ call[u].out[j] \in Range(call[u].out)
      BY <1>2, <2>1, RunningCall
    <3>3. Range(k.out) \cap Range(call[u].out) = {}
      BY <1>1, <2>1, <2>4 DEF IInv, Exclusive
    <3>4. \A j \in 1..Len(call[u].out) :
            /\ cell'[call[u].out[j]] = cell[call[u].out[j]]
            /\ cell[call[u].out[j]] \in Handles =>
                 heap'[cell[call[u].out[j]]] = heap[cell[call[u].out[j]]]
      BY <1>6, <3>1, <3>2, <3>3
    <3>5. call'[u] = call[u] BY <1>7, <2>4
    <3>6. Progress(call[u])' BY <2>2, <3>4, <3>5, ProgressKept
    <3> QED BY <2>1, <3>6
  <2> QED BY <2>3, <2>4
<1> QED BY <1>6, <1>9, <1>11, <1>12, <1>13 DEF IInv

LEMMA ReturnKeeps ==
  ASSUME IInv, NEW t \in Threads, Return(t)
  PROVE  IInv'
<1>1. TypeOK /\ UNCHANGED <<heap, cell, error>> /\ call' = [call EXCEPT ![t] = Idle]
  BY DEF Return, IInv
<1>2. \A u \in Threads : call'[u] # Idle => call'[u] = call[u] BY <1>1 DEF TypeOK
<1>3. call' \in [Threads -> Calls \cup {Idle}] BY <1>1 DEF TypeOK
<1> QED BY <1>1, <1>2, <1>3, BlankStep DEF TypeOK

LEMMA LastErrorMessageKeeps ==
  ASSUME IInv, NEW t \in Threads, NEW c \in Cells, LastErrorMessage(t, c)
  PROVE  IInv'
<1>1. TypeOK /\ UNCHANGED <<error, call>> /\ CellType[c] = "c_char" /\ Writable(c)
  BY DEF LastErrorMessage, IInv
<1>2. \A u \in Threads : Running(u) => c \notin Range(call[u].out)
  BY <1>1 DEF Writable, Reserved
<1>3. CASE error[t] = None
  <2>1. cell' = [cell EXCEPT ![c] = Null] /\ heap' = heap BY <1>3 DEF LastErrorMessage
  <2>2. /\ cell' \in [Cells -> Handles \cup {Null, Uninit}]
        /\ \A d \in Cells : cell'[d] # cell[d] => d = c /\ cell'[d] = Null
    BY <1>1, <2>1 DEF TypeOK
  <2>3. \A d \in Cells : cell'[d] # cell[d] =>
          /\ cell[d] \notin Handles /\ cell'[d] \notin Handles
          /\ \A u \in Threads : call'[u] # Idle => d \notin Range(call[u].out)
    BY <1>1, <1>2, <2>2, FfiAssumption DEF Writable, Running
  <2> QED BY <1>1, <2>1, <2>2, <2>3, BlankStep DEF TypeOK
<1>4. CASE error[t] # None
  <2> DEFINE object == Object("c_char", error[t])
  <2>1. HandOut(c, object) BY <1>4 DEF LastErrorMessage
  <2>2. object \in Objects /\ object.type = CellType[c]
    BY <1>1, ObjectType DEF TypeOK, Types
  <2>3. cell[c] \notin Handles BY <1>1 DEF Writable
  <2> HIDE DEF object
  <2>4. /\ heap' \in [Handles -> Objects \cup {Free}]
        /\ cell' \in [Cells -> Handles \cup {Null, Uninit}]
        /\ OwnedOnce'
        /\ \A d \in Cells : d # c =>
             /\ cell'[d] = cell[d]
             /\ cell[d] \in Handles => heap'[cell[d]] = heap[cell[d]]
        /\ \A u \in Threads : Running(u) =>
             \A d \in call[u].in : cell'[d] \in Live' /\ heap'[cell'[d]].type = CellType[d]
    BY <2>1, <2>2, <2>3, HandOutStep
  <2>5. TypeOK' BY <1>1, <2>4 DEF TypeOK
  <2>6. ReadsAreLive' BY <1>1, <2>4 DEF ReadsAreLive, Running
  <2>7. Exclusive' BY <1>1 DEF IInv, Exclusive, Running
  <2>8. ASSUME NEW u \in Threads, Running(u)' PROVE Progress(call[u])' /\ error'[u] = None
    <3>1. Running(u) /\ call'[u] = call[u] /\ error'[u] = error[u]
      BY <1>1, <2>8 DEF Running
    <3>2. Progress(call[u]) /\ error[u] = None BY <3>1 DEF IInv
    <3>3. \A j \in 1..Len(call[u].out) :
            call[u].out[j] \in Cells /\ call[u].out[j] # c
      BY <1>1, <1>2, <3>1, RunningCall
    <3>4. \A j \in 1..Len(call[u].out) :
            /\ cell'[call[u].out[j]] = cell[call[u].out[j]]
            /\ cell[call[u].out[j]] \in Handles =>
                 heap'[cell[call[u].out[j]]] = heap[cell[call[u].out[j]]]
      BY <2>4, <3>3
    <3> QED BY <3>1, <3>2, <3>4, ProgressKept
  <2> QED BY <2>4, <2>5, <2>6, <2>7, <2>8 DEF IInv
<1> QED BY <1>3, <1>4

LEMMA DestroyKeeps ==
  ASSUME IInv, NEW t \in Threads, NEW c \in Cells, Destroy(t, c)
  PROVE  IInv'
<1> DEFINE h == cell[c]
<1>1. /\ TypeOK /\ OwnedOnce /\ UNCHANGED <<error, call>>
      /\ c \notin Reserved /\ c \notin InUse /\ h # Null /\ h # Uninit
      /\ heap' = [heap EXCEPT ![h] = Free] /\ cell' = [cell EXCEPT ![c] = Null]
  BY DEF Destroy, Readable, IInv
<1>2. h \in Handles /\ h \in Live BY <1>1 DEF TypeOK, OwnedOnce
<1>3. \A d \in Cells : d # c => cell[d] # h BY <1>1, <1>2 DEF OwnedOnce
<1>4. cell'[c] = Null /\ \A d \in Cells : d # c => cell'[d] = cell[d]
  BY <1>1 DEF TypeOK
<1>5. heap'[h] = Free /\ \A g \in Handles : g # h => heap'[g] = heap[g]
  BY <1>1, <1>2 DEF TypeOK
<1>6. TypeOK' BY <1>1, <1>2 DEF TypeOK
<1>7. Live' = Live \ {h} BY <1>5 DEF Live
<1>8. OwnedOnce'
  <2>1. \A g \in Live' : \E d \in Cells : cell'[d] = g
    BY <1>1, <1>4, <1>7 DEF OwnedOnce
  <2>2. \A d, e \in Cells : cell'[d] \in Handles /\ cell'[d] = cell'[e] => d = e
    BY <1>1, <1>4, FfiAssumption DEF OwnedOnce
  <2>3. ASSUME NEW d \in Cells, cell'[d] \in Handles
        PROVE  cell'[d] \in Live' /\ heap'[cell'[d]].type = CellType[d]
    <3>1. d # c /\ cell'[d] = cell[d] BY <2>3, <1>4, FfiAssumption
    <3>2. cell[d] \in Live /\ heap[cell[d]].type = CellType[d]
      BY <3>1, <2>3, <1>1 DEF OwnedOnce
    <3> QED BY <3>1, <3>2, <2>3, <1>3, <1>5, <1>7
  <2> QED BY <2>1, <2>2, <2>3 DEF OwnedOnce
<1>9. ReadsAreLive'
  <2> SUFFICES ASSUME NEW u \in Threads, Running(u), NEW d \in call[u].in
               PROVE  cell'[d] \in Live' /\ heap'[cell'[d]].type = CellType[d]
    BY <1>1 DEF ReadsAreLive, Running
  <2>1. d # c BY <1>1 DEF InUse
  <2>2. d \in Cells BY <1>1, RunningCall
  <2>3. cell[d] \in Live /\ heap[cell[d]].type = CellType[d] BY DEF IInv, ReadsAreLive
  <2>4. cell[d] \in Handles BY <2>3 DEF Live
  <2> QED BY <2>1, <2>2, <2>3, <2>4, <1>3, <1>4, <1>5, <1>7
<1>10. Exclusive' BY <1>1 DEF IInv, Exclusive, Running
<1>11. ASSUME NEW u \in Threads, Running(u)' PROVE Progress(call[u])' /\ error'[u] = None
  <2>1. Running(u) /\ call'[u] = call[u] /\ error'[u] = error[u]
    BY <1>1, <1>11 DEF Running
  <2>2. Progress(call[u]) /\ error[u] = None BY <2>1 DEF IInv
  <2>3. \A j \in 1..Len(call[u].out) :
          call[u].out[j] \in Cells /\ call[u].out[j] # c
    BY <1>1, <2>1, RunningCall DEF Reserved
  <2>4. \A j \in 1..Len(call[u].out) :
          /\ cell'[call[u].out[j]] = cell[call[u].out[j]]
          /\ cell[call[u].out[j]] \in Handles =>
               heap'[cell[call[u].out[j]]] = heap[cell[call[u].out[j]]]
    BY <1>3, <1>4, <1>5, <2>3
  <2> QED BY <2>1, <2>2, <2>4, ProgressKept
<1> QED BY <1>6, <1>8, <1>9, <1>10, <1>11 DEF IInv

LEMMA InitHolds == Init => IInv
<1> SUFFICES ASSUME Init PROVE IInv OBVIOUS
<1>1. TypeOK BY DEF Init, TypeOK
<1>2. \A c \in Cells : cell[c] \notin Handles BY FfiAssumption DEF Init
<1>3. Live = {} BY DEF Init, Live
<1>4. OwnedOnce BY <1>2, <1>3 DEF OwnedOnce
<1>5. \A t \in Threads : ~Running(t) BY DEF Init, Running
<1> QED BY <1>1, <1>4, <1>5 DEF IInv, ReadsAreLive, Exclusive

LEMMA NextKeeps == IInv /\ [Next]_vars => IInv'
<1> SUFFICES ASSUME IInv, [Next]_vars PROVE IInv' OBVIOUS
<1>1. CASE UNCHANGED vars
  <2>1. heap' = heap /\ cell' = cell /\ error' = error /\ call' = call BY <1>1 DEF vars
  <2> QED BY <2>1, BlankStep DEF IInv, TypeOK
<1>2. CASE Next
  <2>1. PICK t \in Threads :
          \/ \E f \in Functions, hasBytes, hasSlots \in BOOLEAN :
               \E in \in CellSeqs(f.in), arr \in Arrays(f.array) :
                 \E out \in CellSeqs(OutTypes(f, Len(arr))) :
                   Enter(t, f, in, arr, out, hasBytes, hasSlots)
          \/ LibraryError(t) \/ WriteSlot(t) \/ Return(t)
          \/ \E c \in Cells : LastErrorMessage(t, c)
          \/ \E c \in Cells : Destroy(t, c)
    BY <1>2 DEF Next
  <2> QED
    BY <2>1, EnterKeeps, LibraryErrorKeeps, WriteSlotKeeps, ReturnKeeps,
       LastErrorMessageKeeps, DestroyKeeps
<1> QED BY <1>1, <1>2

(* The invariant behind the others: a running call owns the slots it is    *)
(* given, has filled the first of them, and reads what nobody else writes. *)
THEOREM InductiveInvariant == Spec => []IInv
BY InitHolds, NextKeeps, PTL DEF Spec

(* No sequence of calls of any number of threads, successful or failing,   *)
(* loses an object, hands out one twice, or leaves a handle to one that is *)
(* gone: C callers can destroy each object once.                           *)
THEOREM ObjectsOwnedOnce == Spec => []OwnedOnce
<1>1. IInv => OwnedOnce BY DEF IInv
<1> QED BY <1>1, InductiveInvariant, PTL

(* No call works on NULL or on an object that was destroyed: what the      *)
(* functions' tests for NULL and the rule for callers buy together.        *)
THEOREM ArgumentsStayLive == Spec => []ReadsAreLive
<1>1. IInv => ReadsAreLive BY DEF IInv
<1> QED BY <1>1, InductiveInvariant, PTL

(***************************************************************************)
(* Every step is a step of the contract, or none.                          *)
(***************************************************************************)

\* What callers own is a matter of each cell.
LEMMA HoldsEqual ==
  ASSUME \A c \in Cells :
           (IF cell'[c] \in Handles /\ c \notin Reserved' THEN heap'[cell'[c]] ELSE None)
             = Holds[c]
  PROVE  Holds' = Holds
BY DEF Holds

LEMMA BusyEnds ==
  ASSUME TypeOK, NEW t \in Threads, call' = [call EXCEPT ![t] = Idle]
  PROVE  /\ Busy' = [Busy EXCEPT ![t] = Idle]
         /\ Reserved' = UNION {Range(call[u].out) : u \in {v \in Threads \ {t} : Running(v)}}
<1>1. call'[t] = Idle /\ \A u \in Threads : u # t => call'[u] = call[u] BY DEF TypeOK
<1>2. \A u \in Threads : Running(u)' <=> u # t /\ Running(u) BY <1>1 DEF Running
<1>3. Busy' = [Busy EXCEPT ![t] = Idle]
  <2>1. \A u \in Threads :
          (IF Running(u)' THEN Range(call'[u].out) ELSE Idle) = IF u = t THEN Idle ELSE Busy[u]
    BY <1>1, <1>2 DEF Busy
  <2>2. Busy' = [u \in Threads |-> IF u = t THEN Idle ELSE Busy[u]]
    BY <2>1 DEF Busy
  <2> QED BY <2>2 DEF Busy
<1>4. {u \in Threads : Running(u)}' = {v \in Threads \ {t} : Running(v)} BY <1>2
<1>5. \A u \in {v \in Threads \ {t} : Running(v)} : call'[u].out = call[u].out BY <1>1
<1> QED BY <1>3, <1>4, <1>5 DEF Reserved

LEMMA BusyWhenRunning ==
  ASSUME IInv, NEW t \in Threads
  PROVE  /\ Running(t) => Busy[t] = Range(call[t].out) /\ Busy[t] \subseteq Cells /\ Busy[t] # Idle
         /\ ~Running(t) => Busy[t] = Idle
<1>1. TypeOK BY DEF IInv
<1> QED BY <1>1, RunningCall, IdleAssumption DEF Busy

LEMMA InitMaps == Init => Contract!Init
<1> SUFFICES ASSUME Init PROVE Contract!Init OBVIOUS
<1>1. \A c \in Cells : cell[c] \notin Handles BY FfiAssumption DEF Init
<1>2. Holds = [c \in Cells |-> None] BY <1>1 DEF Holds
<1>3. Busy = [t \in Threads |-> Idle] BY DEF Init, Busy, Running
<1> QED BY <1>2, <1>3 DEF Init, Contract!Init

LEMMA EnterMaps ==
  ASSUME IInv, NEW t \in Threads, NEW f \in Functions,
         NEW hasBytes, NEW hasSlots,
         NEW in \in CellSeqs(f.in), NEW arr \in Arrays(f.array),
         NEW out \in CellSeqs(OutTypes(f, Len(arr))),
         Enter(t, f, in, arr, out, hasBytes, hasSlots)
  PROVE  Contract!Fail(t) \/ Contract!Begin(t)
<1> DEFINE k == [fn |-> f, in |-> Range(in) \cup Range(arr), out |-> out,
                 types |-> OutTypes(f, Len(arr)), next |-> 1]
           bad == ArgumentError(f, in, arr, hasBytes, hasSlots)
<1>1. MayCall(t, in, arr, out) /\ heap' = heap BY DEF Enter
<1>2. /\ k \in Calls
      /\ ~Running(t)
      /\ Range(out) \subseteq Cells
      /\ \A c \in Range(out) : cell[c] \notin Handles /\ c \notin Reserved \cup InUse
  BY <1>1, EnterArguments
<1>3. TypeOK BY DEF IInv
<1>4. Busy[t] = Idle BY <1>2, BusyWhenRunning
<1>5. CASE bad
  <2>1. set_error(t, "argument") /\ cell' = FailedCells(f, out) /\ call' = call
    BY <1>5 DEF Enter
  <2>2. Reserved' = Reserved BY <2>1 DEF Reserved, Running
  <2>3. Busy' = Busy BY <2>1 DEF Busy, Running
  <2>4. Busy' = [Busy EXCEPT ![t] = Idle] BY <2>3, <1>4 DEF Busy
  <2>5. \A c \in Cells :
          \/ cell'[c] = cell[c]
          \/ cell[c] \notin Handles /\ cell'[c] \notin Handles
    BY <2>1, <1>2, <1>3, FfiAssumption DEF FailedCells, TypeOK
  <2>6. Holds' = Holds BY <2>2, <2>5, <1>1, HoldsEqual DEF Holds
  <2>7. error' = [error EXCEPT ![t] = "argument"] /\ "argument" \in Errors
    BY <2>1 DEF set_error, Errors
  <2> QED BY <2>4, <2>6, <2>7 DEF Contract!Fail
<1>6. CASE ~bad
  <2>1. clear_error(t) /\ call' = [call EXCEPT ![t] = k] /\ cell' = cell
    BY <1>6 DEF Enter
  <2>2. /\ call'[t] = k /\ k.out = out /\ k # Idle
        /\ \A u \in Threads : u # t => call'[u] = call[u]
    BY <2>1, <1>2, <1>3, IdleAssumption DEF TypeOK
  <2> HIDE DEF k
  <2>3. \A u \in Threads : Running(u)' <=> u = t \/ Running(u) BY <2>2 DEF Running
  <2>4. Busy' = [Busy EXCEPT ![t] = Range(out)] BY <2>2, <2>3 DEF Busy
  <2>5. Reserved' = Reserved \cup Range(out)
    <3>1. \A c : c \in Reserved <=> \E u \in Threads : Running(u) /\ c \in Range(call[u].out)
      BY DEF Reserved
    <3>2. \A c : c \in Reserved' <=>
                 \E u \in Threads : Running(u)' /\ c \in Range(call'[u].out)
      BY DEF Reserved
    <3> QED BY <3>1, <3>2, <2>2, <2>3, <1>2
  <2>6. \A c \in Range(out) : Holds[c] = None BY <1>2 DEF Holds
  <2>7. Holds' = Holds BY <2>1, <2>5, <1>1, <1>2, HoldsEqual DEF Holds
  <2>8. \A u \in Threads : Busy[u] # Idle => Busy[u] \cap Range(out) = {}
    <3> SUFFICES ASSUME NEW u \in Threads, Busy[u] # Idle PROVE Busy[u] \cap Range(out) = {}
      OBVIOUS
    <3>1. Running(u) /\ Busy[u] = Range(call[u].out) BY BusyWhenRunning
    <3> QED BY <3>1, <1>2 DEF Reserved
  <2>9. error' = [error EXCEPT ![t] = None] BY <2>1 DEF clear_error
  <2> QED BY <2>4, <2>6, <2>7, <2>8, <2>9, <1>2, <1>4 DEF Contract!Begin
<1> QED BY <1>5, <1>6

LEMMA LibraryErrorMaps ==
  ASSUME IInv, NEW t \in Threads, LibraryError(t)
  PROVE  Contract!Fail(t)
<1> DEFINE k == call[t]
<1>1. /\ Running(t) /\ k.next = 1 /\ error' = [error EXCEPT ![t] = "library"]
      /\ cell' = FailedCells(k.fn, k.out)
      /\ call' = [call EXCEPT ![t] = Idle] /\ heap' = heap
  BY DEF LibraryError, set_error
<1>2. TypeOK /\ Progress(k) BY <1>1 DEF IInv
<1>3. \A c \in Range(k.out) : cell[c] \notin Handles
  <2>1. \A c \in Range(k.out) : \E i \in 1..Len(k.out) : k.out[i] = c
    BY <1>1, <1>2, RunningCall
  <2>2. \A i \in 1..Len(k.out) : cell[k.out[i]] \notin Handles
    BY <1>1, <1>2, RunningCall DEF Progress
  <2> QED BY <2>1, <2>2
<1>4. \A c \in Cells : /\ cell'[c] = cell[c] \/ (c \in Range(k.out) /\ cell'[c] = Null)
                       /\ c \in Range(k.out) => cell'[c] \notin Handles
  BY <1>1, <1>2, <1>3, FfiAssumption DEF FailedCells, TypeOK
<1>5. /\ Busy' = [Busy EXCEPT ![t] = Idle]
      /\ Reserved' = UNION {Range(call[u].out) : u \in {v \in Threads \ {t} : Running(v)}}
  BY <1>1, <1>2, BusyEnds
<1>6. \A c : c \in Reserved <=> c \in Reserved' \/ c \in Range(k.out)
  BY <1>1, <1>5 DEF Reserved
<1>7. Holds' = Holds
  <2> SUFFICES ASSUME NEW c \in Cells
               PROVE  (IF cell'[c] \in Handles /\ c \notin Reserved' THEN heap'[cell'[c]] ELSE None)
                        = Holds[c]
    BY HoldsEqual
  <2>1. CASE c \in Range(k.out) BY <2>1, <1>3, <1>4 DEF Holds
  <2>2. CASE c \notin Range(k.out) BY <2>2, <1>1, <1>4, <1>6 DEF Holds
  <2> QED BY <2>1, <2>2
<1> QED BY <1>1, <1>5, <1>7 DEF Contract!Fail, Errors

LEMMA WriteSlotMaps ==
  ASSUME IInv, NEW t \in Threads, WriteSlot(t)
  PROVE  UNCHANGED Contract!vars
<1> DEFINE k == call[t]
           i == k.next
           c == k.out[i]
           object == Object(k.types[i], None)
<1>1. /\ Running(t) /\ i <= Len(k.out) /\ HandOut(c, object)
      /\ call' = [call EXCEPT ![t].next = @ + 1] /\ error' = error
  BY DEF WriteSlot
<1>2. TypeOK /\ Progress(k) BY <1>1 DEF IInv
<1>3. k \in Calls /\ i \in 1..Len(k.out) BY <1>1, <1>2, RunningCall DEF Progress
<1>4. c \in Cells /\ c \in Range(k.out) /\ CellType[c] = k.types[i] /\ cell[c] \notin Handles
  BY <1>1, <1>2, <1>3, RunningCall DEF Progress
<1>5. object \in Objects /\ object.type = CellType[c]
  BY <1>4, ObjectType, FfiAssumption
<1> HIDE DEF object
<1>6. \A d \in Cells : d # c =>
        /\ cell'[d] = cell[d]
        /\ cell[d] \in Handles => heap'[cell[d]] = heap[cell[d]]
  BY <1>1, <1>4, <1>5, HandOutStep
<1>7. \A u \in Threads : (Running(u)' <=> Running(u)) /\ call'[u].out = call[u].out
  <2>1. /\ call'[t] = [k EXCEPT !.next = i + 1]
        /\ \A u \in Threads : u # t => call'[u] = call[u]
    BY <1>1, <1>2 DEF TypeOK
  <2>2. call'[t] \in Calls /\ call'[t].out = k.out BY <2>1, <1>3 DEF Calls
  <2> QED BY <2>1, <2>2, <1>1, IdleAssumption DEF Running
<1>8. Busy' = Busy BY <1>7 DEF Busy
<1>9. Reserved' = Reserved
  <2>1. \A d : d \in Reserved <=> \E u \in Threads : Running(u) /\ d \in Range(call[u].out)
    BY DEF Reserved
  <2>2. \A d : d \in Reserved' <=> \E u \in Threads : Running(u)' /\ d \in Range(call'[u].out)
    BY DEF Reserved
  <2> QED BY <2>1, <2>2, <1>7
<1>10. Holds' = Holds
  <2>1. c \in Reserved BY <1>1, <1>4 DEF Reserved
  <2> QED BY <2>1, <1>6, <1>9, HoldsEqual DEF Holds
<1> QED BY <1>1, <1>8, <1>10 DEF Contract!vars

LEMMA ReturnMaps ==
  ASSUME IInv, NEW t \in Threads, Return(t)
  PROVE  Contract!Succeed(t)
<1> DEFINE k == call[t]
<1>1. /\ Running(t) /\ k.next = Len(k.out) + 1
      /\ UNCHANGED <<heap, cell, error>> /\ call' = [call EXCEPT ![t] = Idle]
  BY DEF Return
<1>2. TypeOK /\ Progress(k) /\ error[t] = None /\ Exclusive BY <1>1 DEF IInv
<1>3. Busy[t] = Range(k.out) /\ Busy[t] # Idle BY <1>1, BusyWhenRunning
<1>4. /\ Busy' = [Busy EXCEPT ![t] = Idle]
      /\ Reserved' = UNION {Range(call[u].out) : u \in {v \in Threads \ {t} : Running(v)}}
  BY <1>1, <1>2, BusyEnds
<1>5. \A c : c \in Reserved <=> c \in Reserved' \/ c \in Range(k.out)
  BY <1>1, <1>4 DEF Reserved
<1>6. \A c \in Range(k.out) : c \notin Reserved'
  BY <1>1, <1>2, <1>4 DEF Exclusive
<1>7. \A c \in Range(k.out) :
        cell[c] \in Handles /\ heap[cell[c]] = [type |-> CellType[c], text |-> None]
  <2>1. \A c \in Range(k.out) : \E i \in 1..Len(k.out) : k.out[i] = c
    BY <1>1, <1>2, RunningCall
  <2>2. ASSUME NEW i \in 1..Len(k.out)
        PROVE  LET c == k.out[i]
               IN  cell[c] \in Handles /\ heap[cell[c]] = [type |-> CellType[c], text |-> None]
    <3>1. i < k.next BY <1>1, <1>2, RunningCall
    <3> QED BY <3>1, <1>2 DEF Progress, Object
  <2> QED BY <2>1, <2>2
<1>8. Holds' = [c \in Cells |-> IF c \in Busy[t] THEN [type |-> CellType[c], text |-> None]
                              ELSE Holds[c]]
  <2>1. ASSUME NEW c \in Cells
        PROVE  (IF cell'[c] \in Handles /\ c \notin Reserved' THEN heap'[cell'[c]] ELSE None)
                 = IF c \in Busy[t] THEN [type |-> CellType[c], text |-> None] ELSE Holds[c]
    <3>1. CASE c \in Range(k.out) BY <3>1, <1>1, <1>3, <1>6, <1>7
    <3>2. CASE c \notin Range(k.out) BY <3>2, <1>1, <1>3, <1>5 DEF Holds
    <3> QED BY <3>1, <3>2
  <2> QED BY <2>1 DEF Holds
<1> QED BY <1>1, <1>2, <1>3, <1>4, <1>8 DEF Contract!Succeed

LEMMA LastErrorMessageMaps ==
  ASSUME IInv, NEW t \in Threads, NEW c \in Cells, LastErrorMessage(t, c)
  PROVE  Contract!Message(t) \/ UNCHANGED Contract!vars
<1>1. /\ TypeOK /\ ~Running(t) /\ UNCHANGED <<error, call>>
      /\ CellType[c] = "c_char" /\ cell[c] \notin Handles /\ c \notin Reserved
  BY DEF LastErrorMessage, Writable, IInv
<1>2. Reserved' = Reserved /\ Busy' = Busy BY <1>1 DEF Reserved, Busy, Running
<1>3. Holds[c] = None BY <1>1 DEF Holds
<1>4. CASE error[t] = None
  <2>1. cell' = [cell EXCEPT ![c] = Null] /\ heap' = heap BY <1>4 DEF LastErrorMessage
  <2>2. cell'[c] = Null /\ \A d \in Cells : d # c => cell'[d] = cell[d]
    BY <2>1, <1>1 DEF TypeOK
  <2>3. Holds' = Holds BY <2>1, <2>2, <1>2, <1>3, FfiAssumption, HoldsEqual DEF Holds
  <2> QED BY <2>3, <1>1, <1>2 DEF Contract!vars
<1>5. CASE error[t] # None
  <2> DEFINE object == Object("c_char", error[t])
  <2>1. HandOut(c, object) BY <1>5 DEF LastErrorMessage
  <2>2. object \in Objects /\ object.type = CellType[c]
    BY <1>1, ObjectType DEF TypeOK, Types
  <2> HIDE DEF object
  <2>3. /\ cell'[c] \in Handles /\ heap'[cell'[c]] = object
        /\ \A d \in Cells : d # c =>
             /\ cell'[d] = cell[d]
             /\ cell[d] \in Handles => heap'[cell[d]] = heap[cell[d]]
    BY <2>1, <2>2, <1>1, HandOutStep
  <2>4. Holds' = [Holds EXCEPT ![c] = object] BY <2>3, <1>1, <1>2 DEF Holds
  <2>5. object = [type |-> "c_char", text |-> error[t]] BY DEF object, Object
  <2>6. Busy[t] = Idle BY <1>1, BusyWhenRunning
  <2> QED BY <2>4, <2>5, <2>6, <1>1, <1>2, <1>3, <1>5 DEF Contract!Message
<1> QED BY <1>4, <1>5

LEMMA DestroyMaps ==
  ASSUME IInv, NEW t \in Threads, NEW c \in Cells, Destroy(t, c)
  PROVE  Contract!Destroy(t)
<1> DEFINE h == cell[c]
<1>1. /\ TypeOK /\ OwnedOnce /\ ~Running(t) /\ UNCHANGED <<error, call>>
      /\ c \notin Reserved /\ h # Null /\ h # Uninit
      /\ heap' = [heap EXCEPT ![h] = Free] /\ cell' = [cell EXCEPT ![c] = Null]
  BY DEF Destroy, Readable, IInv
<1>2. h \in Handles /\ h \in Live BY <1>1 DEF TypeOK, OwnedOnce
<1>3. \A d \in Cells : d # c => cell[d] # h /\ cell'[d] = cell[d]
  BY <1>1, <1>2 DEF TypeOK, OwnedOnce
<1>4. \A g \in Handles : g # h => heap'[g] = heap[g] BY <1>1 DEF TypeOK
<1>5. cell'[c] \notin Handles BY <1>1, FfiAssumption DEF TypeOK
<1>6. Reserved' = Reserved /\ Busy' = Busy BY <1>1 DEF Reserved, Busy, Running
<1>7. Holds[c] # None BY <1>1, <1>2, AddressType DEF Holds
<1>8. Holds' = [Holds EXCEPT ![c] = None] BY <1>3, <1>4, <1>5, <1>6 DEF Holds
<1>9. Busy[t] = Idle BY <1>1, BusyWhenRunning
<1> QED BY <1>1, <1>6, <1>7, <1>8, <1>9 DEF Contract!Destroy

LEMMA NextMaps == IInv /\ [Next]_vars => [Contract!Next]_(Contract!vars)
<1> SUFFICES ASSUME IInv, [Next]_vars PROVE [Contract!Next]_(Contract!vars) OBVIOUS
<1>1. CASE UNCHANGED vars
  <2>1. heap' = heap /\ cell' = cell /\ error' = error /\ call' = call BY <1>1 DEF vars
  <2>2. Reserved' = Reserved /\ Busy' = Busy BY <2>1 DEF Reserved, Busy, Running
  <2>3. Holds' = Holds BY <2>1, <2>2 DEF Holds
  <2> QED BY <2>1, <2>2, <2>3 DEF Contract!vars
<1>2. CASE Next
  <2>1. PICK t \in Threads :
          \/ \E f \in Functions, hasBytes, hasSlots \in BOOLEAN :
               \E in \in CellSeqs(f.in), arr \in Arrays(f.array) :
                 \E out \in CellSeqs(OutTypes(f, Len(arr))) :
                   Enter(t, f, in, arr, out, hasBytes, hasSlots)
          \/ LibraryError(t) \/ WriteSlot(t) \/ Return(t)
          \/ \E c \in Cells : LastErrorMessage(t, c)
          \/ \E c \in Cells : Destroy(t, c)
    BY <1>2 DEF Next
  <2>2. \/ Contract!Fail(t) \/ Contract!Begin(t) \/ Contract!Succeed(t)
        \/ Contract!Message(t) \/ Contract!Destroy(t)
        \/ UNCHANGED Contract!vars
    BY <2>1, EnterMaps, LibraryErrorMaps, WriteSlotMaps, ReturnMaps,
       LastErrorMessageMaps, DestroyMaps
  <2> QED BY <2>2 DEF Contract!Next
<1> QED BY <1>1, <1>2

(* The contract of the interface, however the steps of its callers come: a *)
(* failed call hands out nothing, a successful one all of its objects at   *)
(* once, and poprf_last_error_message tells a thread of its own last call. *)
THEOREM KeepsContract == Spec => ImplementsContract
BY InitMaps, InductiveInvariant, NextMaps, PTL DEF Spec, ImplementsContract, Contract!Spec
====
