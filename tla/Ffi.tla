---- MODULE Ffi ----
(***************************************************************************)
(* The C interface: poprf-ristretto-ffi/src/lib.rs.                        *)
(*                                                                         *)
(* Objects live on a heap, callers hold their addresses in typed cells     *)
(* (pointer variables and the slots of output arrays), and every thread    *)
(* has a last error.  A call enters, works and hands out its objects one   *)
(* by one; other threads run in between.  What is computed is left to the  *)
(* other modules: here a call can fail or succeed.                         *)
(*                                                                         *)
(* Callers keep the "# Safety" clauses: they are the guards of Enter,      *)
(* LastErrorMessage and Destroy.                                           *)
(***************************************************************************)
EXTENDS Integers, Sequences, Functions

CONSTANTS
  Threads,
  Handles,      \* addresses the allocator may return
  Cells,        \* the caller's pointer variables and array slots
  CellType,     \* their declared types
  Slots,        \* the cells that lie in output arrays, at first uninitialised
  MaxBatch,     \* bound: the longest array that is passed
  Null, Uninit, Free, Idle, None

Types == {"SecretKey", "PublicKey", "BlindedElement", "EvaluatedElement", "Proof",
          "PoprfOutput", "PoprfInputTable", "c_char"}
Errors == {"argument", "library"}

\* text is what a message says; no other string or handle is told from its like.
Object(type, text) == [type |-> type, text |-> text]
Objects == [type : Types, text : Errors \cup {None}]

ASSUME FfiAssumption ==
  /\ CellType \in [Cells -> Types]
  /\ Slots \subseteq Cells
  /\ MaxBatch \in Nat
  /\ Null \notin Handles /\ Uninit \notin Handles
  /\ None \notin Errors /\ None \notin Objects
  /\ Free \notin Objects

VARIABLES
  heap,     \* address -> object
  cell,     \* cell -> address, Null or Uninit
  error,    \* LAST_ERROR of each thread
  call      \* what each thread is doing in the library

vars == <<heap, cell, error, call>>

(***************************************************************************)
(* The functions.  in: handles they read; array: the type of the array     *)
(* they read, if any; bytes: whether they take a buffer; fallible: whether *)
(* the library may refuse; out: what they hand out besides one object of   *)
(* type slots per element of the array; elem: of what the slots are made a *)
(* slice.  The encoders cannot fail: cstring_or_null refuses a text with a *)
(* NUL in it, and base64 has none.                                         *)
(***************************************************************************)
Returning(name, in, bytes, fallible, out) ==
  [name |-> name, in |-> in, array |-> None, bytes |-> bytes, fallible |-> fallible,
   out |-> out, slots |-> None, elem |-> None]

Batched(name, array, slots, out, elem) ==
  [name |-> name, in |-> <<"SecretKey">>, array |-> array, bytes |-> TRUE,
   fallible |-> TRUE, out |-> out, slots |-> slots, elem |-> elem]

poprf_secret_key_from_seed == Returning("from_seed", <<>>, TRUE, TRUE, <<"SecretKey">>)
poprf_secret_key_decode_base64 == Returning("decode", <<>>, TRUE, TRUE, <<"SecretKey">>)
poprf_secret_key_encode_base64 ==
  Returning("encode", <<"SecretKey">>, FALSE, FALSE, <<"c_char">>)
poprf_public_key_from_secret ==
  Returning("from_secret", <<"SecretKey">>, FALSE, FALSE, <<"PublicKey">>)
poprf_public_key_encode_base64 ==
  Returning("encode", <<"PublicKey">>, FALSE, FALSE, <<"c_char">>)
poprf_blinded_element_decode_base64 ==
  Returning("decode", <<>>, TRUE, TRUE, <<"BlindedElement">>)
poprf_evaluated_element_encode_base64 ==
  Returning("encode", <<"EvaluatedElement">>, FALSE, FALSE, <<"c_char">>)
poprf_proof_encode_base64 == Returning("encode", <<"Proof">>, FALSE, FALSE, <<"c_char">>)
poprf_evaluate == Returning("evaluate", <<"SecretKey">>, TRUE, TRUE, <<"PoprfOutput">>)
poprf_input_table_new == Returning("new", <<>>, TRUE, TRUE, <<"PoprfInputTable">>)
poprf_output_encode_base64 ==
  Returning("encode", <<"PoprfOutput">>, FALSE, FALSE, <<"c_char">>)
\* Its answer is a number; bytes that do not decode are an error too.
poprf_output_eq_base64 == Returning("eq", <<"PoprfOutput">>, TRUE, TRUE, <<>>)
poprf_blind_evaluate_batch ==
  Batched("blind_evaluate", "BlindedElement", "EvaluatedElement", <<"Proof">>, "plain")
poprf_evaluate_tables ==
  Batched("evaluate_tables", "PoprfInputTable", "PoprfOutput", <<>>, "MaybeUninit")

Functions ==
  {poprf_secret_key_from_seed, poprf_secret_key_decode_base64,
   poprf_secret_key_encode_base64, poprf_public_key_from_secret,
   poprf_public_key_encode_base64, poprf_blinded_element_decode_base64,
   poprf_evaluated_element_encode_base64, poprf_proof_encode_base64, poprf_evaluate,
   poprf_input_table_new, poprf_output_encode_base64, poprf_output_eq_base64,
   poprf_blind_evaluate_batch, poprf_evaluate_tables}

OutTypes(f, n) == [i \in 1..n |-> f.slots] \o f.out

\* A call that is running: what it reads, what it hands out, the next to hand out.
Calls == [fn : Functions, in : SUBSET Cells, out : Seq(Cells),
          types : Seq(Types \cup {None}), next : Nat]

ASSUME IdleAssumption == Idle \notin Calls /\ \A S \in SUBSET Cells : Idle # S

\* What the C compiler lets pass.
CellSeqs(types) ==
  {cs \in [1..Len(types) -> Cells] : \A i \in 1..Len(types) : CellType[cs[i]] = types[i]}
Arrays(type) ==
  IF type = None THEN {<< >>} ELSE UNION {CellSeqs([i \in 1..n |-> type]) : n \in 0..MaxBatch}

(***************************************************************************)
(* What callers may pass.                                                  *)
(***************************************************************************)
Running(t) == call[t] # Idle
InUse == UNION {call[t].in : t \in {u \in Threads : Running(u)}}
Reserved == UNION {Range(call[t].out) : t \in {u \in Threads : Running(u)}}

\* Initialised, and no other thread is writing it.
Readable(c) == cell[c] # Uninit /\ c \notin Reserved
\* Holds nothing that would be lost, and no other thread is looking at it.
Writable(c) == cell[c] \notin Handles /\ c \notin Reserved \cup InUse

MayCall(t, in, arr, out) ==
  /\ ~Running(t)
  /\ IsInjective(out)
  /\ \A c \in Range(in) \cup Range(arr) : Readable(c)
  /\ \A c \in Range(out) : Writable(c) /\ c \notin Range(in) \cup Range(arr)

(***************************************************************************)
(* Calls.                                                                  *)
(***************************************************************************)
\* Mutant: LAST_ERROR is one for the process.
set_error_global(t, e) == error' = [u \in Threads |-> e]

set_error(t, e) == error' = [error EXCEPT ![t] = e]
clear_error(t) == error' = [error EXCEPT ![t] = None]

\* A function that returns a pointer returns NULL; one with slots leaves them alone.
FailedCells(f, out) ==
  IF f.array = None THEN [c \in Cells |-> IF c \in Range(out) THEN Null ELSE cell[c]] ELSE cell

\* Mutant: the pointers in the array are not tested.
ArgumentError_elements(f, in, arr, hasBytes, hasSlots) ==
  \/ \E c \in Range(in) : cell[c] = Null
  \/ f.array # None /\ (~hasSlots \/ arr = <<>>)
  \/ f.bytes /\ ~hasBytes

\* hasBytes, hasSlots: whether the pointers to the buffer and the arrays are valid.
ArgumentError(f, in, arr, hasBytes, hasSlots) ==
  \/ \E c \in Range(in) \cup Range(arr) : cell[c] = Null
  \/ f.array # None /\ (~hasSlots \/ arr = <<>>)
  \/ f.bytes /\ ~hasBytes

Enter(t, f, in, arr, out, hasBytes, hasSlots) ==
  /\ MayCall(t, in, arr, out)
  /\ IF ArgumentError(f, in, arr, hasBytes, hasSlots)
       THEN /\ set_error(t, "argument")
            /\ cell' = FailedCells(f, out)
            /\ UNCHANGED call
       ELSE /\ clear_error(t)
            /\ call' = [call EXCEPT ![t] =
                          [fn |-> f, in |-> Range(in) \cup Range(arr), out |-> out,
                           types |-> OutTypes(f, Len(arr)), next |-> 1]]
            /\ UNCHANGED cell
  /\ UNCHANGED heap

\* Mutant: slots are filled while the batch is still being evaluated.
LibraryError_late(t) ==
  /\ Running(t) /\ call[t].fn.fallible /\ call[t].next <= Len(call[t].out)
  /\ set_error(t, "library")
  /\ cell' = FailedCells(call[t].fn, call[t].out)
  /\ call' = [call EXCEPT ![t] = Idle]
  /\ UNCHANGED heap

LibraryError(t) ==
  /\ Running(t) /\ call[t].fn.fallible /\ call[t].next = 1
  /\ set_error(t, "library")
  /\ cell' = FailedCells(call[t].fn, call[t].out)
  /\ call' = [call EXCEPT ![t] = Idle]
  /\ UNCHANGED heap

\* Box::into_raw or CString::into_raw, and the address goes to cell c.
HandOut(c, object) ==
  \E h \in Handles :
    /\ heap[h] = Free
    /\ heap' = [heap EXCEPT ![h] = object]
    /\ cell' = [cell EXCEPT ![c] = h]

\* Mutant: always the first slot.
WriteSlot_first(t) ==
  /\ Running(t) /\ call[t].next <= Len(call[t].out)
  /\ HandOut(call[t].out[1], Object(call[t].types[1], None))
  /\ call' = [call EXCEPT ![t].next = @ + 1]
  /\ UNCHANGED error

WriteSlot(t) ==
  /\ Running(t) /\ call[t].next <= Len(call[t].out)
  /\ LET c == call[t].out[call[t].next]
         type == call[t].types[call[t].next]
     IN  HandOut(c, Object(type, None))
  /\ call' = [call EXCEPT ![t].next = @ + 1]
  /\ UNCHANGED error

Return(t) ==
  /\ Running(t) /\ call[t].next = Len(call[t].out) + 1
  /\ call' = [call EXCEPT ![t] = Idle]
  /\ UNCHANGED <<heap, cell, error>>

(* Neither the next function nor the destructors touch LAST_ERROR.         *)
LastErrorMessage(t, c) ==
  /\ ~Running(t) /\ CellType[c] = "c_char" /\ Writable(c)
  /\ IF error[t] = None
       THEN cell' = [cell EXCEPT ![c] = Null] /\ UNCHANGED heap
       ELSE HandOut(c, Object("c_char", error[t]))
  /\ UNCHANGED <<error, call>>

\* The destructor of the type that c was declared with; nothing on NULL.
Destroy(t, c) ==
  /\ ~Running(t) /\ Readable(c) /\ c \notin InUse
  /\ cell[c] # Null
  /\ heap' = [heap EXCEPT ![cell[c]] = Free]
  /\ cell' = [cell EXCEPT ![c] = Null]
  /\ UNCHANGED <<error, call>>

(***************************************************************************)
(* Specification.                                                          *)
(***************************************************************************)
Init ==
  /\ heap = [h \in Handles |-> Free]
  /\ cell = [c \in Cells |-> IF c \in Slots THEN Uninit ELSE Null]
  /\ error = [t \in Threads |-> None]
  /\ call = [t \in Threads |-> Idle]

Next == \E t \in Threads :
  \/ \E f \in Functions, hasBytes, hasSlots \in BOOLEAN :
       \E in \in CellSeqs(f.in), arr \in Arrays(f.array) :
         \E out \in CellSeqs(OutTypes(f, Len(arr))) :
           Enter(t, f, in, arr, out, hasBytes, hasSlots)
  \/ LibraryError(t)
  \/ WriteSlot(t)
  \/ Return(t)
  \/ \E c \in Cells : LastErrorMessage(t, c)
  \/ \E c \in Cells : Destroy(t, c)

Spec == Init /\ [][Next]_vars

(***************************************************************************)
(* Properties.                                                             *)
(***************************************************************************)
Live == {h \in Handles : heap[h] # Free}

(* Every object that was handed out, also by calls that are still filling  *)
(* their slots, is in exactly one cell, declared with the object's type:   *)
(* the caller can and will destroy it once, with the right destructor.     *)
OwnedOnce ==
  /\ \A h \in Live : \E c \in Cells : cell[c] = h
  /\ \A c, d \in Cells : cell[c] \in Handles /\ cell[c] = cell[d] => c = d
  /\ \A c \in Cells : cell[c] \in Handles =>
       cell[c] \in Live /\ heap[cell[c]].type = CellType[c]

(* A call that runs reads only live objects of the types it expects: every *)
(* function has looked for NULL in each pointer and each element of an     *)
(* array before it works.  That nobody destroys what is being read is the  *)
(* rule for callers in the README of the interface, a guard of Destroy.    *)
ReadsAreLive ==
  \A t \in Threads : Running(t) =>
    \A c \in call[t].in : cell[c] \in Live /\ heap[cell[c]].type = CellType[c]

(* Refinement of what the README and the comments promise: a failing call  *)
(* hands out nothing, a successful one all of its slots at once, and the   *)
(* message is about the last call of the thread that asks.                 *)
Holds ==
  [c \in Cells |-> IF cell[c] \in Handles /\ c \notin Reserved THEN heap[cell[c]] ELSE None]
Busy == [t \in Threads |-> IF Running(t) THEN Range(call[t].out) ELSE Idle]

Contract == INSTANCE FfiContract WITH holds <- Holds, report <- error, busy <- Busy

ImplementsContract == Contract!Spec

(* lib.rs:715-717: from_raw_parts_mut forbids an uninitialised array       *)
(* unless the element type says that it may be.                            *)
SlicesInitialised ==
  [][\A t \in Threads :
       WriteSlot(t) /\ call[t].next = 1 /\ call[t].fn.elem = "plain" =>
         \A i \in DOMAIN call[t].out :
           call[t].types[i] = call[t].fn.slots => cell[call[t].out[i]] # Uninit]_vars

(***************************************************************************)
(* The inductive invariant behind them.                                    *)
(***************************************************************************)
TypeOK ==
  /\ heap \in [Handles -> Objects \cup {Free}]
  /\ cell \in [Cells -> Handles \cup {Null, Uninit}]
  /\ error \in [Threads -> Errors \cup {None}]
  /\ call \in [Threads -> Calls \cup {Idle}]

\* A call has filled its slots up to the next, and reported nothing.
Progress(k) ==
  /\ k.next \in 1..(Len(k.out) + 1)
  /\ \A i, j \in 1..Len(k.out) : k.out[i] = k.out[j] => i = j
  /\ \A i \in 1..Len(k.out) :
       /\ CellType[k.out[i]] = k.types[i]
       /\ i < k.next => /\ cell[k.out[i]] \in Handles
                        /\ heap[cell[k.out[i]]] = Object(k.types[i], None)
       /\ i >= k.next => cell[k.out[i]] \notin Handles

\* No call reads or fills what another one fills.
Exclusive ==
  \A t, u \in Threads : Running(t) /\ Running(u) =>
    /\ Range(call[t].out) \cap call[u].in = {}
    /\ t # u => Range(call[t].out) \cap Range(call[u].out) = {}

IInv ==
  /\ TypeOK
  /\ OwnedOnce
  /\ ReadsAreLive
  /\ Exclusive
  /\ \A t \in Threads : Running(t) => Progress(call[t]) /\ error[t] = None
====
