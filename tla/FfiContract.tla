---- MODULE FfiContract ----
(***************************************************************************)
(* What the C interface promises its callers: "Object model and            *)
(* ownership" and "Error handling" of poprf-ristretto-ffi/README.md and    *)
(* the comments of the functions, without heap, addresses or steps inside  *)
(* a call.                                                                 *)
(***************************************************************************)
CONSTANTS Threads, Cells, CellType, Errors, Idle, None

VARIABLES
  holds,     \* the object that each of the caller's cells owns, or None
  report,    \* what poprf_last_error_message would tell each thread
  busy       \* the cells that each thread's call may fill, or Idle

vars == <<holds, report, busy>>

Init ==
  /\ holds = [c \in Cells |-> None]
  /\ report = [t \in Threads |-> None]
  /\ busy = [t \in Threads |-> Idle]

\* A call begins with a clean slate.
Begin(t) ==
  /\ busy[t] = Idle
  /\ report' = [report EXCEPT ![t] = None]
  /\ UNCHANGED holds
  /\ \E out \in SUBSET Cells :
       /\ busy' = [busy EXCEPT ![t] = out]
       /\ \A c \in out : holds[c] = None
       /\ \A u \in Threads : busy[u] # Idle => busy[u] \cap out = {}

\* A failure, at once or later, is reported to its thread and hands out nothing.
Fail(t) ==
  /\ \E e \in Errors : report' = [report EXCEPT ![t] = e]
  /\ busy' = [busy EXCEPT ![t] = Idle]
  /\ UNCHANGED holds

\* A success fills all the cells it was given, and leaves no error.
Succeed(t) ==
  /\ busy[t] # Idle /\ report[t] = None
  /\ holds' = [c \in Cells |->
                 IF c \in busy[t] THEN [type |-> CellType[c], text |-> None] ELSE holds[c]]
  /\ busy' = [busy EXCEPT ![t] = Idle]
  /\ UNCHANGED report

\* The message is a copy, and can be asked for again.
Message(t) ==
  /\ busy[t] = Idle /\ report[t] # None
  /\ \E c \in Cells :
       /\ holds[c] = None
       /\ holds' = [holds EXCEPT ![c] = [type |-> "c_char", text |-> report[t]]]
  /\ UNCHANGED <<report, busy>>

Destroy(t) ==
  /\ busy[t] = Idle
  /\ \E c \in Cells : holds[c] # None /\ holds' = [holds EXCEPT ![c] = None]
  /\ UNCHANGED <<report, busy>>

Next == \E t \in Threads :
  Begin(t) \/ Fail(t) \/ Succeed(t) \/ Message(t) \/ Destroy(t)

Spec == Init /\ [][Next]_vars
====
