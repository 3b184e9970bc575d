------------------------------ MODULE KeyDerive ------------------------------
(***************************************************************************)
(* Making a key pair: derive_key_pair and generate_key_pair of             *)
(* poprf-ristretto/src/key.rs, with the loop of random_scalar              *)
(* (poprf-ristretto/src/group.rs) and the entry point                      *)
(* poprf_secret_key_from_seed of the C interface.                          *)
(*                                                                         *)
(* A server derives its key from a seed each time it starts, or generates  *)
(* one; the process may be stopped at any step of the loop and start over. *)
(* There is one seed; the hash of seed, info and counter is an arbitrary   *)
(* function, zero included.                                                *)
(***************************************************************************)
EXTENDS Group, LengthPrefix

CONSTANTS
  Infos,         \* contexts a key is derived for
  LpLen,         \* [Infos -> Nat], their lengths in bytes
  LastCounter,   \* the last counter that is tried: 255 in the code
  None           \* absence of a result

ASSUME KeyDeriveAssumption ==
  /\ LpLen \in [Infos -> Nat]
  /\ LastCounter \in 0..255
  /\ None \notin Infos

VARIABLES
  hash,      \* HashToScalar(deriveInput || I2OSP(counter, 1))
  pc,        \* "idle", or the loop that runs: "deriving" or "sampling"
  asked,     \* the info a key is derived for
  counter,   \* the counter of the loop
  result     \* what the last call returned

vars == <<hash, pc, asked, counter, result>>

Counters == 0..LastCounter
KeyPair(sk) == [sk |-> sk, pk |-> public_key(sk)]

Return(res) == pc' = "idle" /\ result' = res

(***************************************************************************)
(* derive_key_pair.                                                        *)
(***************************************************************************)
\* The caller of the C interface passes a seed of any length.
DeriveKeyPair(whole_seed, info) ==
  /\ pc = "idle"
  /\ asked' = info
  /\ IF ~whole_seed THEN Return(Err("SeedLength")) /\ UNCHANGED counter
     ELSE IF ~LpLenOk(LpLen[info]) THEN Return(Err("InputTooLong")) /\ UNCHANGED counter
     ELSE pc' = "deriving" /\ counter' = 0 /\ result' = None
  /\ UNCHANGED hash

\* Mutant: the counter is a u8 that wraps, compared with 256.
TryCounter_wraps ==
  LET sk == hash[asked][counter]
  IN  /\ pc = "deriving"
      /\ IF ~scalar_is_zero(sk) THEN Return(Ok(KeyPair(sk))) /\ UNCHANGED counter
         ELSE counter' = (counter + 1) % (LastCounter + 1) /\ UNCHANGED <<pc, result>>
      /\ UNCHANGED <<hash, asked>>

\* Mutant: the range excludes the last counter.
TryCounter_exclusive ==
  LET sk == hash[asked][counter]
  IN  /\ pc = "deriving"
      /\ IF ~scalar_is_zero(sk) THEN Return(Ok(KeyPair(sk))) /\ UNCHANGED counter
         ELSE IF counter + 1 >= LastCounter THEN Return(Err("DeriveKeyPair")) /\ UNCHANGED counter
         ELSE counter' = counter + 1 /\ UNCHANGED <<pc, result>>
      /\ UNCHANGED <<hash, asked>>

TryCounter ==
  LET sk == hash[asked][counter]
  IN  /\ pc = "deriving"
      /\ IF ~scalar_is_zero(sk) THEN Return(Ok(KeyPair(sk))) /\ UNCHANGED counter
         ELSE IF counter = LastCounter THEN Return(Err("DeriveKeyPair")) /\ UNCHANGED counter
         ELSE counter' = counter + 1 /\ UNCHANGED <<pc, result>>
      /\ UNCHANGED <<hash, asked>>

(***************************************************************************)
(* generate_key_pair.                                                      *)
(***************************************************************************)
GenerateKeyPair ==
  /\ pc = "idle"
  /\ pc' = "sampling" /\ result' = None /\ asked' = None
  /\ UNCHANGED <<hash, counter>>

\* One turn of the loop of random_scalar, for the sample s.
Sample(s) ==
  /\ pc = "sampling"
  /\ IF ~scalar_is_zero(s) THEN Return(Ok(KeyPair(s))) ELSE UNCHANGED <<pc, result>>
  /\ UNCHANGED <<hash, asked, counter>>

(***************************************************************************)
(* The process stops and starts over; what it had computed is gone.        *)
(***************************************************************************)
Restart ==
  /\ pc' = "idle" /\ result' = None /\ asked' = None /\ counter' = 0
  /\ UNCHANGED hash

Init ==
  /\ hash \in [Infos -> [Counters -> Scalar]]
  /\ pc = "idle" /\ asked = None /\ counter = 0 /\ result = None

Next ==
  \/ \E whole_seed \in BOOLEAN, info \in Infos : DeriveKeyPair(whole_seed, info)
  \/ TryCounter
  \/ GenerateKeyPair
  \/ \E s \in Scalar : Sample(s)
  \/ Restart

Spec == Init /\ [][Next]_vars

(* A loop that runs is not suspended for ever, and the generator yields a  *)
(* non-zero scalar if it is asked again and again.                         *)
Fairness ==
  /\ WF_vars(TryCounter)
  /\ SF_vars(\E s \in RandomScalar : Sample(s))

FairSpec == Spec /\ Fairness

(***************************************************************************)
(* Properties.                                                             *)
(***************************************************************************)
TypeOK ==
  /\ hash \in [Infos -> [Counters -> Scalar]]
  /\ pc \in {"idle", "deriving", "sampling"}
  /\ asked \in Infos \cup {None}
  /\ counter \in Counters

Admissible(info) == {c \in Counters : ~scalar_is_zero(hash[info][c])}

(* Whatever the loop did before and wherever it was interrupted, the key   *)
(* derived for an info is that of the first counter whose hash is not      *)
(* zero, so that every start of the server derives the same one; the error *)
(* DeriveKeyPair means that there is no such counter.                      *)
DerivesFirstAdmissible ==
  pc = "idle" /\ asked \in Infos /\ result # None =>
    /\ result.ok =>
         \E c \in Admissible(asked) :
           /\ \A d \in Admissible(asked) : c <= d
           /\ result.val = KeyPair(hash[asked][c])
    /\ ~result.ok /\ result.err = "DeriveKeyPair" => Admissible(asked) = {}

(* A key pair that is being made is made, or reported as impossible.       *)
EveryCallReturns == pc # "idle" ~> pc = "idle"

TurnsLeft == IF pc = "deriving" THEN LastCounter + 1 - counter ELSE 0

(* The half of EveryCallReturns that takes no fairness: while a derivation *)
(* runs, nothing happens that does not bring it nearer its end, so that no *)
(* seed, however unlucky, keeps a server in derive_key_pair.               *)
DerivationDescends == [][pc = "deriving" => TurnsLeft' \in 0..(TurnsLeft - 1)]_vars

(***************************************************************************)
(* The inductive invariant behind the first: TypeOK, the property, and     *)
(* that the counters before the one being tried gave zero.                 *)
(***************************************************************************)
Progress ==
  /\ pc = "deriving" =>
       asked \in Infos /\ \A c \in Counters : c < counter => hash[asked][c] = 0
  /\ pc = "sampling" => asked = None

IInv == TypeOK /\ Progress /\ DerivesFirstAdmissible
=============================================================================
