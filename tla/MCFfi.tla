---- MODULE MCFfi ----
(***************************************************************************)
(* Constants for model-checking module Ffi.  The cells that callers have   *)
(* decide which functions they can call: here all but those of public keys *)
(* (which are like those of secret keys), and blinded elements two at a    *)
(* time.  There are fewer addresses than cells, so memory can run out.     *)
(***************************************************************************)
EXTENDS Ffi, TLC

CONSTANTS sk, bl, e1, e2, pf, tb, o1, msg

MCCellType == sk :> "SecretKey" @@ bl :> "BlindedElement" @@ e1 :> "EvaluatedElement"
                @@ e2 :> "EvaluatedElement" @@ pf :> "Proof" @@ tb :> "PoprfInputTable"
                @@ o1 :> "PoprfOutput" @@ msg :> "c_char"

Symmetry == Permutations(Threads) \cup Permutations(Handles)
====
