---------------------------- MODULE MCKeyDerive ----------------------------
(***************************************************************************)
(* Constants for model-checking module KeyDerive: a group of order 3, and  *)
(* three counters.  TLC tries every hash function.                         *)
(***************************************************************************)
EXTENDS KeyDerive, TLC

CONSTANTS prod, longInfo    \* infos

MCLpLen == [i \in Infos |-> IF i = longInfo THEN MAX_LP_LEN + 1 ELSE MAX_LP_LEN]
=============================================================================
