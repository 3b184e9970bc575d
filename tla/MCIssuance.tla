----------------------------- MODULE MCIssuance -----------------------------
(***************************************************************************)
(* Constants for model-checking module Issuance.                           *)
(*                                                                         *)
(* The group has order 7.  The infos hash so that one of them makes t zero *)
(* for one of the keys, one is too long and one has the longest length;    *)
(* one input hashes to the identity, one is too long.                      *)
(***************************************************************************)
EXTENDS Issuance, TLC

CONSTANTS tok1, tok2                              \* tokens
CONSTANTS alpha, beta, void, longInput        \* inputs
CONSTANTS daily, edge, clash, longInfo        \* infos

MCKeyBytes == {Truncated, 0, 2, 3, NonCanonical}
MCRequestBytes == {Truncated, 0, 2, 3, NonCanonical}

MCHashToGroup == [x \in Inputs |-> CASE x = alpha -> 1 [] x = beta -> 4 [] x = void -> 0 [] x = longInput -> 2]
MCHashToScalar == [x \in Infos |-> CASE x = daily -> 1 [] x = edge -> 3 [] x = clash -> 5 [] x = longInfo -> 2]
MCLpLen == [x \in Inputs \cup Infos |->
              CASE x \in {longInput, longInfo} -> MAX_LP_LEN + 1
                [] x \in {beta, edge} -> MAX_LP_LEN
                [] x \in {void, daily} -> 0
                [] OTHER -> 32]
=============================================================================
