---------------------------- MODULE MCRedemption ----------------------------
(***************************************************************************)
(* Constants for model-checking module Redemption.  The group has order 7. *)
(***************************************************************************)
EXTENDS Redemption, TLC

CONSTANTS tok, slot1, slot2                   \* tokens and slots
CONSTANTS alpha, beta, void, longInput        \* inputs
CONSTANTS daily, clash, longInfo              \* infos

MCKeyBytes == {Truncated, 0, 2, 3, NonCanonical}

MCHashToGroup == [x \in Inputs |-> CASE x = alpha -> 1 [] x = beta -> 4 [] x = void -> 0 [] x = longInput -> 2]
MCHashToScalar == [x \in Infos |-> CASE x = daily -> 1 [] x = clash -> 5 [] x = longInfo -> 2]
MCLpLen == [x \in Inputs \cup Infos |->
              CASE x \in {longInput, longInfo} -> MAX_LP_LEN + 1
                [] x \in {beta, clash} -> MAX_LP_LEN
                [] x \in {void, daily} -> 0
                [] OTHER -> 32]
=============================================================================
