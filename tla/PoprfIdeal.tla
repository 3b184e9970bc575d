----------------------------- MODULE PoprfIdeal -----------------------------
(***************************************************************************)
(* What issuance promises, with the cryptography taken out.                *)
(*                                                                         *)
(* A client claims, for each token, the value of a function F at a key, an *)
(* input and an info.  Claims are made only where F is defined.  At some   *)
(* later time the values of a set of claims are revealed, together; the    *)
(* only thing that is ever revealed is the value of F at the claim.  A     *)
(* claim may be forgotten, and made again.                                 *)
(***************************************************************************)
CONSTANTS Tokens, Keys, Inputs, Infos, None,
          F(_, _, _),        \* the output at a key, an input and an info
          Defined(_, _, _)   \* where F is defined

VARIABLES
  claim,    \* [Tokens -> Claim \cup {None}]
  out       \* [Tokens -> output or None]

Claim == {c \in [key : Keys, input : Inputs, info : Infos] :
            Defined(c.key, c.input, c.info)}

Value(c) == F(c.key, c.input, c.info)

Init ==
  /\ claim = [t \in Tokens |-> None]
  /\ out = [t \in Tokens |-> None]

(* The client claims the value at c for token t; what t claimed before is  *)
(* gone.                                                                   *)
MakeClaim(t, c) ==
  /\ claim' = [claim EXCEPT ![t] = c]
  /\ out' = [out EXCEPT ![t] = None]

(* The values of the claims of S are revealed.                             *)
Reveal(S) ==
  /\ \A t \in S : claim[t] # None
  /\ out' = [t \in Tokens |-> IF t \in S THEN Value(claim[t]) ELSE out[t]]
  /\ UNCHANGED claim

(* The client forgets every claim.                                         *)
Forget ==
  /\ claim' = [t \in Tokens |-> None]
  /\ out' = [t \in Tokens |-> None]

Next ==
  \/ \E t \in Tokens, c \in Claim : MakeClaim(t, c)
  \/ \E S \in SUBSET Tokens : Reveal(S)
  \/ Forget

Spec == Init /\ [][Next]_<<claim, out>>
=============================================================================
