---- MODULE LengthPrefix ----
(***************************************************************************)
(* Length-prefix helpers: poprf-ristretto/src/util.rs.                     *)
(*                                                                         *)
(* A byte string is a sequence of numbers below Base.  Base is 256 in the  *)
(* code; the module is parameterised by it so that all strings up to and   *)
(* beyond the longest that a two-byte prefix can describe are few enough   *)
(* to enumerate.                                                           *)
(***************************************************************************)
EXTENDS Integers, Sequences

CONSTANT Base     \* how many values a byte has

ASSUME BaseAssumption == Base \in Nat /\ Base > 1

\* What the two-byte length prefix can tell apart: 2^16.
U16 == Base * Base

\* The longest input or info the protocol admits (RFC 9497, 5.1).
MAX_LP_LEN == U16 - 2

\* Mutant: the cap lets through what the prefix cannot describe.
LpLenOk_two_off(len) == ~(len > U16)

\* check_lp_len fails with InputTooLong on the lengths that are not LpLenOk.
LpLenOk(len) == ~(len > MAX_LP_LEN)

\* I2OSP(x, 2) as built for release: the cast to u16 drops what lies above.
i2osp_2(x) == <<(x \div Base) % Base, x % Base>>

\* What append_lp adds to its buffer.
lp(buf) == i2osp_2(Len(buf)) \o buf
====
