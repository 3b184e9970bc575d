---- MODULE MCFraming ----
(***************************************************************************)
(* Constants for model-checking module Framing: bytes of two values, so    *)
(* that a prefix tells lengths up to 3 apart and the cap is 2.  The        *)
(* strings are all of those lengths, and some that must be refused.        *)
(***************************************************************************)
EXTENDS Framing

MCStrings == UNION {[1..n -> Byte] : n \in 0..2}
               \cup {<<0, 0, 1>>, <<0, 0, 1, 1>>, <<1, 1, 0, 0>>}
MCElements == [1..ELEMENT_LEN -> Byte]
MCDigests == {<<0, 1>>, <<1, 1>>}
MCKeySeeds == [1..SEED_LEN -> Byte]
MCInfo == <<1, 1, 0>>
MCFinalize == <<1>>
MCChallenge == <<0>>
MCComposite == <<1>>
MCSeedDst == <<1, 0>>
====
