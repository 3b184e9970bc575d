-------------------------------- MODULE Dleq --------------------------------
(***************************************************************************)
(* The DLEQ proof: poprf-ristretto/src/dleq.rs.                            *)
(*                                                                         *)
(* GenerateProof and VerifyProof hash twice: the seed and index of each    *)
(* pair give a weight d_i, and a transcript gives the challenge c.  Both   *)
(* hashes are random oracles, modelled formally: the output of a hash is   *)
(* the term hash(x) and two outputs are equal exactly when their inputs    *)
(* are.  Whatever is built from hash outputs is then a formal expression:  *)
(*                                                                         *)
(*   - a composite Sum_i d_i * P_i is the set of its terms <<d_i, P_i>>    *)
(*     with P_i # O (Terms);                                               *)
(*   - the response s = r - c*k is [one |-> r, chal |-> -k, of |-> c], for *)
(*     one + chal * of;                                                    *)
(*   - s*X + c*Y is [one, chals]: the part free of challenges, and for     *)
(*     each challenge h the non-zero element it multiplies (Respond).      *)
(*                                                                         *)
(* A weight hashes the index and both points of its pair.  The indices of  *)
(* a batch of up to 2^16 pairs have distinct encodings, so its weights are *)
(* distinct, as Terms requires; in a longer one two pairs have the same    *)
(* weight only if they are the same pair.                                  *)
(***************************************************************************)
EXTENDS Group, Sequences, LengthPrefix

(***************************************************************************)
(* Scalars that are not plain residues.                                    *)
(***************************************************************************)
hash_to_scalar(x) == [hash |-> x]

\* A scalar chosen by someone, rather than computed by a hash.
RawScalar(v) == [raw |-> v]

Linear(one, chal, of) == [one |-> one, chal |-> chal, of |-> of]

(***************************************************************************)
(* Formal elements.                                                        *)
(***************************************************************************)
Terms(d, P) == {<<d[i], P[i]>> : i \in {j \in DOMAIN P : ~is_identity(P[j])}}

\* The weight of a point that stands alone.
Unit == << <<>> >>

Scaled(s, P) == [i \in DOMAIN P |-> scalar_mul(s, P[i])]

\* What challenge h multiplies in s*X + c*Y.
Coefficient(h, s, X, c, Y) ==
  [i \in DOMAIN X |-> element_add(IF h = s.of THEN scalar_mul(s.chal, X[i]) ELSE identity,
                                  IF h = c THEN Y[i] ELSE identity)]

Respond(d, s, X, c, Y) ==
  [one   |-> Terms(d, Scaled(s.one, X)),
   chals |-> {<<h, Terms(d, Coefficient(h, s, X, c, Y))>> :
                h \in {g \in {s.of, c} : Terms(d, Coefficient(g, s, X, c, Y)) # {}}}]

(***************************************************************************)
(* Composites.  The code sums the terms in a loop or, built with the       *)
(* feature fast-dleq, with one call of the group library; both are the set *)
(* of terms here, so a difference between the two builds would not show.   *)
(***************************************************************************)
composite_seed(b) == [seed |-> b]

composite_di(seed, i, ci, di) == hash_to_scalar(<<seed, i2osp_2(i), ci, di>>)

\* d_i hashes the position of the pair, counted from 0, and both points.
Weights(b, C, D) ==
  [i \in DOMAIN C |-> composite_di(composite_seed(b), i - 1, C[i], D[i])]

\* Mutant: the verifier weighs the pairs with the two points swapped.
compute_composites_swapped(b, C, D) == [d |-> Weights(b, D, C), m |-> C, z |-> D]

compute_composites(b, C, D) == [d |-> Weights(b, C, D), m |-> C, z |-> D]

compute_composites_fast(k, b, C, D) ==
  [d |-> Weights(b, C, D), m |-> C, z |-> Scaled(k, C)]

(***************************************************************************)
(* GenerateProof and VerifyProof.                                          *)
(***************************************************************************)
Challenge(b, mz, t2, t3) ==
  hash_to_scalar([b |-> b, m |-> Terms(mz.d, mz.m), z |-> Terms(mz.d, mz.z),
                  t2 |-> t2, t3 |-> t3])

generate_proof_with_r(k, a, b, C, D, r) ==
  LET mz == compute_composites_fast(k, b, C, D)
      t2 == [one |-> Terms(Unit, Scaled(r, <<a>>)), chals |-> {}]
      t3 == [one |-> Terms(mz.d, Scaled(r, mz.m)), chals |-> {}]
      c  == Challenge(b, mz, t2, t3)
  IN  [c |-> c, s |-> Linear(r, scalar_sub(0, k), c)]

\* The challenge VerifyProof reconstructs from the proof and the statement.
ExpectedChallenge(a, b, C, D, proof) ==
  LET mz == compute_composites(b, C, D)
      t2 == Respond(Unit, proof.s, <<a>>, proof.c, <<b>>)
      t3 == Respond(mz.d, proof.s, mz.m, proof.c, mz.z)
  IN  Challenge(b, mz, t2, t3)

verify_proof(a, b, C, D, proof) == ExpectedChallenge(a, b, C, D, proof) = proof.c

(* The challenge c does not occur in the commitments of its own            *)
(* transcript.  A hash output is known only after its input is, so every   *)
(* challenge that is computed is grounded.                                 *)
Grounded(c) ==
  "hash" \in DOMAIN c =>
    \A term \in c.hash.t2.chals \cup c.hash.t3.chals : term[1] # c

(***************************************************************************)
(* Proof on the wire: SerializeScalar(c) || SerializeScalar(s).  The field *)
(* whole is FALSE of a buffer that is not 64 bytes long.                   *)
(***************************************************************************)
proof_to_bytes(proof) == [whole |-> TRUE, c |-> proof.c, s |-> proof.s]

proof_from_bytes(buf) ==
  IF ~buf.whole \/ buf.c = RawScalar(NonCanonical) \/ buf.s.one = NonCanonical
  THEN Err("Deserialize")
  ELSE Ok([c |-> buf.c, s |-> buf.s])
=============================================================================
