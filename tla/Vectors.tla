------------------------------ MODULE Vectors ------------------------------
(***************************************************************************)
(* The vector arithmetic of pipeline/cluster.py in exact integers.         *)
(*                                                                         *)
(* An embedding is a pair of naturals.  A stored centroid is a mean, kept  *)
(* here as the SUM it is the mean of: cosine similarity does not change    *)
(* when a vector is scaled by a positive number, so comparing with the sum *)
(* is comparing with the mean, and no division or square root is needed.   *)
(* The rounding of float32 is abstracted.                                  *)
(***************************************************************************)
EXTENDS Integers, Folds

Vector == Nat \X Nat

Plus(v, w) == <<v[1] + w[1], v[2] + w[2]>>

\* The sum of vec(x) over the elements x of S.
VectorSum(vec(_), S) ==
    MapThenFoldSet(Plus, <<0, 0>>, vec, LAMBDA t : CHOOSE x \in t : TRUE, S)

Dot(v, w) == v[1] * w[1] + v[2] * w[2]

\* cosine(v, s) > TAU_EVENT = 3/4, cleared of the square root.  A zero
\* vector has similarity 0.0 in the code, hence no match: Dot is then 0.
Matches(v, s) ==
    /\ Dot(v, s) > 0
    /\ 16 * Dot(v, s) * Dot(v, s) > 9 * Dot(v, v) * Dot(s, s)

\* cosine(v, s) > cosine(v, t), where both are positive.
Closer(v, s, t) ==
    Dot(v, s) * Dot(v, s) * Dot(t, t) > Dot(v, t) * Dot(v, t) * Dot(s, s)
=============================================================================
