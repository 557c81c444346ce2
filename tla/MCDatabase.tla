----------------------------- MODULE MCDatabase -----------------------------
(* Model values for model checking Database. *)
EXTENDS Database

CONSTANTS a, b

IndexSymmetry == Permutations(Index)
=============================================================================
