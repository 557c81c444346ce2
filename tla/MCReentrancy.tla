----------------------------- MODULE MCReentrancy -----------------------------
(* Model values and symmetry for the runs of Reentrancy. *)
EXTENDS Reentrancy, TLC

CONSTANTS k1, k2, k3

KeySymmetry == Permutations(Key)
===============================================================================
