----------------------------- MODULE MCUndoIndex -----------------------------
(* Model values, symmetry and a constraint for model checking UndoIndex.   *)
EXTENDS UndoIndex, TLC

CONSTANTS k1, k2, k3

KeySymmetry == Permutations(Key)

(* With RetryRefused, undo may leave a node in neither the trees nor a     *)
(* list.  A backup that refers to such a node makes a later undo re-sort   *)
(* it in trees it is not in, which is undefined: those states end a run.   *)
NothingLeaked == DOMAIN node = table \cup AllRemoved
=============================================================================
