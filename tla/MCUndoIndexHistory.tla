------------------------- MODULE MCUndoIndexHistory -------------------------
(* Model values for model checking UndoIndexHistory. *)
EXTENDS UndoIndexHistory

CONSTANTS k1, k2, k3
=============================================================================
