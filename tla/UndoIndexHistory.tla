-------------------------- MODULE UndoIndexHistory --------------------------
(* UndoIndex with a record of the rows at the start of every open session, *)
(* to compare what undo leaves with what the session began with.           *)
EXTENDS UndoIndex

VARIABLE begun   \* Rows at the start of each open session, oldest first

hvars == <<vars, begun>>

HInit == Init /\ begun = <<>>

HNext ==
  /\ Next
  /\ begun' = CASE Len(undo_stack') > Depth -> Append(begun, Rows)
                [] Len(undo_stack') = Depth -> begun
                [] OTHER ->
                     IF revision' = revision   \* commit forgets old sessions
                     THEN SubSeq(begun, Depth - Len(undo_stack') + 1, Depth)
                     ELSE SubSeq(begun, 1, Depth - 1)

HSpec == HInit /\ [][HNext]_hvars

(* "Resets the contents to the state at the top of the undo stack"         *)
(* (undo), also when a modification was refused in the session: "If an     *)
(* exception is thrown while an undo session is active, undo will restore  *)
(* the state" (test/undo_index.cpp).                                       *)
UndoRestores == [][Undo => Rows' = begun[Depth]]_hvars
=============================================================================
