------------------------------ MODULE UndoTable ------------------------------
(***************************************************************************)
(* What an undo_index promises to its users: a table of rows with unique   *)
(* keys and a stack of undo sessions, each of which is a full snapshot of  *)
(* the table and of the next id, taken when the session began (the class   *)
(* comment of undo_index: "Each undo session remembers the state of the    *)
(* table at the point when it was created").                               *)
(* UndoIndex, which keeps backups of single rows instead, implements it.   *)
(***************************************************************************)
EXTENDS Integers, Sequences

CONSTANTS Value,           \* contents of an object, its id excepted
          Conflict(_, _),  \* two contents that share a unique key
          MaxId,           \* bound: ids handed out are below MaxId
          MaxRevision      \* bound on revision

VARIABLES rows,      \* live id -> contents
          next_id,   \* id of the next created object
          stack,     \* snapshots, oldest first
          revision   \* number of the newest session

vars == <<rows, next_id, stack, revision>>

Init == /\ rows = [x \in {} |-> 0]
        /\ next_id = 0
        /\ stack = <<>>
        /\ revision = 0

Fits(v, x) == \A y \in DOMAIN rows \ {x} : ~Conflict(v, rows[y])

(* A new object gets the next id.  A conflicting one changes nothing. *)
Create(v) ==
  /\ next_id < MaxId
  /\ next_id' = next_id + 1
  /\ Fits(v, next_id)
  /\ rows' = [x \in DOMAIN rows \cup {next_id} |->
                IF x = next_id THEN v ELSE rows[x]]
  /\ UNCHANGED <<revision, stack>>

Modify(x, v) ==
  /\ UNCHANGED <<next_id, revision>>
  /\ x \in DOMAIN rows
  /\ Fits(v, x)
  /\ rows' = [rows EXCEPT ![x] = v]
  /\ UNCHANGED stack

(* Erases x: on request, or because a modification of x was refused ("it   *)
(* will either be reverted or erased"; reverting is a stuttering step).    *)
Erase(x) ==
  /\ UNCHANGED <<next_id, revision>>
  /\ x \in DOMAIN rows
  /\ rows' = [y \in DOMAIN rows \ {x} |-> rows[y]]
  /\ UNCHANGED stack

StartSession ==
  /\ revision < MaxRevision
  /\ revision' = revision + 1
  /\ stack' = Append(stack, [rows |-> rows, next_id |-> next_id])
  /\ UNCHANGED <<rows, next_id>>

(* Back to the newest snapshot, exactly. *)
Undo ==
  /\ stack # <<>>
  /\ revision' = revision - 1
  /\ next_id' = stack[Len(stack)].next_id
  /\ rows' = stack[Len(stack)].rows
  /\ stack' = SubSeq(stack, 1, Len(stack) - 1)

(* The newest session becomes part of the one below. *)
Squash ==
  /\ stack # <<>>
  /\ revision' = revision - 1
  /\ UNCHANGED <<rows, next_id>>
  /\ stack' = SubSeq(stack, 1, Len(stack) - 1)

(* Forgets the snapshots of the sessions up to revision r. *)
Commit(r) ==
  /\ UNCHANGED <<rows, next_id, revision>>
  /\ r < revision => revision - r < Len(stack)
  /\ stack' = IF r >= revision THEN <<>>
              ELSE SubSeq(stack, Len(stack) - (revision - r) + 1, Len(stack))

SetRevision(r) ==
  /\ stack = <<>>
  /\ r >= revision
  /\ revision' = r
  /\ UNCHANGED <<rows, next_id, stack>>

Next ==
  \/ \E v \in Value : Create(v)
  \/ \E x \in DOMAIN rows, v \in Value : Modify(x, v)
  \/ \E x \in DOMAIN rows : Erase(x)
  \/ StartSession
  \/ Undo
  \/ Squash
  \/ \E r \in 0 .. MaxRevision : Commit(r)
  \/ \E r \in 0 .. MaxRevision : SetRevision(r)

Spec == Init /\ [][Next]_vars
=============================================================================
