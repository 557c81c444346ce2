---------------------------- MODULE ValueHandles ----------------------------
(***************************************************************************)
(* What shared_cow_vector and shared_cow_string promise: every handle has  *)
(* contents of its own.  Assigning to one handle, or destroying it, is     *)
(* never seen through another one.                                         *)
(***************************************************************************)
EXTENDS Sequences

CONSTANTS Handle, Contents

VARIABLE val   \* live handle -> its contents

Init == val = [h \in {} |-> <<>>]

Assigned(h, v) == [g \in DOMAIN val \cup {h} |-> IF g = h THEN v ELSE val[g]]

Set(h, v) == val' = Assigned(h, v)

Copy(h, o) == o \in DOMAIN val /\ val' = Assigned(h, val[o])

(* The source of a move keeps its contents or is left empty. *)
Move(h, o) ==
  /\ o \in DOMAIN val /\ h # o
  /\ \E left \in {val[o], <<>>} :
       val' = [Assigned(h, val[o]) EXCEPT ![o] = left]

Destroy(h) == val' = [g \in DOMAIN val \ {h} |-> val[g]]

Next == \E h \in Handle : \/ \E v \in Contents : Set(h, v)
                          \/ \E o \in Handle : Copy(h, o)
                          \/ \E o \in Handle : Move(h, o)
                          \/ Destroy(h)

Spec == Init /\ [][Next]_val
=============================================================================
