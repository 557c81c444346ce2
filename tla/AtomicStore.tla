----------------------------- MODULE AtomicStore -----------------------------
(***************************************************************************)
(* What a database promises about its undo sessions: one stack of          *)
(* snapshots of all its indices together.                                  *)
(***************************************************************************)
EXTENDS Integers, Sequences

CONSTANTS Index, Version

VARIABLES now,       \* contents of each added index
          snapshots  \* contents of all of them at the start of each session

vars == <<now, snapshots>>

Init == now = [i \in {} |-> 0] /\ snapshots = <<>>

(* The database is opened without indices, and they are added one by one.  *)
Open == now' = [i \in {} |-> 0] /\ snapshots' = <<>>

With(f, i, v) == [j \in DOMAIN f \cup {i} |-> IF j = i THEN v ELSE f[j]]

(* An index joins with as many snapshots as the others have.  The first    *)
(* one may bring any number of its own.                                    *)
Add(i) ==
  /\ i \notin DOMAIN now
  /\ \E v \in Version : now' = With(now, i, v)
  /\ DOMAIN now # {} => Len(snapshots') = Len(snapshots)
  /\ \A k \in 1 .. Len(snapshots') :
       \E v \in Version : snapshots'[k] =
         With(IF DOMAIN now = {} THEN now ELSE snapshots[k], i, v)

Write(i, v) == now' = [now EXCEPT ![i] = v] /\ UNCHANGED snapshots

Start == snapshots' = Append(snapshots, now) /\ UNCHANGED now

Front == SubSeq(snapshots, 1, Len(snapshots) - 1)

Undo == snapshots # <<>> /\ now' = snapshots[Len(snapshots)] /\ snapshots' = Front

UndoAll == snapshots # <<>> /\ now' = snapshots[1] /\ snapshots' = <<>>

Squash == snapshots # <<>> /\ snapshots' = Front /\ UNCHANGED now

Commit == /\ \E k \in 1 .. Len(snapshots) :
               snapshots' = SubSeq(snapshots, k + 1, Len(snapshots))
          /\ UNCHANGED now

Next == \/ Open \/ Start \/ Undo \/ UndoAll \/ Squash \/ Commit
        \/ \E i \in Index : Add(i)
        \/ \E i \in DOMAIN now, v \in Version : Write(i, v)

Spec == Init /\ [][Next]_vars
=============================================================================
