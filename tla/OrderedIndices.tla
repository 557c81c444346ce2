---------------------------- MODULE OrderedIndices ----------------------------
(***************************************************************************)
(* The trees of chainbase::undo_index, which UndoIndex sums up as a set:   *)
(* each ordered index as the sequence of its nodes, and what insert_impl,  *)
(* post_modify and erase_impl do to the indices one after the other.       *)
(* Balancing is left out, boost::intrusive does it.                        *)
(***************************************************************************)
EXTENDS UndoIndex

Seqs == INSTANCE SequencesExt

CONSTANT Indices   \* the secondary indices in the order of the tree functions

ById == "id"
All == <<ById>> \o Indices

ASSUME OrderedIndicesAssumption ==
  /\ Key \subseteq Int
  /\ Indices \in Seq(Secondary) /\ Range(Indices) = Secondary
  /\ \A j, k \in DOMAIN Indices : Indices[j] = Indices[k] => j = k
  /\ ById \notin Secondary

VARIABLE tree   \* index -> its nodes, in order

KeyOf(i, x, val) == IF i = ById THEN x ELSE val[x][i]
ValNow == [x \in DOMAIN node |-> node[x].val]

----------------------------------------------------------------------------
(* One index: t is a tree of index i, val the contents of the nodes. *)

Position(t, x) == CHOOSE k \in DOMAIN t : t[k] = x
Without(t, x) == Seqs!RemoveAt(t, Position(t, x))

(* The first position whose key is greater than that of x *)
UpperBound(t, i, x, val) ==
  Min({k \in DOMAIN t : KeyOf(i, t[k], val) > KeyOf(i, x, val)} \cup {Len(t) + 1})

InsertEqual(t, i, x, val) == Seqs!InsertAt(t, UpperBound(t, i, x, val), x)

Equals(t, i, x, val) == {k \in DOMAIN t : KeyOf(i, t[k], val) = KeyOf(i, x, val)}

(* insert_unique, and insert_before when it finds another one there *)
InsertUnique(t, i, x, val) ==
  IF Equals(t, i, x, val) = {} THEN InsertEqual(t, i, x, val)
  ELSE Seqs!InsertAt(t, Min(Equals(t, i, x, val)), x)

(* Does x compare wrongly with one of its neighbours? *)
Misplaced_left(t, i, x, val) ==   \* seeded bug: only one of them is looked at
  LET k == Position(t, x)
  IN k > 1 /\ KeyOf(i, t[k-1], val) >= KeyOf(i, x, val)
Misplaced_equal(t, i, x, val) ==   \* seeded bug: equal ones are in order
  LET k == Position(t, x)
  IN \/ k > 1 /\ KeyOf(i, t[k-1], val) > KeyOf(i, x, val)
     \/ k < Len(t) /\ KeyOf(i, t[k+1], val) < KeyOf(i, x, val)
Misplaced(t, i, x, val) ==
  LET k == Position(t, x)
  IN \/ k > 1 /\ KeyOf(i, t[k-1], val) >= KeyOf(i, x, val)
     \/ k < Len(t) /\ KeyOf(i, t[k+1], val) <= KeyOf(i, x, val)

----------------------------------------------------------------------------
(* All of them: T maps each index to its tree. *)

(* post_modify in one index.  A node that is refused stays in that index,  *)
(* before the node it conflicts with.                                      *)
Refit(unique, T, i, x, val) ==
  LET rest == Without(T[i], x)
  IN IF ~Misplaced(T[i], i, x, val) THEN [tree |-> T, ok |-> TRUE]
     ELSE [tree |-> [T EXCEPT ![i] = IF unique THEN InsertUnique(rest, i, x, val)
                                     ELSE InsertEqual(rest, i, x, val)],
           ok |-> unique => Equals(rest, i, x, val) = {}]

(* post_modify<unique, 1>: index by index, up to the first that refuses *)
PostModify_last(unique, T, x, val) ==   \* seeded bug: goes on after a refusal
  LET after[k \in 0 .. Len(Indices)] ==
        IF k = 0 THEN [tree |-> T, ok |-> TRUE]
        ELSE Refit(unique, after[k-1].tree, Indices[k], x, val)
  IN after[Len(Indices)]
PostModify(unique, T, x, val) ==
  LET after[k \in 0 .. Len(Indices)] ==
        IF k = 0 THEN [tree |-> T, ok |-> TRUE]
        ELSE IF after[k-1].ok THEN Refit(unique, after[k-1].tree, Indices[k], x, val)
        ELSE after[k-1]
  IN after[Len(Indices)]

(* insert_impl: into each index of which, or, when one refuses, into none *)
InsertImpl_partly(which, T, x, val) ==   \* seeded bug: no guard takes it out again
  [i \in DOMAIN T |-> IF i \in which /\ Equals(T[i], i, x, val) = {}
                      THEN InsertEqual(T[i], i, x, val) ELSE T[i]]
InsertImpl(which, T, x, val) ==
  IF \A i \in which : Equals(T[i], i, x, val) = {}
  THEN [i \in DOMAIN T |-> IF i \in which THEN InsertEqual(T[i], i, x, val)
                           ELSE T[i]]
  ELSE T

EraseImpl(T, x) == [i \in DOMAIN T |-> Without(T[i], x)]

----------------------------------------------------------------------------
(* undo, its three loops: new rows leave in the order of their ids, old    *)
(* contents are written back newest first and each row sorted in again,    *)
(* removed rows come back newest first.                                    *)

NewErased(s) ==
  LET after[n \in 0 .. next_id - s.old_next_id] ==
        IF n = 0 THEN tree
        ELSE LET x == s.old_next_id + n - 1
             IN IF x \in table THEN EraseImpl(after[n-1], x) ELSE after[n-1]
  IN after[next_id - s.old_next_id]

WriteBack(s, r, p) ==
  LET b == old_values[p]
      val == [r.val EXCEPT ![b.id] = b.val]
  IN IF p \notin DOMAIN old_values \/ b.mtime >= s.ctime THEN r
     ELSE IF node[b.id].erased THEN [tree |-> r.tree, val |-> val]
     ELSE [tree |-> PostModify(FALSE, r.tree, b.id, val).tree, val |-> val]

OldWritten(s) ==
  LET after[n \in 0 .. Height(old_values) - s.old_values_end] ==
        IF n = 0 THEN [tree |-> NewErased(s), val |-> ValNow]
        ELSE WriteBack(s, after[n-1], Height(old_values) + 1 - n)
  IN after[Height(old_values) - s.old_values_end]

Reinsert(s, T, val, p) ==
  LET x == removed_values[p]
  IN IF p \notin DOMAIN removed_values \/ x >= s.old_next_id THEN T
     ELSE InsertImpl(Range(All), T, x, val)

TreesUndone ==
  LET s == Top
      old == OldWritten(s)
      after[n \in 0 .. Height(removed_values) - s.removed_values_end] ==
        IF n = 0 THEN old.tree
        ELSE Reinsert(s, after[n-1], old.val, Height(removed_values) + 1 - n)
  IN after[Height(removed_values) - s.removed_values_end]

----------------------------------------------------------------------------
(* modify: the trees after the modifier wrote v, and after a refusal *)
With(x, v) == [ValNow EXCEPT ![x] = v]
Modified(x, v) == PostModify(TRUE, tree, x, With(x, v))
Reverted(x, v) == PostModify(TRUE, Modified(x, v).tree, x, ValNow)

(* Actions: those of UndoIndex, each with what it does to the trees *)
Added(v) == [x \in DOMAIN node \cup {next_id} |->
               IF x = next_id THEN v ELSE node[x].val]
OrdEmplace(v) ==
  /\ Emplace(v)
  /\ tree' = [InsertImpl(Secondary, tree, next_id, Added(v))
                EXCEPT ![ById] = Append(@, next_id)]
OrdEmplaceRefused(v) ==
  /\ next_id < MaxId /\ ~Fits(v, next_id)
  /\ tree' = InsertImpl(Secondary, tree, next_id, Added(v))
  /\ UNCHANGED vars
OrdModify(x, v) == Modify(x, v) /\ tree' = Modified(x, v).tree
OrdModifyReverted(x, v) == ModifyReverted(x, v) /\ tree' = Reverted(x, v).tree
OrdModifyErased(x, v) ==
  ModifyErased(x, v) /\ tree' = EraseImpl(Modified(x, v).tree, x)
OrdRemove(x) == Remove(x) /\ tree' = EraseImpl(tree, x)
OrdUndo == Undo /\ tree' = TreesUndone

OrdInit == Init /\ tree = [i \in Range(All) |-> <<>>]

OrdNext ==
  \/ \E v \in Value : OrdEmplace(v) \/ OrdEmplaceRefused(v)
  \/ \E x \in table, v \in Value :
       OrdModify(x, v) \/ OrdModifyReverted(x, v) \/ OrdModifyErased(x, v)
  \/ \E x \in table : OrdRemove(x)
  \/ OrdUndo
  \/ (StartSession \/ Squash \/ SquashFast \/ CompressLast) /\ UNCHANGED tree
  \/ \E r \in 0 .. MaxRevision : (Commit(r) \/ SetRevision(r)) /\ UNCHANGED tree

OrdSpec == OrdInit /\ [][OrdNext]_<<vars, tree>>

----------------------------------------------------------------------------
(* Between operations each tree holds the rows of the table, all of them   *)
(* and no others, strictly sorted: however a modification was refused and  *)
(* however undo passed through duplicate keys.                             *)
TreesSorted ==
  \A i \in Range(All) :
    /\ Range(tree[i]) = table
    /\ \A j, k \in DOMAIN tree[i] :
         j < k => KeyOf(i, tree[i][j], ValNow) < KeyOf(i, tree[i][k], ValNow)

(* post_modify, which compares neighbours only, accepts new contents just  *)
(* when they conflict with no row; and after a refusal, which leaves some  *)
(* trees unsorted, putting back the old contents succeeds in all of them   *)
(* and restores them ("assert(success)" in modify).                        *)
VerdictRight ==
  \A x \in table, v \in Value :
    /\ Modified(x, v).ok = Fits(v, x)
    /\ ~Modified(x, v).ok => Reverted(x, v) = [tree |-> tree, ok |-> TRUE]
===============================================================================
