------------------------------ MODULE UndoIndex ------------------------------
(***************************************************************************)
(* chainbase::undo_index (include/chainbase/undo_index.hpp): a multi-index *)
(* table that keeps, beside its rows, two singly linked lists of backups   *)
(* and a stack of undo states that point into them.                        *)
(*                                                                         *)
(* Abstraction.  A node of the table is named by its primary key.  A list  *)
(* is a function from positions to elements: a new element goes to the     *)
(* front, at the position above all others, and a pointer to an element is *)
(* its position (0 is the null pointer, the end of the list).  The ordered *)
(* trees are represented by the set of the nodes that are in them and the  *)
(* predicate Conflict; the order inside them is left out.                  *)
(***************************************************************************)
EXTENDS Integers, Sequences, FiniteSetsExt

CONSTANTS Key,           \* values of a secondary key
          Secondary,     \* the secondary (ordered_unique) indices
          MaxId,         \* bound: ids handed out are below MaxId
          MaxSessions,   \* bound on the sessions ever started
          MaxRevision,   \* bound on revision
          RetryRefused   \* may a client modify again an object whose
                         \* modification was refused in an open session?

ASSUME UndoIndexAssumption ==
  /\ MaxId \in Nat /\ MaxSessions \in Nat /\ MaxRevision \in Nat
  /\ RetryRefused \in BOOLEAN

VARIABLES node,               \* id -> allocated node: contents, _mtime, flag
          table,              \* the ids in the trees (_indices)
          old_values,         \* list of backups of modified rows
          removed_values,     \* list of removed nodes
          undo_stack,         \* undo states, oldest first
          next_id, revision, monotonic_revision

lists == <<old_values, removed_values>>
vars == <<node, table, lists, undo_stack, next_id, revision, monotonic_revision>>

Value == [Secondary -> Key]
Id == 0 .. MaxId - 1
Mtime == 0 .. MaxSessions
Node == [val : Value, mtime : Mtime, erased : BOOLEAN]
OldNode == [id : Id, val : Value, mtime : Mtime]
UndoState == [old_values_end : Nat, removed_values_end : Nat,
              old_next_id : 0 .. MaxId, ctime : Mtime]

Conflict(v, w) == \E i \in Secondary : v[i] = w[i]
Fits(v, x) == \A y \in table \ {x} : ~Conflict(v, node[y].val)

----------------------------------------------------------------------------
(* The lists *)

Height(L) == IF DOMAIN L = {} THEN 0 ELSE Max(DOMAIN L)
PushFront(L, e) == [p \in DOMAIN L \cup {Height(L) + 1} |->
                      IF p \in DOMAIN L THEN L[p] ELSE e]
Keep(f, S) == [p \in DOMAIN f \cap S |-> f[p]]
Drop(f, S) == [p \in DOMAIN f \ S |-> f[p]]

Depth == Len(undo_stack)
Top == undo_stack[Depth]
PopStack == SubSeq(undo_stack, 1, Depth - 1)

(* The elements in front of the one that undo state s points to *)
OldRegion(s) == {p \in DOMAIN old_values : p > s.old_values_end}
RemovedRegion(s) == {p \in DOMAIN removed_values : p > s.removed_values_end}
RemovedIds(s) == {removed_values[p] : p \in RemovedRegion(s)}
AllRemoved == {removed_values[p] : p \in DOMAIN removed_values}

Init ==
  /\ node = [x \in {} |-> 0]
  /\ table = {}
  /\ old_values = [p \in {} |-> 0]
  /\ removed_values = [p \in {} |-> 0]
  /\ undo_stack = <<>>
  /\ next_id = 0 /\ revision = 0 /\ monotonic_revision = 0

----------------------------------------------------------------------------
(* Changing rows *)

(* on_create: the _mtime of a new row *)
NewMtime_unset == 0   \* seeded bug
NewMtime == IF undo_stack = <<>> THEN 0 ELSE monotonic_revision

(* emplace, and on_create in it.  An object that violates uniqueness, or   *)
(* whose constructor throws, leaves everything as it was.                  *)
Emplace(v) ==
  /\ next_id < MaxId
  /\ Fits(v, next_id)
  /\ node' = [x \in DOMAIN node \cup {next_id} |->
                IF x = next_id
                THEN [val |-> v, mtime |-> NewMtime, erased |-> FALSE]
                ELSE node[x]]
  /\ table' = table \cup {next_id}
  /\ next_id' = next_id + 1
  /\ UNCHANGED <<lists, undo_stack, revision, monotonic_revision>>

(* on_modify: does modifying x first push a copy of x onto old_values? *)
BackedUp_once(x) == undo_stack # <<>> /\ node[x].mtime = 0   \* seeded bug
BackedUp(x) == undo_stack # <<>> /\ node[x].mtime < Top.ctime
Backup(x) == [id |-> x, val |-> node[x].val, mtime |-> node[x].mtime]

(* x looks modified in session s (its _mtime says so) and there is no      *)
(* backup of it: the state that a refused modification leaves behind.      *)
HasBackup(x, s) == \E p \in OldRegion(s) :
                     old_values[p].id = x /\ old_values[p].mtime < s.ctime
Unbacked(x) == \E i \in 1 .. Depth :
                 /\ x < undo_stack[i].old_next_id
                 /\ node[x].mtime >= undo_stack[i].ctime
                 /\ ~HasBackup(x, undo_stack[i])
MayModify(x) == RetryRefused \/ ~Unbacked(x)

(* modify, when the new contents fit (also when the modifier throws after  *)
(* it wrote them: they stay).                                              *)
Modify(x, v) ==
  /\ x \in table /\ MayModify(x)
  /\ Fits(v, x)
  /\ node' = [node EXCEPT ![x].val = v,
                          ![x].mtime = IF BackedUp(x) THEN monotonic_revision ELSE @]
  /\ old_values' = IF BackedUp(x) THEN PushFront(old_values, Backup(x))
                   ELSE old_values
  /\ UNCHANGED <<table, removed_values, undo_stack, next_id, revision, monotonic_revision>>

(* modify, when the new contents conflict and on_modify made a backup: the *)
(* contents come back from it and it is popped; _mtime keeps its stamp.    *)
ModifyReverted(x, v) ==
  /\ x \in table /\ MayModify(x)
  /\ ~Fits(v, x)
  /\ BackedUp(x)
  /\ node' = [node EXCEPT ![x].mtime = monotonic_revision]
  /\ UNCHANGED <<table, lists, undo_stack, next_id, revision, monotonic_revision>>

(* on_remove: is the node destroyed at once, no session being in need of it? *)
IsNew_mtime(x) == undo_stack = <<>> \/ node[x].mtime >= Top.ctime   \* seeded bug
IsNew(x) == undo_stack = <<>> \/ x >= Top.old_next_id

(* remove, once the contents of x are n.val: erase_impl, on_remove *)
RemoveNode(x, n) ==
  /\ table' = table \ {x}
  /\ IF IsNew(x)
     THEN /\ node' = Drop(node, {x})
          /\ UNCHANGED removed_values
     ELSE /\ node' = [node EXCEPT ![x] = [n EXCEPT !.erased = TRUE]]
          /\ removed_values' = PushFront(removed_values, x)
  /\ UNCHANGED <<old_values, undo_stack, next_id, revision, monotonic_revision>>

(* modify, when the new contents conflict and there is no backup *)
ModifyErased(x, v) ==
  /\ x \in table /\ MayModify(x)
  /\ ~Fits(v, x)
  /\ ~BackedUp(x)
  /\ RemoveNode(x, [node[x] EXCEPT !.val = v])

Remove(x) == x \in table /\ RemoveNode(x, node[x])

----------------------------------------------------------------------------
(* Sessions *)

(* add_session.  An empty list is remembered as a null pointer. *)
StateAt(time) == [old_values_end |-> Height(old_values),
                  removed_values_end |-> Height(removed_values),
                  old_next_id |-> next_id,
                  ctime |-> time]
NewState_revision == StateAt(revision + 1)   \* seeded bug
NewState == StateAt(monotonic_revision + 1)

StartSession ==
  /\ monotonic_revision < MaxSessions
  /\ revision < MaxRevision
  /\ undo_stack' = Append(undo_stack, NewState)
  /\ monotonic_revision' = monotonic_revision + 1
  /\ revision' = revision + 1
  /\ UNCHANGED <<node, table, lists, next_id>>

(* Backups ps of x, written back to its node newest first: the oldest stays. *)
RestoredFrom(x, ps) ==
  LET b == old_values[Min(ps)]
  IN IF ps = {} THEN node[x]
     ELSE [node[x] EXCEPT !.val = b.val, !.mtime = b.mtime]

(* undo, second loop: writes back what is older than session s. *)
OlderBackups(x, s) == {p \in OldRegion(s) :
                         old_values[p].id = x /\ old_values[p].mtime < s.ctime}
WrittenBack(x, s) == RestoredFrom(x, OlderBackups(x, s))

(* undo, third loop: insert_impl of the removed nodes, newest first, into  *)
(* trees that hold kept.  Its result is ignored: a node that conflicts     *)
(* with one already there stays outside of the trees.                      *)
Reinserted(s, kept, val) ==
  LET Enters[p \in RemovedRegion(s)] ==
        LET x == removed_values[p]
        IN /\ x < s.old_next_id
           /\ \A y \in kept : ~Conflict(val[x], val[y])
           /\ \A q \in RemovedRegion(s) :
                q > p /\ Enters[q] => ~Conflict(val[x], val[removed_values[q]])
      back == {p \in RemovedRegion(s) : removed_values[p] < s.old_next_id}
  IN {removed_values[p] : p \in {p \in back : Enters[p]}}

Undo ==
  /\ undo_stack # <<>>
  /\ LET s == Top
         new_ids == {x \in table : x >= s.old_next_id}
         back == {x \in RemovedIds(s) : x < s.old_next_id}
         val == [x \in DOMAIN node |-> WrittenBack(x, s).val]
     IN /\ table' = (table \ new_ids) \cup Reinserted(s, table \ new_ids, val)
        /\ node' = [x \in DOMAIN node \ (new_ids \cup (RemovedIds(s) \ back)) |->
                      IF x \in back THEN [WrittenBack(x, s) EXCEPT !.erased = FALSE]
                      ELSE WrittenBack(x, s)]
        /\ old_values' = Drop(old_values, OldRegion(s))
        /\ removed_values' = Drop(removed_values, RemovedRegion(s))
        /\ next_id' = s.old_next_id
  /\ undo_stack' = PopStack
  /\ revision' = revision - 1
  /\ UNCHANGED monotonic_revision

(* compress_impl: in the newest region, what is redundant once the         *)
(* sessions after s are squashed into s.                                   *)
Superfluous_newest(s) ==   \* seeded bug: all but the newest
  {p \in OldRegion(Top) : \E q \in OldRegion(Top) :
                            q > p /\ old_values[q].id = old_values[p].id}
Superfluous(s) == {p \in OldRegion(Top) : old_values[p].mtime >= s.ctime}
FoldedBackups(s) == {p \in OldRegion(Top) \ Superfluous(s) :
                       node[old_values[p].id].erased}
FoldedInto(x, s) == RestoredFrom(x, {p \in FoldedBackups(s) : old_values[p].id = x})

Compress(s) ==
  LET gone == {p \in RemovedRegion(Top) : removed_values[p] >= s.old_next_id}
  IN /\ node' = [x \in DOMAIN node \ {removed_values[p] : p \in gone} |->
                   FoldedInto(x, s)]
     /\ old_values' = Drop(old_values, Superfluous(s) \cup FoldedBackups(s))
     /\ removed_values' = Drop(removed_values, gone)

(* dispose, and dispose_undo when nothing is kept *)
Dispose_leak(old_kept, removed_kept) ==   \* seeded bug: nodes not destroyed
  /\ old_values' = Keep(old_values, old_kept)
  /\ removed_values' = Keep(removed_values, removed_kept)
  /\ UNCHANGED node
Dispose(old_kept, removed_kept) ==
  LET gone == DOMAIN removed_values \ removed_kept
  IN /\ node' = Drop(node, {removed_values[p] : p \in gone})
     /\ old_values' = Keep(old_values, old_kept)
     /\ removed_values' = Keep(removed_values, removed_kept)

DropTop == /\ undo_stack' = PopStack
           /\ revision' = revision - 1
           /\ UNCHANGED <<table, next_id, monotonic_revision>>

(* squash: squash_and_compress *)
Squash ==
  /\ undo_stack # <<>>
  /\ IF Depth >= 2 THEN Compress(undo_stack[Depth - 1]) ELSE Dispose({}, {})
  /\ DropTop

SquashFast_empty ==   \* seeded bug: no check of the stack
  /\ IF Depth <= 1 THEN Dispose({}, {}) ELSE UNCHANGED <<node, lists>>
  /\ DropTop
SquashFast ==
  /\ undo_stack # <<>>
  /\ IF Depth = 1 THEN Dispose({}, {}) ELSE UNCHANGED <<node, lists>>
  /\ DropTop

(* last_undo_session compresses the newest session before it shows it. *)
CompressLast ==
  /\ undo_stack # <<>>
  /\ Compress(Top)
  /\ UNCHANGED <<table, undo_stack, next_id, revision, monotonic_revision>>

KeptFrom_behind(L, end) == {p \in DOMAIN L : p > end}   \* seeded bug
KeptFrom(L, end) == {p \in DOMAIN L : p >= end}

(* commit.  The element that the oldest remaining session points to stays  *)
(* in each list ("This will leave one element around").                    *)
Commit(r) ==
  /\ IF r >= revision
     THEN Dispose({}, {}) /\ undo_stack' = <<>>
     ELSE /\ revision - r < Depth
          /\ LET first == Depth - (revision - r) + 1
                 s == undo_stack[first]
             IN /\ Dispose(KeptFrom(old_values, s.old_values_end),
                           KeptFrom(removed_values, s.removed_values_end))
                /\ undo_stack' = SubSeq(undo_stack, first, Depth)
  /\ UNCHANGED <<table, next_id, revision, monotonic_revision>>

SetRevision_unchecked(r) ==   \* seeded bug
  /\ revision' = r
  /\ UNCHANGED <<node, table, lists, undo_stack, next_id, monotonic_revision>>
SetRevision(r) ==
  /\ undo_stack = <<>>
  /\ r >= revision
  /\ revision' = r
  /\ UNCHANGED <<node, table, lists, undo_stack, next_id, monotonic_revision>>

Next ==
  \/ \E v \in Value : Emplace(v)
  \/ \E x \in table, v \in Value : Modify(x, v)
  \/ \E x \in table, v \in Value : ModifyReverted(x, v)
  \/ \E x \in table, v \in Value : ModifyErased(x, v)
  \/ \E x \in table : Remove(x)
  \/ StartSession
  \/ Undo
  \/ Squash
  \/ SquashFast
  \/ CompressLast
  \/ \E r \in 0 .. MaxRevision : Commit(r)
  \/ \E r \in 0 .. MaxRevision : SetRevision(r)

Spec == Init /\ [][Next]_vars

----------------------------------------------------------------------------
(* Properties *)

(* Every variable has its type. *)
TypeOK ==
  /\ DOMAIN node \subseteq Id /\ \A x \in DOMAIN node : node[x] \in Node
  /\ table \subseteq DOMAIN node
  /\ DOMAIN old_values \subseteq Nat \ {0}
  /\ \A p \in DOMAIN old_values : old_values[p] \in OldNode
  /\ DOMAIN removed_values \subseteq Nat \ {0}
  /\ \A p \in DOMAIN removed_values : removed_values[p] \in DOMAIN node
  /\ undo_stack \in Seq(UndoState)
  /\ next_id \in 0 .. MaxId
  /\ revision \in 0 .. MaxRevision
  /\ monotonic_revision \in Mtime

(* The pointers of the undo states never dangle: each is null or the       *)
(* position of an element that is still in its list, whatever was undone,  *)
(* squashed, compressed, popped or committed since, and a newer state      *)
(* never points behind an older one (get_old_values_end, iterator_to).     *)
EndsPresent ==
  \A i \in 1 .. Depth :
    /\ undo_stack[i].old_values_end \in DOMAIN old_values \cup {0}
    /\ undo_stack[i].removed_values_end \in DOMAIN removed_values \cup {0}
    /\ \A j \in 1 .. i :
         /\ undo_stack[j].old_values_end <= undo_stack[i].old_values_end
         /\ undo_stack[j].removed_values_end <= undo_stack[i].removed_values_end

(* The order that undo and squash compare against: sessions began in       *)
(* stack order, ids are handed out after all older ones, and no row was    *)
(* modified after the newest start of a session.                           *)
StackOrdered ==
  /\ \A i, j \in 1 .. Depth : i < j =>
       /\ undo_stack[i].ctime < undo_stack[j].ctime
       /\ undo_stack[i].old_next_id <= undo_stack[j].old_next_id
  /\ \A i \in 1 .. Depth : /\ undo_stack[i].ctime \in 1 .. monotonic_revision
                           /\ undo_stack[i].old_next_id <= next_id
  /\ \A x \in table \cup AllRemoved : x < next_id /\ node[x].mtime <= monotonic_revision

(* undo_stack_revision_range subtracts the depth of the stack from the     *)
(* unsigned revision: it must not wrap.                                    *)
RangeExists == Depth <= revision

(* A backup that undo or squash will still dereference refers to a node    *)
(* that has not been destroyed (old_node::_current).                       *)
CurrentAlive ==
  \A i \in 1 .. Depth : \A p \in OldRegion(undo_stack[i]) :
    old_values[p].mtime < undo_stack[i].ctime => old_values[p].id \in DOMAIN node

(* "A primary key exists at most once in either the main table or removed  *)
(* values", the flag says in which, and no node is in neither: it would    *)
(* never be destroyed.                                                     *)
NodesAccounted ==
  /\ DOMAIN node = table \cup AllRemoved
  /\ table \cap AllRemoved = {}
  /\ \A p, q \in DOMAIN removed_values :
       removed_values[p] = removed_values[q] => p = q
  /\ \A x \in DOMAIN node : node[x].erased <=> x \in AllRemoved

(* The unique indices stay unique, also after undo wrote old contents back *)
(* into nodes and reinserted removed ones.                                 *)
KeysUnique == \A x, y \in table : x # y => ~Conflict(node[x].val, node[y].val)

----------------------------------------------------------------------------
(* The inductive invariant: what the safety properties above rest on.      *)

(* New elements go to a position above all others. *)
HeightBounds(L) == Height(L) \in Nat /\ \A p \in DOMAIN L : p <= Height(L)

RemovedOnce ==
  /\ table \cap AllRemoved = {}
  /\ \A p, q \in DOMAIN removed_values :
       removed_values[p] = removed_values[q] => p = q

(* A row that was removed before a session began was there before it, and  *)
(* was not modified in it: commit may destroy it and keep the backups.     *)
RemovedBefore ==
  \A i \in 1 .. Depth : \A p \in DOMAIN removed_values :
    p <= undo_stack[i].removed_values_end =>
      /\ removed_values[p] < undo_stack[i].old_next_id
      /\ \A q \in OldRegion(undo_stack[i]) : old_values[q].id # removed_values[p]

(* A row that a session created has no contents that are older than it. *)
NewIsRecent ==
  \A i \in 1 .. Depth :
    /\ \A x \in table \cup AllRemoved :
         x >= undo_stack[i].old_next_id => node[x].mtime >= undo_stack[i].ctime
    /\ \A q \in OldRegion(undo_stack[i]) :
         old_values[q].id >= undo_stack[i].old_next_id =>
           old_values[q].mtime >= undo_stack[i].ctime

BackupsPast == \A p \in DOMAIN old_values : old_values[p].mtime <= monotonic_revision

(* The conjunction of all that, which every step preserves. *)
IndInv ==
  /\ TypeOK
  /\ HeightBounds(old_values) /\ HeightBounds(removed_values)
  /\ RemovedOnce /\ RemovedBefore /\ NewIsRecent /\ BackupsPast
  /\ EndsPresent /\ StackOrdered /\ RangeExists /\ CurrentAlive

----------------------------------------------------------------------------
(* Refinement: the rows at the start of each session, reconstructed from   *)
(* the lists, are the snapshots of UndoTable.                              *)

Rows == [x \in table |-> node[x].val]

RowsAtStart(s) ==
  [x \in {x \in table \cup RemovedIds(s) : x < s.old_next_id} |-> WrittenBack(x, s).val]

Snapshots == [i \in 1 .. Depth |-> [rows |-> RowsAtStart(undo_stack[i]),
                                    next_id |-> undo_stack[i].old_next_id]]

Table == INSTANCE UndoTable WITH rows <- Rows, stack <- Snapshots

(* undo_index implements UndoTable: every operation does to the rows, and  *)
(* to the snapshots of all open sessions, what UndoTable says, in          *)
(* particular undo gives back the rows as they were ("undo will restore    *)
(* the state"), and squash, last_undo_session and commit lose no backup    *)
(* that an older session needs.                                            *)
ImplementsTable == Table!Spec

(* Why the snapshots survive: the oldest backup that a session s has of a  *)
(* row which was there when it began was made by the first modification in *)
(* s, and holds the contents from before.  squash, compress and an undo of *)
(* a newer session drop backups behind that one only.                      *)
OldestPredates(s) ==
  \A p \in OldRegion(s) :
    old_values[p].id < s.old_next_id /\ old_values[p].mtime >= s.ctime =>
      \E q \in OldRegion(s) : /\ q < p
                              /\ old_values[q].id = old_values[p].id
                              /\ old_values[q].mtime < s.ctime

UniqueRows(f) == \A x, y \in DOMAIN f : x # y => ~Conflict(f[x], f[y])

(* What the refinement rests on.  That the snapshots have unique keys is   *)
(* what lets undo insert all of the rows it has to.                        *)
RefInv ==
  /\ IndInv
  /\ NodesAccounted /\ KeysUnique
  /\ \A i \in 1 .. Depth : /\ OldestPredates(undo_stack[i])
                           /\ UniqueRows(RowsAtStart(undo_stack[i]))
=============================================================================
