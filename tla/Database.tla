------------------------------ MODULE Database ------------------------------
(***************************************************************************)
(* chainbase::database (include/chainbase/chainbase.hpp, src/              *)
(* chainbase.cpp): the indices that live in the segment, those that were   *)
(* added to the open database, the session objects, and read-only mode.    *)
(*                                                                         *)
(* Each index is what UndoTable says of it (UndoIndex implements that),    *)
(* with its rows summed up in one value: their version, 0 for no rows.     *)
(***************************************************************************)
EXTENDS Integers, Sequences, SequencesExt

CONSTANTS Index,             \* the object types
          MaxVersion,        \* bound on versions
          MaxRevision,       \* bound on revisions
          MaxLive,           \* bound on live session objects
          AddDuringSession   \* may indices be added while session objects live?

ASSUME DatabaseAssumption ==
  /\ MaxVersion \in Nat /\ MaxRevision \in Nat /\ MaxLive \in Nat
  /\ AddDuringSession \in BOOLEAN

VARIABLES segment,           \* constructed index -> its table (persistent)
          _index_list,       \* added indices, in the order they were added
          sessions,          \* live session objects: the indices each undoes
          opened,            \* is a database object open?
          _read_only, _read_only_mode

object == <<_index_list, sessions, opened, _read_only, _read_only_mode>>
vars == <<segment, object>>

Version == 0 .. MaxVersion
Table == [rows : Version, stack : Seq(Version), revision : 0 .. MaxRevision]

----------------------------------------------------------------------------
(* The operations of one index, on its table *)

Pop(s) == SubSeq(s, 1, Len(s) - 1)

TStart(t) == [t EXCEPT !.stack = Append(@, t.rows), !.revision = @ + 1]
TUndo(t) == IF t.stack = <<>> THEN t
            ELSE [rows |-> Last(t.stack), stack |-> Pop(t.stack),
                  revision |-> t.revision - 1]
TUndoAll(t) == IF t.stack = <<>> THEN t
               ELSE [rows |-> t.stack[1], stack |-> <<>>,
                     revision |-> t.revision - Len(t.stack)]
TSquash(t) == IF t.stack = <<>> THEN t
              ELSE [t EXCEPT !.stack = Pop(@), !.revision = @ - 1]
TCommit(t, r) ==
  LET newer == t.revision - r
  IN IF newer <= 0 THEN [t EXCEPT !.stack = <<>>]
     ELSE IF newer < Len(t.stack)
     THEN [t EXCEPT !.stack = SubSeq(@, Len(@) - newer + 1, Len(@))]
     ELSE t

(* undo_stack_revision_range *)
Range_(t) == <<t.revision - Len(t.stack), t.revision>>

Added == ToSet(_index_list)

(* The indices of sequence s, each changed by Op *)
Apply(s, Op(_)) ==
  segment' = [i \in DOMAIN segment |->
                IF i \in ToSet(s) THEN Op(segment[i]) ELSE segment[i]]

Init ==
  /\ segment = [i \in {} |-> 0]
  /\ _index_list = <<>> /\ sessions = <<>>
  /\ opened = FALSE /\ _read_only = FALSE /\ _read_only_mode = FALSE

----------------------------------------------------------------------------
(* The database object *)

Open(read_only) ==
  /\ ~opened /\ opened' = TRUE
  /\ _read_only' = read_only /\ _read_only_mode' = read_only
  /\ UNCHANGED <<segment, _index_list, sessions>>

(* ~database.  Session objects refer to the indices and are gone before. *)
Close ==
  /\ opened /\ opened' = FALSE
  /\ sessions = <<>>
  /\ _index_list' = <<>>
  /\ UNCHANGED <<segment, sessions, _read_only, _read_only_mode>>

SetReadOnlyMode ==
  /\ opened /\ _read_only_mode' = TRUE
  /\ UNCHANGED <<segment, _index_list, sessions, opened, _read_only>>

UnsetReadOnlyMode_any ==   \* seeded bug
  /\ opened
  /\ _read_only_mode' = FALSE
  /\ UNCHANGED <<segment, _index_list, sessions, opened, _read_only>>
UnsetReadOnlyMode ==
  /\ opened /\ ~_read_only
  /\ _read_only_mode' = FALSE
  /\ UNCHANGED <<segment, _index_list, sessions, opened, _read_only>>

(* A new index with the first revision of range, and pushed sessions of    *)
(* its own up to revision upto                                             *)
Filled(range, upto) ==
  [rows |-> 0, stack |-> [k \in 1 .. upto - range[1] |-> 0], revision |-> upto]

Expected == Range_(segment[Head(_index_list)])
Constructed(i, t) == segment' = [j \in DOMAIN segment \cup {i} |->
                                   IF j = i THEN t ELSE segment[j]]
MayAdd_twice(i) == opened /\ sessions = <<>>   \* seeded bug
MayAdd(i) == /\ opened /\ i \notin Added
             /\ AddDuringSession \/ sessions = <<>>

(* add_index of an index that the segment has: refused when its undo stack *)
(* does not match the others'.                                             *)
Consistent_any(i) == TRUE   \* seeded bug
Consistent(i) == _index_list # <<>> => Range_(segment[i]) = Expected
AddExisting(i) ==
  /\ MayAdd(i) /\ i \in DOMAIN segment
  /\ Consistent(i)
  /\ _index_list' = Append(_index_list, i)
  /\ UNCHANGED <<segment, sessions, opened, _read_only, _read_only_mode>>

(* add_index of an index that the segment does not have: it is constructed *)
(* and brought up to the others.                                           *)
MayConstruct == ~_read_only
AddNew(i) ==
  /\ MayAdd(i) /\ i \notin DOMAIN segment
  /\ MayConstruct
  /\ Constructed(i, IF _index_list = <<>> THEN Filled(<<0, 0>>, 0)
                    ELSE Filled(Expected, Expected[2]))
  /\ _index_list' = Append(_index_list, i)
  /\ UNCHANGED <<sessions, opened, _read_only, _read_only_mode>>

(* add_index, when memory runs out while it starts the sessions: the index *)
(* stays in the segment, and is not added.                                 *)
AddNewFails(i, upto) ==
  /\ MayAdd(i) /\ i \notin DOMAIN segment
  /\ MayConstruct
  /\ _index_list # <<>> /\ upto \in Expected[1] .. Expected[2] - 1
  /\ Constructed(i, Filled(Expected, upto))
  /\ UNCHANGED object

----------------------------------------------------------------------------
(* Rows and sessions *)

(* create, modify and remove of objects of type i *)
Write(i, v) ==
  /\ opened /\ ~_read_only_mode /\ i \in Added
  /\ segment' = [segment EXCEPT ![i].rows = v]
  /\ UNCHANGED object

(* start_undo_session(true).  When a sub-session cannot be started, those  *)
(* started before it are destroyed and undo their index: nothing changes.  *)
StartUndoSession ==
  /\ opened /\ ~_read_only_mode
  /\ Len(sessions) < MaxLive
  /\ \A i \in Added : segment[i].revision < MaxRevision
  /\ Apply(_index_list, TStart)
  /\ sessions' = Append(sessions, _index_list)
  /\ UNCHANGED <<_index_list, opened, _read_only, _read_only_mode>>

(* push, squash and undo of session object k, which end it; its destructor *)
(* is undo.  They do not look at the mode of the database.                 *)
End(k) == /\ sessions' = RemoveAt(sessions, k)
          /\ UNCHANGED <<_index_list, opened, _read_only, _read_only_mode>>

SessionPush(k) == End(k) /\ UNCHANGED segment
SessionSquash(k) == End(k) /\ Apply(sessions[k], TSquash)
SessionUndo_first(k) ==   \* seeded bug: only one of the indices
  End(k) /\ Apply(SelectSeq(sessions[k], LAMBDA i : i = Head(sessions[k])), TUndo)
SessionUndo(k) == End(k) /\ Apply(sessions[k], TUndo)

(* database::undo, squash, commit, undo_all *)
MayUndo == opened /\ ~_read_only_mode

Undo == MayUndo /\ Apply(_index_list, TUndo) /\ UNCHANGED object
Squash == MayUndo /\ Apply(_index_list, TSquash) /\ UNCHANGED object
UndoAll == MayUndo /\ Apply(_index_list, TUndoAll) /\ UNCHANGED object

(* commit takes a signed revision and hands it on as an unsigned one. *)
Unsigned(r) == IF r < 0 THEN MaxRevision + 1 ELSE r
Commit(r) ==
  /\ MayUndo
  /\ LET C(t) == TCommit(t, Unsigned(r)) IN Apply(_index_list, C)
  /\ UNCHANGED object

(* set_revision, index by index up to the first that refuses *)
Refuses(i, r) == segment[i].stack # <<>> \/ r < segment[i].revision
BeforeRefusal(r) ==
  {i \in Added : \A k \in 1 .. Len(_index_list) :
     (\A j \in 1 .. k - 1 : _index_list[j] # i) => ~Refuses(_index_list[k], r)}
SetRevision(r) ==
  /\ MayUndo
  /\ segment' = [i \in DOMAIN segment |->
                   IF i \in BeforeRefusal(r) THEN [segment[i] EXCEPT !.revision = r]
                   ELSE segment[i]]
  /\ UNCHANGED object

Next ==
  \/ \E ro \in BOOLEAN : Open(ro)
  \/ Close
  \/ SetReadOnlyMode
  \/ UnsetReadOnlyMode
  \/ \E i \in Index : AddExisting(i)
  \/ \E i \in Index : AddNew(i)
  \/ \E i \in Index, upto \in 0 .. MaxRevision : AddNewFails(i, upto)
  \/ \E i \in Index, v \in Version : Write(i, v)
  \/ StartUndoSession
  \/ \E k \in DOMAIN sessions : SessionPush(k)
  \/ \E k \in DOMAIN sessions : SessionSquash(k)
  \/ \E k \in DOMAIN sessions : SessionUndo(k)
  \/ Undo
  \/ Squash
  \/ UndoAll
  \/ \E r \in -1 .. MaxRevision : Commit(r)
  \/ \E r \in 0 .. MaxRevision : SetRevision(r)

Spec == Init /\ [][Next]_vars

----------------------------------------------------------------------------
(* Properties *)

TypeOK ==
  /\ DOMAIN segment \subseteq Index
  /\ \A i \in DOMAIN segment : /\ segment[i] \in Table
                               /\ Len(segment[i].stack) <= segment[i].revision
  /\ _index_list \in Seq(DOMAIN segment) /\ IsInjective(_index_list)
  /\ sessions \in Seq(Seq(Index))
  /\ opened \in BOOLEAN /\ _read_only \in BOOLEAN /\ _read_only_mode \in BOOLEAN

(* The added indices move in lockstep: one revision and one depth of the   *)
(* undo stack, although each operation visits the indices one by one and   *)
(* indices come and go with the programs that open the file.  revision()   *)
(* asks the first index only.                                              *)
Lockstep ==
  \A i, j \in Added : Range_(segment[i]) = Range_(segment[j])

Depth == IF _index_list = <<>> THEN 0 ELSE Len(segment[Head(_index_list)].stack)
Now == [i \in Added |-> segment[i].rows]
Snapshots == [k \in 1 .. Depth |-> [i \in Added |-> segment[i].stack[k]]]

Atomic == INSTANCE AtomicStore WITH now <- Now, snapshots <- Snapshots

(* The sessions of the database are atomic: undoing one takes every index  *)
(* back to what it was when the session began.                             *)
SessionsAtomic == Atomic!Spec

(* While the file is open for reading only, nothing in it changes: there   *)
(* is no way out of read-only mode, and no session object left to undo.    *)
ReadOnlyOpenUnchanged ==
  [][opened /\ opened' /\ _read_only => UNCHANGED segment]_vars

(* "When _read_only_mode is set to true, an exception is thrown when       *)
(* modification attempt is made on chainbase": no row changes in read-only *)
(* mode.                                                                   *)
ReadOnlyModeUnchanged ==
  [][_read_only_mode /\ _read_only_mode' =>
       \A i \in DOMAIN segment : segment'[i].rows = segment[i].rows]_vars
=============================================================================
