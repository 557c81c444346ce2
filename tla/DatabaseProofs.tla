---------------------------- MODULE DatabaseProofs ----------------------------
(***************************************************************************)
(* Proofs about Database, for any number of indices and any bounds: a file *)
(* that is open for reading only does not change; and, when indices are    *)
(* not added while session objects live, the added indices stay in         *)
(* lockstep, and Database implements AtomicStore: although every operation *)
(* visits the indices one by one, the sessions are snapshots of all of     *)
(* them together.                                                          *)
(***************************************************************************)
EXTENDS Database, TLAPS, SequenceTheorems

GoodTable == {t \in Table : Len(t.stack) <= t.revision}

----------------------------------------------------------------------------
(* The operations of one index: its table stays well-formed, and the range *)
(* of its revisions becomes a function of what the range was.              *)

LEMMA GoodFields ==
  ASSUME NEW t \in GoodTable
  PROVE  /\ t.rows \in Version /\ t.stack \in Seq(Version)
         /\ Len(t.stack) \in Nat /\ t.revision \in 0 .. MaxRevision
         /\ MaxRevision \in Nat /\ t.revision \in Nat
         /\ Len(t.stack) <= t.revision
         /\ t = [rows |-> t.rows, stack |-> t.stack, revision |-> t.revision]
  BY DatabaseAssumption DEF GoodTable, Table

LEMMA MakeGood ==
  ASSUME NEW w \in Version, NEW s \in Seq(Version), NEW r \in 0 .. MaxRevision,
         Len(s) <= r
  PROVE  /\ [rows |-> w, stack |-> s, revision |-> r] \in GoodTable
         /\ Range_([rows |-> w, stack |-> s, revision |-> r]) = <<r - Len(s), r>>
  BY DEF GoodTable, Table, Range_

LEMMA Popped ==
  ASSUME NEW s \in Seq(Version), s # <<>>
  PROVE  /\ Pop(s) \in Seq(Version) /\ Len(Pop(s)) = Len(s) - 1
         /\ Last(s) \in Version /\ s[1] \in Version /\ Len(s) \in Nat \ {0}
<1>1. Len(s) \in Nat \ {0} /\ \A i \in 1 .. Len(s) : s[i] \in Version
  BY EmptySeq
<1>2. \A i \in 1 .. Len(s) - 1 : s[i] \in Version
  BY <1>1
<1>3. Pop(s) \in Seq(Version) /\ Len(Pop(s)) = Len(s) - 1
  <2> DEFINE n == Len(s) - 1
  <2>1. n \in Int /\ n \in Nat /\ 1 \in Int /\ \A i \in 1 .. n : s[i] \in Version
    BY <1>1, <1>2
  <2> HIDE DEF n
  <2>2. SubSeq(s, 1, n) \in Seq(Version)
        /\ Len(SubSeq(s, 1, n)) = IF 1 <= n THEN n - 1 + 1 ELSE 0
    BY <2>1, SubSeqProperties
  <2>3. Len(SubSeq(s, 1, n)) = n
    BY <2>1, <2>2
  <2> QED BY <2>2, <2>3 DEF Pop, n
<1> QED BY <1>1, <1>3 DEF Last

LEMMA StartGood ==
  ASSUME NEW t \in GoodTable, t.revision < MaxRevision
  PROVE  /\ TStart(t) \in GoodTable
         /\ Range_(TStart(t)) = <<Range_(t)[1], Range_(t)[2] + 1>>
<1> DEFINE s == Append(t.stack, t.rows)
<1>1. s \in Seq(Version) /\ Len(s) = Len(t.stack) + 1
  BY GoodFields, AppendProperties
<1>2. TStart(t) = [rows |-> t.rows, stack |-> s, revision |-> t.revision + 1]
  <2>1. TStart(t) = [t EXCEPT !.stack = s, !.revision = t.revision + 1]
    BY DEF TStart
  <2> HIDE DEF s
  <2> QED BY <2>1 DEF GoodTable, Table
<1> HIDE DEF s
<1>3. t.revision + 1 \in 0 .. MaxRevision /\ Len(s) <= t.revision + 1
      /\ t.revision + 1 - Len(s) = t.revision - Len(t.stack)
  BY <1>1, GoodFields
<1>4. TStart(t) \in GoodTable
      /\ Range_(TStart(t)) = <<t.revision + 1 - Len(s), t.revision + 1>>
  BY <1>1, <1>2, <1>3, GoodFields, MakeGood
<1> QED BY <1>3, <1>4 DEF Range_

RangeUndone(r) == IF r[1] = r[2] THEN r ELSE <<r[1], r[2] - 1>>

LEMMA RangeOf ==
  ASSUME NEW t \in GoodTable
  PROVE  /\ Range_(t)[1] = t.revision - Len(t.stack) /\ Range_(t)[2] = t.revision
         /\ Range_(t) = <<t.revision - Len(t.stack), t.revision>>
         /\ (t.stack = <<>>) <=> (Range_(t)[1] = Range_(t)[2])
<1>1. (t.stack = <<>>) <=> (Len(t.stack) = 0)
  BY GoodFields, EmptySeq
<1> QED BY <1>1, GoodFields DEF Range_

LEMMA UndoGood ==
  ASSUME NEW t \in GoodTable
  PROVE  TUndo(t) \in GoodTable /\ Range_(TUndo(t)) = RangeUndone(Range_(t))
<1>1. CASE t.stack = <<>>
  BY <1>1, RangeOf DEF TUndo, RangeUndone
<1>2. CASE t.stack # <<>>
  <2>1. TUndo(t) = [rows |-> Last(t.stack), stack |-> Pop(t.stack),
                    revision |-> t.revision - 1]
    BY <1>2 DEF TUndo
  <2>2. /\ Pop(t.stack) \in Seq(Version) /\ Len(Pop(t.stack)) = Len(t.stack) - 1
        /\ Last(t.stack) \in Version /\ Len(t.stack) \in Nat \ {0}
    BY <1>2, GoodFields, Popped
  <2>3. t.revision - 1 \in 0 .. MaxRevision /\ Len(Pop(t.stack)) <= t.revision - 1
        /\ (t.revision - 1) - Len(Pop(t.stack)) = t.revision - Len(t.stack)
    BY <2>2, GoodFields
  <2>4. TUndo(t) \in GoodTable
        /\ Range_(TUndo(t)) = <<t.revision - Len(t.stack), t.revision - 1>>
    BY <2>1, <2>2, <2>3, MakeGood
  <2> QED BY <1>2, <2>4, RangeOf DEF RangeUndone
<1> QED BY <1>1, <1>2

LEMMA SquashGood ==
  ASSUME NEW t \in GoodTable
  PROVE  TSquash(t) \in GoodTable /\ Range_(TSquash(t)) = RangeUndone(Range_(t))
<1>1. CASE t.stack = <<>>
  BY <1>1, RangeOf DEF TSquash, RangeUndone
<1>2. CASE t.stack # <<>>
  <2>1. TSquash(t) = [rows |-> t.rows, stack |-> Pop(t.stack),
                      revision |-> t.revision - 1]
    BY <1>2 DEF TSquash, GoodTable, Table
  <2>2. /\ Pop(t.stack) \in Seq(Version) /\ Len(Pop(t.stack)) = Len(t.stack) - 1
        /\ Len(t.stack) \in Nat \ {0}
    BY <1>2, GoodFields, Popped
  <2>3. t.revision - 1 \in 0 .. MaxRevision /\ Len(Pop(t.stack)) <= t.revision - 1
        /\ (t.revision - 1) - Len(Pop(t.stack)) = t.revision - Len(t.stack)
    BY <2>2, GoodFields
  <2>4. TSquash(t) \in GoodTable
        /\ Range_(TSquash(t)) = <<t.revision - Len(t.stack), t.revision - 1>>
    BY <2>1, <2>2, <2>3, GoodFields, MakeGood
  <2> QED BY <1>2, <2>4, RangeOf DEF RangeUndone
<1> QED BY <1>1, <1>2

LEMMA UndoAllGood ==
  ASSUME NEW t \in GoodTable
  PROVE  TUndoAll(t) \in GoodTable
         /\ Range_(TUndoAll(t)) = <<Range_(t)[1], Range_(t)[1]>>
<1>1. CASE t.stack = <<>>
  BY <1>1, RangeOf DEF TUndoAll
<1>2. CASE t.stack # <<>>
  <2> DEFINE r == t.revision - Len(t.stack)
  <2>1. TUndoAll(t) = [rows |-> t.stack[1], stack |-> <<>>, revision |-> r]
    BY <1>2 DEF TUndoAll
  <2>2. t.stack[1] \in Version /\ Len(t.stack) \in Nat \ {0}
    BY <1>2, GoodFields, Popped
  <2>3. /\ r \in 0 .. MaxRevision /\ <<>> \in Seq(Version) /\ Len(<<>>) = 0
        /\ 0 <= r /\ r - 0 = r
    BY <2>2, GoodFields
  <2> HIDE DEF r
  <2>4. TUndoAll(t) \in GoodTable /\ Range_(TUndoAll(t)) = <<r, r>>
    BY <2>1, <2>2, <2>3, MakeGood
  <2> QED BY <2>4, RangeOf DEF r
<1> QED BY <1>1, <1>2

RangeCommitted(range, r) ==
  IF range[2] <= r THEN <<range[2], range[2]>>
  ELSE IF range[1] < r THEN <<r, range[2]>> ELSE range

LEMMA CommitGood ==
  ASSUME NEW t \in GoodTable, NEW r \in Nat
  PROVE  TCommit(t, r) \in GoodTable
         /\ Range_(TCommit(t, r)) = RangeCommitted(Range_(t), r)
<1> DEFINE newer == t.revision - r
<1>0. /\ newer \in Int /\ t.revision \in Nat /\ Len(t.stack) \in Nat
      /\ Len(t.stack) <= t.revision
  BY GoodFields
<1>1. CASE newer <= 0
  <2> DEFINE s == <<>>
  <2>1. TCommit(t, r) = [rows |-> t.rows, stack |-> s, revision |-> t.revision]
    BY <1>1 DEF TCommit, GoodTable, Table
  <2>2. s \in Seq(Version) /\ Len(s) <= t.revision
        /\ t.revision - Len(s) = t.revision
    BY <1>0
  <2> HIDE DEF s
  <2>3. TCommit(t, r) \in GoodTable
        /\ Range_(TCommit(t, r)) = <<t.revision, t.revision>>
    BY <2>1, <2>2, GoodFields, MakeGood
  <2> QED BY <1>0, <1>1, <2>3, RangeOf DEF RangeCommitted
<1>2. CASE ~(newer <= 0) /\ newer < Len(t.stack)
  <2> DEFINE s == SubSeq(t.stack, Len(t.stack) - newer + 1, Len(t.stack))
  <2>1. TCommit(t, r) = [rows |-> t.rows, stack |-> s, revision |-> t.revision]
    BY <1>2 DEF TCommit, GoodTable, Table
  <2>2. \A i \in Len(t.stack) - newer + 1 .. Len(t.stack) : t.stack[i] \in Version
    BY <1>0, <1>2, GoodFields
  <2>3. s \in Seq(Version) /\ Len(s) = newer
    BY <1>0, <1>2, <2>2, GoodFields, SubSeqProperties
  <2> HIDE DEF s
  <2>4. Len(s) <= t.revision /\ t.revision - Len(s) = r
    BY <1>0, <1>2, <2>3
  <2>5. TCommit(t, r) \in GoodTable /\ Range_(TCommit(t, r)) = <<r, t.revision>>
    BY <2>1, <2>3, <2>4, GoodFields, MakeGood
  <2> QED BY <1>0, <1>2, <2>5, RangeOf DEF RangeCommitted
<1>3. CASE ~(newer <= 0) /\ ~(newer < Len(t.stack))
  BY <1>0, <1>3, RangeOf DEF TCommit, RangeCommitted
<1> QED BY <1>1, <1>2, <1>3

LEMMA FilledGood ==
  ASSUME NEW lo \in Nat, NEW hi \in 0 .. MaxRevision, NEW upto \in lo .. hi
  PROVE  /\ Filled(<<lo, hi>>, upto) \in GoodTable
         /\ Range_(Filled(<<lo, hi>>, upto)) = <<lo, upto>>
<1> DEFINE s == [k \in 1 .. upto - lo |-> 0]
<1>0. 0 \in Version /\ upto \in 0 .. MaxRevision /\ upto - lo \in Nat
  BY DatabaseAssumption DEF Version
<1>1. s \in Seq(Version) /\ Len(s) = upto - lo
  BY <1>0
<1>2. Filled(<<lo, hi>>, upto) = [rows |-> 0, stack |-> s, revision |-> upto]
  BY DEF Filled
<1> HIDE DEF s
<1>3. Len(s) <= upto /\ upto - Len(s) = lo
  BY <1>0, <1>1
<1> QED BY <1>0, <1>1, <1>2, <1>3, MakeGood

----------------------------------------------------------------------------
(* The inductive invariant: beside types and lockstep, every session       *)
(* object undoes exactly the added indices, and a file that is open for    *)
(* reading only is in read-only mode with no session object left.          *)

SegmentOK == /\ DOMAIN segment \subseteq Index
             /\ \A i \in DOMAIN segment : segment[i] \in GoodTable
ListOK == _index_list \in Seq(DOMAIN segment) /\ IsInjective(_index_list)
FlagsOK == opened \in BOOLEAN /\ _read_only \in BOOLEAN /\ _read_only_mode \in BOOLEAN
SessionsOK == sessions \in Seq(Seq(Index))
SessionsCover == \A k \in DOMAIN sessions : ToSet(sessions[k]) = Added
ReadOnlyHeld == /\ ~opened => sessions = <<>>
                /\ opened /\ _read_only => _read_only_mode /\ sessions = <<>>

Typed == SegmentOK /\ ListOK /\ FlagsOK /\ SessionsOK
DbInv == Typed /\ ReadOnlyHeld /\ (AddDuringSession = FALSE => Lockstep /\ SessionsCover)

LEMMA TypedIsTypeOK == Typed <=> TypeOK
BY DEF Typed, SegmentOK, ListOK, FlagsOK, SessionsOK, TypeOK, GoodTable

LEMMA AddedKnown ==
  ASSUME ListOK
  PROVE  /\ Added \subseteq DOMAIN segment
         /\ Len(_index_list) \in Nat
         /\ \A k \in 1 .. Len(_index_list) : _index_list[k] \in Added
         /\ _index_list # <<>> => Head(_index_list) \in Added
         /\ _index_list = <<>> => Added = {}
<1>1. /\ Len(_index_list) \in Nat /\ DOMAIN _index_list = 1 .. Len(_index_list)
      /\ \A k \in 1 .. Len(_index_list) : _index_list[k] \in DOMAIN segment
  BY DEF ListOK
<1>2. _index_list # <<>> => Len(_index_list) # 0 /\ Head(_index_list) = _index_list[1]
  BY EmptySeq DEF ListOK
<1> QED BY <1>1, <1>2 DEF Added, ToSet

(* Every added index is given a table by one operation *)
LEMMA AppliedTyped ==
  ASSUME SegmentOK, ListOK, NEW A, NEW F,
         segment' = [i \in DOMAIN segment |-> IF i \in A THEN F[i] ELSE segment[i]],
         \A i \in A \cap DOMAIN segment : F[i] \in GoodTable,
         _index_list' = _index_list
  PROVE  SegmentOK' /\ ListOK'
BY DEF SegmentOK, ListOK

LEMMA AppliedLockstep ==
  ASSUME SegmentOK, ListOK, Lockstep, NEW A, NEW F,
         segment' = [i \in DOMAIN segment |-> IF i \in A THEN F[i] ELSE segment[i]],
         A = Added \/ A = {},
         \A i, j \in Added : Range_(F[i]) = Range_(F[j]),
         _index_list' = _index_list
  PROVE  Lockstep'
<1>1. Added' = Added /\ Added \subseteq DOMAIN segment
  BY AddedKnown DEF Added
<1>2. \A i \in Added : segment'[i] = IF i \in A THEN F[i] ELSE segment[i]
  BY <1>1
<1>3. CASE A = Added
  <2>1. \A i \in Added : Range_(segment'[i]) = Range_(F[i])
    BY <1>2, <1>3
  <2>2. \A i, j \in Added : Range_(segment'[i]) = Range_(segment'[j])
    BY <2>1
  <2> QED BY <1>1, <2>2 DEF Lockstep
<1>4. CASE A = {}
  <2>1. \A i \in Added : segment'[i] = segment[i]
    BY <1>2, <1>4
  <2>2. \A i, j \in Added : Range_(segment'[i]) = Range_(segment'[j])
    BY <2>1 DEF Lockstep
  <2> QED BY <1>1, <2>2 DEF Lockstep
<1> QED BY <1>3, <1>4

(* The same for undo and squash, of the database or of a session object *)

LEMMA UndoneTyped ==
  ASSUME SegmentOK, ListOK, NEW s, Apply(s, TUndo), _index_list' = _index_list
  PROVE  SegmentOK' /\ ListOK' /\ (Lockstep /\ ToSet(s) = Added => Lockstep')
<1> DEFINE F == [i \in DOMAIN segment |-> TUndo(segment[i])]
           A == ToSet(s)
<1>1. segment' = [i \in DOMAIN segment |-> IF i \in A THEN F[i] ELSE segment[i]]
  BY DEF Apply
<1>2. \A i \in DOMAIN segment : /\ F[i] \in GoodTable
                                /\ Range_(F[i]) = RangeUndone(Range_(segment[i]))
  BY UndoGood DEF SegmentOK
<1>3. Lockstep => \A i, j \in Added : Range_(F[i]) = Range_(F[j])
  BY <1>2, AddedKnown DEF Lockstep
<1> HIDE DEF F, A
<1>4. SegmentOK' /\ ListOK'
  BY <1>1, <1>2, AppliedTyped
<1>5. Lockstep /\ A = Added => Lockstep'
  BY <1>1, <1>3, AppliedLockstep
<1> QED BY <1>4, <1>5 DEF A

LEMMA SquashedTyped ==
  ASSUME SegmentOK, ListOK, NEW s, Apply(s, TSquash), _index_list' = _index_list
  PROVE  SegmentOK' /\ ListOK' /\ (Lockstep /\ ToSet(s) = Added => Lockstep')
<1> DEFINE F == [i \in DOMAIN segment |-> TSquash(segment[i])]
           A == ToSet(s)
<1>1. segment' = [i \in DOMAIN segment |-> IF i \in A THEN F[i] ELSE segment[i]]
  BY DEF Apply
<1>2. \A i \in DOMAIN segment : /\ F[i] \in GoodTable
                                /\ Range_(F[i]) = RangeUndone(Range_(segment[i]))
  BY SquashGood DEF SegmentOK
<1>3. Lockstep => \A i, j \in Added : Range_(F[i]) = Range_(F[j])
  BY <1>2, AddedKnown DEF Lockstep
<1> HIDE DEF F, A
<1>4. SegmentOK' /\ ListOK'
  BY <1>1, <1>2, AppliedTyped
<1>5. Lockstep /\ A = Added => Lockstep'
  BY <1>1, <1>3, AppliedLockstep
<1> QED BY <1>4, <1>5 DEF A

(* set_revision changes every added index or none: they refuse together. *)
LEMMA RefuseTogether ==
  ASSUME SegmentOK, ListOK, Lockstep, NEW r \in 0 .. MaxRevision
  PROVE  \/ BeforeRefusal(r) = {}
         \/ BeforeRefusal(r) = Added /\ (\A i \in Added : ~Refuses(i, r))
<1>0. \A i \in DOMAIN segment : segment[i] \in GoodTable
  BY DEF SegmentOK
<1>1. \A i \in Added : Refuses(i, r) <=>
        Range_(segment[i])[1] # Range_(segment[i])[2] \/ r < Range_(segment[i])[2]
  <2> TAKE i \in Added
  <2>1. segment[i] \in GoodTable
    BY <1>0, AddedKnown
  <2> QED BY <2>1, RangeOf DEF Refuses
<1>2. \A i, j \in Added : Refuses(i, r) <=> Refuses(j, r)
  BY <1>1 DEF Lockstep
<1>3. CASE \A i \in Added : ~Refuses(i, r)
  BY <1>3, AddedKnown DEF BeforeRefusal
<1>4. CASE \E i \in Added : Refuses(i, r)
  <2>1. \A i \in Added : Refuses(i, r)
    BY <1>2, <1>4
  <2>2. _index_list # <<>>
    BY <1>4, AddedKnown
  <2>3. 1 \in 1 .. Len(_index_list)
    BY <2>2, EmptySeq DEF ListOK
  <2>4. Refuses(_index_list[1], r)
    BY <2>1, <2>3, AddedKnown
  <2> QED BY <2>3, <2>4 DEF BeforeRefusal
<1> QED BY <1>3, <1>4

----------------------------------------------------------------------------
(* One lemma per action *)

LEMMA InitDb ==
  ASSUME Init
  PROVE  DbInv
<1>1. DOMAIN segment = {} /\ _index_list = <<>> /\ sessions = <<>>
  BY DEF Init
<1>2. SegmentOK
  BY <1>1 DEF SegmentOK
<1>3. ListOK
  <2>1. _index_list \in Seq(DOMAIN segment) /\ DOMAIN _index_list = {}
    BY <1>1
  <2> QED BY <2>1 DEF ListOK, IsInjective
<1>4. FlagsOK
  BY DEF Init, FlagsOK
<1>5. SessionsOK
  BY <1>1 DEF SessionsOK
<1>6. Lockstep /\ SessionsCover /\ ReadOnlyHeld
  BY <1>1 DEF Init, Lockstep, SessionsCover, ReadOnlyHeld, Added, ToSet
<1> QED BY <1>2, <1>3, <1>4, <1>5, <1>6 DEF DbInv, Typed

(* A step that leaves the segment and the list of indices alone *)
LEMMA SegmentAlone ==
  ASSUME DbInv, UNCHANGED <<segment, _index_list>>,
         FlagsOK', SessionsOK', ReadOnlyHeld',
         AddDuringSession = FALSE => \A k \in DOMAIN sessions' : ToSet(sessions'[k]) = Added
  PROVE  DbInv'
BY DEF DbInv, Typed, SegmentOK, ListOK, Lockstep, Added, SessionsCover

LEMMA OpenKeeps ==
  ASSUME DbInv, NEW ro \in BOOLEAN, Open(ro)
  PROVE  DbInv'
<1>1. UNCHANGED <<segment, _index_list, sessions>> /\ ~opened /\ opened'
      /\ _read_only' = ro /\ _read_only_mode' = ro
  BY DEF Open
<1>2. FlagsOK' /\ SessionsOK' /\ ReadOnlyHeld'
  BY <1>1 DEF DbInv, Typed, FlagsOK, SessionsOK, ReadOnlyHeld
<1>3. AddDuringSession = FALSE => \A k \in DOMAIN sessions' : ToSet(sessions'[k]) = Added
  BY <1>1 DEF DbInv, SessionsCover
<1> QED BY <1>1, <1>2, <1>3, SegmentAlone

LEMMA CloseKeeps ==
  ASSUME DbInv, Close
  PROVE  DbInv'
<1>1. /\ UNCHANGED <<segment, sessions, _read_only, _read_only_mode>>
      /\ opened' = FALSE /\ sessions = <<>> /\ _index_list' = <<>>
  BY DEF Close
<1>2. SegmentOK' /\ FlagsOK' /\ SessionsOK' /\ ReadOnlyHeld'
  BY <1>1 DEF DbInv, Typed, SegmentOK, FlagsOK, SessionsOK, ReadOnlyHeld
<1>3. ListOK'
  <2>1. _index_list' \in Seq((DOMAIN segment)') /\ DOMAIN _index_list' = {}
    BY <1>1
  <2> QED BY <2>1 DEF ListOK, IsInjective
<1>4. Lockstep' /\ SessionsCover'
  BY <1>1 DEF Lockstep, SessionsCover, Added, ToSet
<1> QED BY <1>2, <1>3, <1>4 DEF DbInv, Typed

LEMMA ModesKeep ==
  ASSUME DbInv, SetReadOnlyMode \/ UnsetReadOnlyMode
  PROVE  DbInv'
<1>1. /\ UNCHANGED <<segment, _index_list, sessions, opened, _read_only>>
      /\ opened /\ _read_only_mode' \in BOOLEAN
      /\ _read_only => _read_only_mode'
  BY DEF SetReadOnlyMode, UnsetReadOnlyMode, DbInv, Typed, FlagsOK
<1>2. FlagsOK' /\ SessionsOK' /\ ReadOnlyHeld'
  BY <1>1 DEF DbInv, Typed, FlagsOK, SessionsOK, ReadOnlyHeld
<1>3. AddDuringSession = FALSE => \A k \in DOMAIN sessions' : ToSet(sessions'[k]) = Added
  BY <1>1 DEF DbInv, SessionsCover
<1> QED BY <1>1, <1>2, <1>3, SegmentAlone

(* An index is added at the end of the list. *)
LEMMA ListAppended ==
  ASSUME ListOK, NEW i, i \notin Added, _index_list' = Append(_index_list, i),
         i \in DOMAIN segment', DOMAIN segment \subseteq DOMAIN segment'
  PROVE  ListOK' /\ Added' = Added \cup {i}
<1> DEFINE D == DOMAIN segment'
           n == Len(_index_list)
<1>1. _index_list \in Seq(D) /\ i \in D /\ n \in Nat /\ DOMAIN _index_list = 1 .. n
  BY DEF ListOK
<1> HIDE DEF D
<1>2. /\ _index_list' \in Seq(D) /\ Len(_index_list') = n + 1
      /\ \A k \in 1 .. n : _index_list'[k] = _index_list[k]
      /\ _index_list'[n + 1] = i
  BY <1>1, AppendProperties
<1>3. DOMAIN _index_list' = 1 .. n + 1
  BY <1>2
<1> HIDE DEF n
<1>4. Added' = Added \cup {i}
  <2>1. Added' = {_index_list'[k] : k \in 1 .. n + 1}
    BY <1>3 DEF Added, ToSet
  <2>2. Added = {_index_list[k] : k \in 1 .. n}
    BY <1>1 DEF Added, ToSet
  <2>3. 1 .. n + 1 = 1 .. n \cup {n + 1}
    BY <1>1
  <2> QED BY <1>2, <2>1, <2>2, <2>3
<1>5. IsInjective(_index_list')
  <2>1. \A k \in 1 .. n : _index_list'[k] \in Added /\ _index_list'[k] # i
    BY <1>1, <1>2 DEF Added, ToSet
  <2>2. \A k, l \in 1 .. n : _index_list'[k] = _index_list'[l] => k = l
    BY <1>1, <1>2 DEF ListOK, IsInjective
  <2>3. \A k, l \in 1 .. n + 1 : _index_list'[k] = _index_list'[l] => k = l
    BY <1>1, <1>2, <2>1, <2>2
  <2> QED BY <1>3, <2>3 DEF IsInjective
<1>6. ListOK'
  BY <1>2, <1>5 DEF ListOK, D
<1> QED BY <1>4, <1>6

(* After an index was added, lockstep is that of the new index and the     *)
(* first one.                                                              *)
LEMMA LockstepAppended ==
  ASSUME SegmentOK, ListOK, Lockstep, NEW i, Added' = Added \cup {i},
         \A j \in Added : segment'[j] = segment[j],
         _index_list # <<>> => Range_(segment'[i]) = Expected
  PROVE  Lockstep'
<1>1. CASE _index_list = <<>>
  BY <1>1, AddedKnown DEF Lockstep
<1>2. CASE _index_list # <<>>
  <2>1. Head(_index_list) \in Added /\ Expected = Range_(segment[Head(_index_list)])
    BY <1>2, AddedKnown DEF Expected
  <2>2. \A j \in Added : Range_(segment'[j]) = Expected
    BY <2>1 DEF Lockstep
  <2>3. \A j \in Added' : Range_(segment'[j]) = Expected
    BY <1>2, <2>2
  <2> QED BY <2>3 DEF Lockstep
<1> QED BY <1>1, <1>2

LEMMA AddExistingKeeps ==
  ASSUME DbInv, NEW i \in Index, AddExisting(i)
  PROVE  DbInv'
<1>1. /\ UNCHANGED <<segment, sessions, opened, _read_only, _read_only_mode>>
      /\ _index_list' = Append(_index_list, i)
      /\ i \in DOMAIN segment /\ i \notin Added
      /\ AddDuringSession = FALSE => sessions = <<>>
      /\ _index_list # <<>> => Range_(segment[i]) = Expected
  BY DatabaseAssumption DEF AddExisting, MayAdd, Consistent
<1>2. SegmentOK /\ ListOK
  BY DEF DbInv, Typed
<1>3. ListOK' /\ Added' = Added \cup {i}
  BY <1>1, <1>2, ListAppended
<1>4. SegmentOK' /\ FlagsOK' /\ SessionsOK' /\ ReadOnlyHeld'
  BY <1>1 DEF DbInv, Typed, SegmentOK, FlagsOK, SessionsOK, ReadOnlyHeld
<1>5. AddDuringSession = FALSE => Lockstep'
  BY <1>1, <1>2, <1>3, LockstepAppended DEF DbInv
<1>6. AddDuringSession = FALSE => SessionsCover'
  BY <1>1 DEF SessionsCover
<1> QED BY <1>3, <1>4, <1>5, <1>6 DEF DbInv, Typed

(* The range that a new index is brought up to *)
LEMMA ExpectedRange ==
  ASSUME SegmentOK, ListOK, _index_list # <<>>
  PROVE  \E lo \in Nat, hi \in 0 .. MaxRevision : lo <= hi /\ Expected = <<lo, hi>>
<1> DEFINE t == segment[Head(_index_list)]
<1>1. t \in GoodTable
  BY AddedKnown DEF SegmentOK
<1>2. Expected = Range_(t)
  BY DEF Expected
<1> HIDE DEF t
<1> DEFINE lo == t.revision - Len(t.stack)
<1>3. lo \in Nat /\ t.revision \in 0 .. MaxRevision /\ lo <= t.revision
  BY <1>1, GoodFields
<1>4. Expected = <<lo, t.revision>>
  BY <1>2 DEF Range_
<1> HIDE DEF lo
<1> QED BY <1>3, <1>4

LEMMA ConstructedOK ==
  ASSUME SegmentOK, NEW i \in Index, i \notin DOMAIN segment, NEW t \in GoodTable,
         Constructed(i, t)
  PROVE  /\ SegmentOK' /\ DOMAIN segment' = DOMAIN segment \cup {i}
         /\ segment'[i] = t /\ \A j \in DOMAIN segment : segment'[j] = segment[j]
BY DEF Constructed, SegmentOK

LEMMA AddNewKeeps ==
  ASSUME DbInv, NEW i \in Index, AddNew(i)
  PROVE  DbInv'
<1> DEFINE t == IF _index_list = <<>> THEN Filled(<<0, 0>>, 0)
                ELSE Filled(Expected, Expected[2])
<1>1. /\ UNCHANGED <<sessions, opened, _read_only, _read_only_mode>>
      /\ _index_list' = Append(_index_list, i)
      /\ i \notin DOMAIN segment /\ i \notin Added
      /\ AddDuringSession = FALSE => sessions = <<>>
      /\ Constructed(i, t)
  BY DatabaseAssumption DEF AddNew, MayAdd
<1>2. SegmentOK /\ ListOK
  BY DEF DbInv, Typed
<1>3. t \in GoodTable /\ (_index_list # <<>> => Range_(t) = Expected)
  <2>1. CASE _index_list = <<>>
    <3>1. 0 \in Nat /\ 0 \in 0 .. MaxRevision /\ 0 \in 0 .. 0
      BY DatabaseAssumption
    <3>2. Filled(<<0, 0>>, 0) \in GoodTable
      BY <3>1, FilledGood
    <3> QED BY <2>1, <3>2
  <2>2. CASE _index_list # <<>>
    <3>1. PICK lo \in Nat, hi \in 0 .. MaxRevision : lo <= hi /\ Expected = <<lo, hi>>
      BY <1>2, <2>2, ExpectedRange
    <3>2. t = Filled(<<lo, hi>>, hi) /\ hi \in lo .. hi
      BY <2>2, <3>1
    <3>3. t \in GoodTable /\ Range_(t) = <<lo, hi>>
      BY <3>2, FilledGood
    <3> QED BY <3>1, <3>3
  <2> QED BY <2>1, <2>2
<1> HIDE DEF t
<1>4. /\ SegmentOK' /\ DOMAIN segment' = DOMAIN segment \cup {i}
      /\ segment'[i] = t /\ \A j \in DOMAIN segment : segment'[j] = segment[j]
  BY <1>1, <1>2, <1>3, ConstructedOK
<1>5. ListOK' /\ Added' = Added \cup {i}
  BY <1>1, <1>2, <1>4, ListAppended
<1>6. FlagsOK' /\ SessionsOK' /\ ReadOnlyHeld'
  BY <1>1 DEF DbInv, Typed, FlagsOK, SessionsOK, ReadOnlyHeld
<1>7. AddDuringSession = FALSE => Lockstep'
  BY <1>2, <1>3, <1>4, <1>5, AddedKnown, LockstepAppended DEF DbInv
<1>8. AddDuringSession = FALSE => SessionsCover'
  BY <1>1 DEF SessionsCover
<1> QED BY <1>4, <1>5, <1>6, <1>7, <1>8 DEF DbInv, Typed

LEMMA AddNewFailsKeeps ==
  ASSUME DbInv, NEW i \in Index, NEW upto \in 0 .. MaxRevision, AddNewFails(i, upto)
  PROVE  DbInv'
<1> DEFINE t == Filled(Expected, upto)
<1>1. /\ UNCHANGED <<_index_list, sessions, opened, _read_only, _read_only_mode>>
      /\ i \notin DOMAIN segment /\ Constructed(i, t)
      /\ _index_list # <<>> /\ upto \in Expected[1] .. Expected[2] - 1
  BY DEF AddNewFails, object
<1>2. SegmentOK /\ ListOK
  BY DEF DbInv, Typed
<1>3. t \in GoodTable
  <2>1. PICK lo \in Nat, hi \in 0 .. MaxRevision : lo <= hi /\ Expected = <<lo, hi>>
    BY <1>1, <1>2, ExpectedRange
  <2>2. t = Filled(<<lo, hi>>, upto) /\ upto \in lo .. hi
    BY <1>1, <2>1
  <2> QED BY <2>2, FilledGood
<1> HIDE DEF t
<1>4. /\ SegmentOK' /\ DOMAIN segment' = DOMAIN segment \cup {i}
      /\ \A j \in DOMAIN segment : segment'[j] = segment[j]
  BY <1>1, <1>2, <1>3, ConstructedOK
<1>5. ListOK' /\ Added' = Added
  BY <1>1, <1>2, <1>4 DEF ListOK, Added
<1>6. FlagsOK' /\ SessionsOK' /\ ReadOnlyHeld'
  BY <1>1 DEF DbInv, Typed, FlagsOK, SessionsOK, ReadOnlyHeld
<1>7. AddDuringSession = FALSE => Lockstep' /\ SessionsCover'
  BY <1>1, <1>2, <1>4, <1>5, AddedKnown DEF DbInv, Lockstep, SessionsCover
<1> QED BY <1>4, <1>5, <1>6, <1>7 DEF DbInv, Typed

(* A step that changes the segment only *)
LEMMA ObjectAlone ==
  ASSUME DbInv, UNCHANGED object, SegmentOK', ListOK',
         AddDuringSession = FALSE => Lockstep'
  PROVE  DbInv'
<1>1. FlagsOK' /\ SessionsOK' /\ ReadOnlyHeld' /\ UNCHANGED <<_index_list, sessions>>
  BY DEF object, DbInv, Typed, FlagsOK, SessionsOK, ReadOnlyHeld
<1>2. AddDuringSession = FALSE => SessionsCover'
  BY <1>1 DEF DbInv, SessionsCover, Added
<1> QED BY <1>1, <1>2 DEF DbInv, Typed

LEMMA WriteKeeps ==
  ASSUME DbInv, NEW i \in Index, NEW v \in Version, Write(i, v)
  PROVE  DbInv'
<1> DEFINE F == [j \in DOMAIN segment |-> [rows |-> v, stack |-> segment[j].stack,
                                           revision |-> segment[j].revision]]
<1>1. /\ i \in Added /\ segment' = [segment EXCEPT ![i].rows = v]
      /\ UNCHANGED object /\ _index_list' = _index_list
  BY DEF Write, object
<1>2. SegmentOK /\ ListOK
  BY DEF DbInv, Typed
<1>3. \A j \in DOMAIN segment : /\ F[j] \in GoodTable
                                /\ Range_(F[j]) = Range_(segment[j])
  BY <1>2, GoodFields, MakeGood DEF SegmentOK, Range_
<1>4. /\ DOMAIN segment' = DOMAIN segment
      /\ \A j \in DOMAIN segment : /\ segment'[j] \in GoodTable
                                   /\ Range_(segment'[j]) = Range_(segment[j])
  <2>1. DOMAIN segment' = DOMAIN segment /\ i \in DOMAIN segment
    BY <1>1, <1>2, AddedKnown
  <2>2. segment[i] \in GoodTable
    BY <1>2, <2>1 DEF SegmentOK
  <2>3. [segment[i] EXCEPT !.rows = v] = F[i]
    BY <2>1, <2>2 DEF GoodTable, Table
  <2>4. segment'[i] = [segment[i] EXCEPT !.rows = v]
    BY <1>1, <2>1
  <2> HIDE DEF F
  <2>5. \A j \in DOMAIN segment : j # i => segment'[j] = segment[j]
    BY <1>1
  <2> QED BY <1>2, <1>3, <2>1, <2>3, <2>4, <2>5 DEF SegmentOK
<1>5. SegmentOK' /\ ListOK'
  BY <1>1, <1>2, <1>4 DEF SegmentOK, ListOK
<1>6. AddDuringSession = FALSE => Lockstep'
  BY <1>1, <1>2, <1>4, AddedKnown DEF DbInv, Lockstep, Added
<1> QED BY <1>1, <1>5, <1>6, ObjectAlone

LEMMA StartKeeps ==
  ASSUME DbInv, StartUndoSession
  PROVE  DbInv'
<1> DEFINE F == [i \in DOMAIN segment |-> TStart(segment[i])]
           A == Added
<1>1. /\ opened /\ ~_read_only_mode
      /\ \A i \in Added : segment[i].revision < MaxRevision
      /\ segment' = [i \in DOMAIN segment |-> IF i \in A THEN F[i] ELSE segment[i]]
      /\ sessions' = Append(sessions, _index_list)
      /\ UNCHANGED <<_index_list, opened, _read_only, _read_only_mode>>
  BY DEF StartUndoSession, Apply, Added
<1>2. SegmentOK /\ ListOK /\ Added \subseteq DOMAIN segment
  BY AddedKnown DEF DbInv, Typed
<1>3. \A i \in Added : /\ F[i] \in GoodTable
                       /\ Range_(F[i]) = <<Range_(segment[i])[1], Range_(segment[i])[2] + 1>>
  BY <1>1, <1>2, StartGood DEF SegmentOK
<1>4. Lockstep => \A i, j \in Added : Range_(F[i]) = Range_(F[j])
  BY <1>3 DEF Lockstep
<1> HIDE DEF F
<1>5. SegmentOK' /\ ListOK'
  BY <1>1, <1>2, <1>3, AppliedTyped
<1>6. Lockstep => Lockstep'
  BY <1>1, <1>2, <1>4, AppliedLockstep
<1>7. /\ sessions' \in Seq(Seq(Index)) /\ Len(sessions) \in Nat
      /\ DOMAIN sessions = 1 .. Len(sessions)
      /\ DOMAIN sessions' = 1 .. Len(sessions) + 1
      /\ \A k \in 1 .. Len(sessions) : sessions'[k] = sessions[k]
      /\ sessions'[Len(sessions) + 1] = _index_list
  <2>1. _index_list \in Seq(Index) /\ sessions \in Seq(Seq(Index))
    <3>1. _index_list \in Seq(DOMAIN segment) /\ DOMAIN segment \subseteq Index
      BY <1>2 DEF ListOK, SegmentOK
    <3> QED BY <3>1 DEF DbInv, Typed, SessionsOK
  <2> DEFINE S == Seq(Index)
  <2>2. _index_list \in S /\ sessions \in Seq(S)
    BY <2>1
  <2> HIDE DEF S
  <2>3. /\ sessions' \in Seq(S) /\ Len(sessions') = Len(sessions) + 1
        /\ \A k \in 1 .. Len(sessions) : sessions'[k] = sessions[k]
        /\ sessions'[Len(sessions) + 1] = _index_list
        /\ Len(sessions) \in Nat /\ DOMAIN sessions = 1 .. Len(sessions)
    BY <1>1, <2>2, AppendProperties
  <2>4. DOMAIN sessions' = 1 .. Len(sessions) + 1
    BY <2>3
  <2> QED BY <2>3, <2>4 DEF S
<1>8. SessionsCover => SessionsCover'
  <2>1. Added' = Added /\ ToSet(_index_list) = Added
    BY <1>1 DEF Added
  <2>2. \A k \in 1 .. Len(sessions) + 1 : k \in 1 .. Len(sessions) \/ k = Len(sessions) + 1
    BY <1>7
  <2> QED BY <1>7, <2>1, <2>2 DEF SessionsCover
<1>9. FlagsOK' /\ SessionsOK' /\ ReadOnlyHeld'
  BY <1>1, <1>7 DEF DbInv, Typed, FlagsOK, SessionsOK, ReadOnlyHeld
<1> QED BY <1>5, <1>6, <1>8, <1>9 DEF DbInv, Typed

(* One session object ends; the others stay. *)
LEMMA SessionTaken ==
  ASSUME NEW S, NEW s \in Seq(S), NEW k \in DOMAIN s
  PROVE  /\ RemoveAt(s, k) \in Seq(S)
         /\ \A j \in DOMAIN RemoveAt(s, k) : \E l \in DOMAIN s : RemoveAt(s, k)[j] = s[l]
<1> DEFINE a == SubSeq(s, 1, k - 1)
           b == SubSeq(s, k + 1, Len(s))
<1>1. Len(s) \in Nat /\ k \in 1 .. Len(s) /\ DOMAIN s = 1 .. Len(s)
      /\ \A j \in 1 .. Len(s) : s[j] \in S
  OBVIOUS
<1>2. a \in Seq(S) /\ Len(a) = k - 1 /\ \A j \in 1 .. k - 1 : a[j] = s[j]
  <2>1. \A j \in 1 .. k - 1 : s[j] \in S
    BY <1>1
  <2> QED BY <1>1, <2>1, SubSeqProperties
<1>3. b \in Seq(S) /\ Len(b) = Len(s) - k /\ \A j \in 1 .. Len(s) - k : b[j] = s[k + j]
  <2>1. \A j \in k + 1 .. Len(s) : s[j] \in S
    BY <1>1
  <2> QED BY <1>1, <2>1, SubSeqProperties
<1> HIDE DEF a, b
<1>4. /\ a \o b \in Seq(S) /\ Len(a \o b) = Len(a) + Len(b)
      /\ \A j \in 1 .. Len(a) + Len(b) :
           (a \o b)[j] = IF j <= Len(a) THEN a[j] ELSE b[j - Len(a)]
  BY <1>2, <1>3, ConcatProperties
<1>5. Len(a) + Len(b) = Len(s) - 1
  BY <1>1, <1>2, <1>3
<1>6. DOMAIN (a \o b) = 1 .. Len(s) - 1
  BY <1>4, <1>5
<1>7. RemoveAt(s, k) = a \o b
  BY DEF RemoveAt, a, b
<1>8. ASSUME NEW j \in 1 .. Len(s) - 1
      PROVE  \E l \in 1 .. Len(s) : (a \o b)[j] = s[l]
  <2>1. CASE j <= k - 1
    <3>1. (a \o b)[j] = a[j] /\ j \in 1 .. k - 1 /\ j \in 1 .. Len(s)
      BY <1>1, <1>2, <1>4, <1>5, <2>1
    <3> QED BY <1>2, <3>1
  <2>2. CASE ~(j <= k - 1)
    <3>1. PICK m \in 1 .. Len(s) - k : m = j - (k - 1)
      BY <1>1, <2>2
    <3>2. /\ k + m \in 1 .. Len(s) /\ ~(j <= Len(a)) /\ j - Len(a) = m
          /\ j \in 1 .. Len(a) + Len(b)
      BY <1>1, <1>2, <1>5, <2>2, <3>1
    <3>3. (a \o b)[j] = b[m]
      BY <1>4, <3>2
    <3>4. b[m] = s[k + m]
      BY <1>3
    <3> QED BY <3>2, <3>3, <3>4
  <2> QED BY <2>1, <2>2
<1> QED BY <1>1, <1>4, <1>6, <1>7, <1>8

LEMMA EndKeeps ==
  ASSUME DbInv, NEW k \in DOMAIN sessions, End(k), SegmentOK', ListOK',
         AddDuringSession = FALSE => Lockstep'
  PROVE  DbInv'
<1>1. /\ sessions' = RemoveAt(sessions, k)
      /\ UNCHANGED <<_index_list, opened, _read_only, _read_only_mode>>
  BY DEF End
<1> DEFINE S == Seq(Index)
<1>2. sessions \in Seq(S)
  BY DEF DbInv, Typed, SessionsOK
<1> HIDE DEF S
<1>3. /\ sessions' \in Seq(S)
      /\ \A j \in DOMAIN sessions' : \E l \in DOMAIN sessions : sessions'[j] = sessions[l]
  BY <1>1, <1>2, SessionTaken
<1>4. AddDuringSession = FALSE => SessionsCover'
  BY <1>1, <1>3 DEF DbInv, SessionsCover, Added
<1>5. sessions # <<>>
  BY <1>2, EmptySeq
<1>6. FlagsOK' /\ SessionsOK' /\ ReadOnlyHeld'
  BY <1>1, <1>3, <1>5 DEF DbInv, Typed, FlagsOK, SessionsOK, ReadOnlyHeld, S
<1> QED BY <1>4, <1>6 DEF DbInv, Typed

LEMMA SessionsKeep ==
  ASSUME DbInv, NEW k \in DOMAIN sessions,
         SessionPush(k) \/ SessionSquash(k) \/ SessionUndo(k)
  PROVE  DbInv'
<1>1. End(k) /\ _index_list' = _index_list
  BY DEF SessionPush, SessionSquash, SessionUndo, End
<1>2. SegmentOK /\ ListOK
  BY DEF DbInv, Typed
<1>3. AddDuringSession = FALSE => ToSet(sessions[k]) = Added /\ Lockstep
  BY DEF DbInv, SessionsCover
<1>4. CASE SessionPush(k)
  <2>1. UNCHANGED segment
    BY <1>4 DEF SessionPush
  <2>2. SegmentOK' /\ ListOK' /\ (Lockstep => Lockstep')
    BY <1>1, <1>2, <2>1 DEF SegmentOK, ListOK, Lockstep, Added
  <2> QED BY <1>1, <1>3, <2>2, EndKeeps
<1>5. CASE SessionSquash(k)
  <2>1. Apply(sessions[k], TSquash)
    BY <1>5 DEF SessionSquash
  <2>2. SegmentOK' /\ ListOK' /\ (Lockstep /\ ToSet(sessions[k]) = Added => Lockstep')
    BY <1>1, <1>2, <2>1, SquashedTyped
  <2> QED BY <1>1, <1>3, <2>2, EndKeeps
<1>6. CASE SessionUndo(k)
  <2>1. Apply(sessions[k], TUndo)
    BY <1>6 DEF SessionUndo
  <2>2. SegmentOK' /\ ListOK' /\ (Lockstep /\ ToSet(sessions[k]) = Added => Lockstep')
    BY <1>1, <1>2, <2>1, UndoneTyped
  <2> QED BY <1>1, <1>3, <2>2, EndKeeps
<1> QED BY <1>4, <1>5, <1>6

LEMMA UndoSquashKeep ==
  ASSUME DbInv, Undo \/ Squash
  PROVE  DbInv'
<1>1. UNCHANGED object /\ _index_list' = _index_list
  BY DEF Undo, Squash, object
<1>2. SegmentOK /\ ListOK /\ ToSet(_index_list) = Added
  BY DEF DbInv, Typed, Added
<1>3. CASE Undo
  <2>1. Apply(_index_list, TUndo)
    BY <1>3 DEF Undo
  <2>2. SegmentOK' /\ ListOK' /\ (Lockstep => Lockstep')
    BY <1>1, <1>2, <2>1, UndoneTyped
  <2> QED BY <1>1, <2>2, ObjectAlone DEF DbInv
<1>4. CASE Squash
  <2>1. Apply(_index_list, TSquash)
    BY <1>4 DEF Squash
  <2>2. SegmentOK' /\ ListOK' /\ (Lockstep => Lockstep')
    BY <1>1, <1>2, <2>1, SquashedTyped
  <2> QED BY <1>1, <2>2, ObjectAlone DEF DbInv
<1> QED BY <1>3, <1>4

LEMMA UndoAllKeeps ==
  ASSUME DbInv, UndoAll
  PROVE  DbInv'
<1> DEFINE F == [i \in DOMAIN segment |-> TUndoAll(segment[i])]
<1>1. /\ segment' = [i \in DOMAIN segment |-> IF i \in Added THEN F[i] ELSE segment[i]]
      /\ UNCHANGED object /\ _index_list' = _index_list
  BY DEF UndoAll, Apply, Added, object
<1>2. SegmentOK /\ ListOK
  BY DEF DbInv, Typed
<1>3. \A i \in DOMAIN segment :
        /\ F[i] \in GoodTable
        /\ Range_(F[i]) = <<Range_(segment[i])[1], Range_(segment[i])[1]>>
  BY <1>2, UndoAllGood DEF SegmentOK
<1>4. Lockstep => \A i, j \in Added : Range_(F[i]) = Range_(F[j])
  BY <1>2, <1>3, AddedKnown DEF Lockstep
<1> HIDE DEF F
<1>5. SegmentOK' /\ ListOK'
  BY <1>1, <1>2, <1>3, AppliedTyped
<1>6. Lockstep => Lockstep'
  BY <1>1, <1>2, <1>4, AppliedLockstep
<1> QED BY <1>1, <1>5, <1>6, ObjectAlone DEF DbInv

LEMMA CommitKeeps ==
  ASSUME DbInv, NEW r \in -1 .. MaxRevision, Commit(r)
  PROVE  DbInv'
<1> DEFINE u == Unsigned(r)
           F == [i \in DOMAIN segment |-> TCommit(segment[i], u)]
<1>1. /\ segment' = [i \in DOMAIN segment |-> IF i \in Added THEN F[i] ELSE segment[i]]
      /\ UNCHANGED object /\ _index_list' = _index_list
  BY DEF Commit, Apply, Added, object
<1>2. SegmentOK /\ ListOK
  BY DEF DbInv, Typed
<1>3. u \in Nat
  BY DatabaseAssumption DEF Unsigned
<1>4. \A i \in DOMAIN segment :
        /\ F[i] \in GoodTable
        /\ Range_(F[i]) = RangeCommitted(Range_(segment[i]), u)
  <2> HIDE DEF u
  <2> QED BY <1>2, <1>3, CommitGood DEF SegmentOK
<1>5. Lockstep => \A i, j \in Added : Range_(F[i]) = Range_(F[j])
  BY <1>2, <1>4, AddedKnown DEF Lockstep
<1> HIDE DEF F
<1>6. SegmentOK' /\ ListOK'
  BY <1>1, <1>2, <1>4, AppliedTyped
<1>7. Lockstep => Lockstep'
  BY <1>1, <1>2, <1>5, AppliedLockstep
<1> QED BY <1>1, <1>6, <1>7, ObjectAlone DEF DbInv

LEMMA SetRevisionKeeps ==
  ASSUME DbInv, NEW r \in 0 .. MaxRevision, SetRevision(r)
  PROVE  DbInv'
<1> DEFINE A == BeforeRefusal(r)
           F == [i \in DOMAIN segment |-> [segment[i] EXCEPT !.revision = r]]
<1>1. /\ segment' = [i \in DOMAIN segment |-> IF i \in A THEN F[i] ELSE segment[i]]
      /\ UNCHANGED object /\ _index_list' = _index_list
  BY DEF SetRevision, object
<1>2. SegmentOK /\ ListOK /\ Added \subseteq DOMAIN segment
  BY AddedKnown DEF DbInv, Typed
<1>3. \A i \in DOMAIN segment : ~Refuses(i, r) =>
        F[i] \in GoodTable /\ Range_(F[i]) = <<r, r>>
  <2> TAKE i \in DOMAIN segment
  <2> DEFINE t == segment[i]
             s == <<>>
  <2> HAVE ~Refuses(i, r)
  <2>1. t \in GoodTable /\ t.stack = s
    BY <1>2 DEF SegmentOK, Refuses
  <2>2. F[i] = [rows |-> t.rows, stack |-> s, revision |-> r]
    BY <2>1 DEF GoodTable, Table
  <2>3. s \in Seq(Version) /\ Len(s) <= r /\ r - Len(s) = r
    OBVIOUS
  <2> HIDE DEF s, t
  <2> QED BY <2>1, <2>2, <2>3, GoodFields, MakeGood
<1>4. A \subseteq Added /\ \A i \in A : i \in DOMAIN segment /\ ~Refuses(i, r)
  <2>1. A \subseteq Added
    BY DEF BeforeRefusal
  <2>2. ASSUME NEW i \in A
        PROVE  ~Refuses(i, r)
    <3>1. PICK k \in 1 .. Len(_index_list) : i = _index_list[k]
      BY <1>2, <2>1 DEF Added, ToSet, ListOK
    <3>2. \A j \in 1 .. k - 1 : _index_list[j] # i
      BY <1>2, <3>1 DEF ListOK, IsInjective
    <3> QED BY <3>1, <3>2 DEF BeforeRefusal
  <2> QED BY <1>2, <2>1, <2>2
<1>5. SegmentOK' /\ ListOK'
  <2> HIDE DEF F, A
  <2> QED BY <1>1, <1>2, <1>3, <1>4, AppliedTyped
<1>6. Lockstep => Lockstep'
  <2> HAVE Lockstep
  <2>1. \/ A = {}
        \/ A = Added /\ (\A i \in Added : ~Refuses(i, r))
    BY <1>2, RefuseTogether
  <2> HIDE DEF F, A
  <2>2. CASE A = {}
    BY <1>1, <1>2, <2>2 DEF Lockstep, Added
  <2>3. CASE A = Added /\ (\A i \in Added : ~Refuses(i, r))
    <3>1. \A i, j \in Added : Range_(F[i]) = Range_(F[j])
      BY <1>2, <1>3, <2>3
    <3> QED BY <1>1, <1>2, <2>3, <3>1, AppliedLockstep
  <2> QED BY <2>1, <2>2, <2>3
<1> QED BY <1>1, <1>5, <1>6, ObjectAlone DEF DbInv

----------------------------------------------------------------------------
(* The theorems *)

LEMMA NextDb ==
  ASSUME DbInv, [Next]_vars
  PROVE  DbInv'
<1>1. CASE UNCHANGED vars
  BY <1>1 DEF vars, object, DbInv, Typed, SegmentOK, ListOK, FlagsOK, SessionsOK,
              SessionsCover, ReadOnlyHeld, Lockstep, Added
<1>2. CASE Next
  BY <1>2, OpenKeeps, CloseKeeps, ModesKeep, AddExistingKeeps, AddNewKeeps,
     AddNewFailsKeeps, WriteKeeps, StartKeeps, SessionsKeep, UndoSquashKeep,
     UndoAllKeeps, CommitKeeps, SetRevisionKeeps
     DEF Next
<1> QED BY <1>1, <1>2

(* The inductive invariant holds in every reachable state. *)
THEOREM DbInvariance == Spec => []DbInv
<1>1. Init => DbInv
  BY InitDb
<1>2. DbInv /\ [Next]_vars => DbInv'
  BY NextDb
<1> QED BY <1>1, <1>2, PTL DEF Spec

(* database keeps its variables in their types; in particular an index is  *)
(* listed once, and its undo stack is no deeper than its revision.         *)
THEOREM DatabaseTypeCorrect == Spec => []TypeOK
<1>1. DbInv => TypeOK
  BY TypedIsTypeOK DEF DbInv
<1> QED BY <1>1, DbInvariance, PTL

(* The added indices have one revision and one depth of the undo stack,    *)
(* unless an index is added while session objects live.                    *)
THEOREM AlwaysLockstep == AddDuringSession = FALSE => (Spec => []Lockstep)
<1> SUFFICES ASSUME AddDuringSession = FALSE PROVE Spec => []Lockstep
  OBVIOUS
<1>1. DbInv => Lockstep
  BY DEF DbInv
<1> QED BY <1>1, DbInvariance, PTL

(* A file that is open for reading only does not change. *)
THEOREM ReadOnlyNeverWrites == Spec => ReadOnlyOpenUnchanged
<1>1. DbInv /\ [Next]_vars =>
        [opened /\ opened' /\ _read_only => UNCHANGED segment]_vars
  <2> SUFFICES ASSUME DbInv, Next, opened, _read_only PROVE UNCHANGED segment
    OBVIOUS
  <2>1. _read_only_mode /\ sessions = <<>> /\ DOMAIN sessions = {}
    BY DEF DbInv, ReadOnlyHeld
  <2> QED BY <2>1 DEF Next, Open, Close, SetReadOnlyMode, UnsetReadOnlyMode,
          AddExisting, AddNew, AddNewFails, MayConstruct, Write, StartUndoSession,
          MayUndo, Undo, Squash, UndoAll, Commit, SetRevision, object
<1>2. Spec => [][opened /\ opened' /\ _read_only => UNCHANGED segment]_vars
  BY <1>1, DbInvariance, PTL DEF Spec
<1> QED BY <1>2 DEF ReadOnlyOpenUnchanged

(* In read-only mode a row changes only when a session object undoes.      *)
LEMMA ReadOnlyModeStep ==
  ASSUME DbInv, Next, _read_only_mode, NEW i \in DOMAIN segment,
         \A k \in DOMAIN sessions : ~SessionUndo(k)
  PROVE  segment'[i].rows = segment[i].rows
<1>1. segment[i] \in GoodTable
  BY DEF DbInv, Typed, SegmentOK
<1>2. ASSUME NEW k \in DOMAIN sessions, SessionSquash(k)
      PROVE  segment'[i].rows = segment[i].rows
  <2>1. TSquash(segment[i]).rows = segment[i].rows
    BY <1>1 DEF TSquash, GoodTable, Table
  <2> QED BY <1>2, <2>1 DEF SessionSquash, Apply
<1>3. ASSUME NEW j \in Index, NEW t, j \notin DOMAIN segment, Constructed(j, t)
      PROVE  segment'[i].rows = segment[i].rows
  BY <1>3 DEF Constructed
<1>4. ASSUME NEW j \in Index, AddNew(j) PROVE segment'[i].rows = segment[i].rows
  BY <1>3, <1>4 DEF AddNew
<1>5. ASSUME NEW j \in Index, NEW upto \in 0 .. MaxRevision, AddNewFails(j, upto)
      PROVE  segment'[i].rows = segment[i].rows
  BY <1>3, <1>5 DEF AddNewFails
<1> QED BY <1>2, <1>4, <1>5
        DEF Next, Open, Close, SetReadOnlyMode, UnsetReadOnlyMode, AddExisting, Write,
            StartUndoSession, SessionPush, End, MayUndo, Undo, Squash, UndoAll, Commit,
            SetRevision

(* Read-only mode keeps its promise to a client that has no session object *)
(* while the mode is set: these objects, which do not look at the mode,    *)
(* are the only way to the change of a row that TLC finds otherwise.       *)
THEOREM ReadOnlyModeKept ==
  Spec /\ [](_read_only_mode => sessions = <<>>) => ReadOnlyModeUnchanged
<1> DEFINE A == _read_only_mode /\ _read_only_mode' =>
                  \A i \in DOMAIN segment : segment'[i].rows = segment[i].rows
           NoObjects == _read_only_mode => sessions = <<>>
<1>1. DbInv /\ NoObjects /\ [Next]_vars => [A]_vars
  <2> SUFFICES ASSUME DbInv, NoObjects, Next, _read_only_mode, NEW i \in DOMAIN segment
               PROVE  segment'[i].rows = segment[i].rows
    OBVIOUS
  <2>1. DOMAIN sessions = {}
    OBVIOUS
  <2> QED BY <2>1, ReadOnlyModeStep
<1> HIDE DEF A, NoObjects
<1>2. Spec /\ []NoObjects => [][A]_vars
  BY <1>1, DbInvariance, PTL DEF Spec
<1> QED BY <1>2 DEF A, NoObjects, ReadOnlyModeUnchanged

----------------------------------------------------------------------------
(* Sequences written as functions *)

LEMMA SubSeqFunction ==
  ASSUME NEW S, NEW s \in Seq(S), NEW o \in Nat, NEW m \in Nat, o + m <= Len(s)
  PROVE  SubSeq(s, o + 1, o + m) = [k \in 1 .. m |-> s[o + k]]
<1> DEFINE f == [k \in 1 .. m |-> s[o + k]]
<1>0. Len(s) \in Nat /\ o + 1 \in Int /\ o + m \in Int
  OBVIOUS
<1>1. \A k \in o + 1 .. o + m : s[k] \in S
  OBVIOUS
<1>2. /\ SubSeq(s, o + 1, o + m) \in Seq(S)
      /\ Len(SubSeq(s, o + 1, o + m)) = m
      /\ \A k \in 1 .. m : SubSeq(s, o + 1, o + m)[k] = s[o + k]
  <2> DEFINE a == o + 1
             b == o + m
  <2>1. /\ a \in Int /\ b \in Int /\ \A k \in a .. b : s[k] \in S
        /\ b - a + 1 = m /\ (IF a <= b THEN m ELSE 0) = m
        /\ \A k \in 1 .. m : a + k - 1 = o + k
    BY <1>0, <1>1
  <2> HIDE DEF a, b
  <2>2. /\ SubSeq(s, a, b) \in Seq(S)
        /\ Len(SubSeq(s, a, b)) = IF a <= b THEN b - a + 1 ELSE 0
        /\ \A k \in 1 .. b - a + 1 : SubSeq(s, a, b)[k] = s[a + k - 1]
    BY <2>1, SubSeqProperties
  <2> QED BY <2>1, <2>2 DEF a, b
<1>3. \A k \in 1 .. m : s[o + k] \in S
  BY <1>0
<1>4. f \in Seq(S) /\ Len(f) = m /\ \A k \in 1 .. m : f[k] = s[o + k]
  BY <1>3
<1> HIDE DEF f
<1>5. SubSeq(s, o + 1, o + m) = f
  BY <1>2, <1>4, SeqEqual
<1> QED BY <1>5 DEF f

LEMMA AppendFunction ==
  ASSUME NEW S, NEW s \in Seq(S), NEW d, d = Len(s), NEW e \in S
  PROVE  Append(s, e) = [k \in 1 .. d + 1 |-> IF k = d + 1 THEN e ELSE s[k]]
<1> DEFINE f == [k \in 1 .. d + 1 |-> IF k = d + 1 THEN e ELSE s[k]]
<1>1. d \in Nat
  OBVIOUS
<1>2. \A k \in 1 .. d + 1 : (IF k = d + 1 THEN e ELSE s[k]) \in S
  <2> TAKE k \in 1 .. d + 1
  <2>1. k = d + 1 \/ k \in 1 .. d
    BY <1>1
  <2> QED BY <2>1
<1>3. f \in Seq(S) /\ Len(f) = d + 1
      /\ \A k \in 1 .. d + 1 : f[k] = IF k = d + 1 THEN e ELSE s[k]
  BY <1>1, <1>2
<1>4. /\ Append(s, e) \in Seq(S) /\ Len(Append(s, e)) = d + 1
      /\ \A k \in 1 .. d : Append(s, e)[k] = s[k]
      /\ Append(s, e)[d + 1] = e
  BY AppendProperties
<1>5. \A k \in 1 .. d + 1 : Append(s, e)[k] = IF k = d + 1 THEN e ELSE s[k]
  <2> TAKE k \in 1 .. d + 1
  <2>1. k = d + 1 \/ (k \in 1 .. d /\ k # d + 1)
    BY <1>1
  <2> QED BY <1>4, <2>1
<1> HIDE DEF f
<1>6. Append(s, e) = f
  BY <1>1, <1>3, <1>4, <1>5, SeqEqual
<1> QED BY <1>6 DEF f

----------------------------------------------------------------------------
(* In lockstep the undo stacks have one depth, that of the first index.    *)

Together == DbInv /\ Lockstep /\ SessionsCover

LEMMA SameDepth ==
  ASSUME NEW t \in GoodTable, NEW u \in GoodTable, Range_(t) = Range_(u)
  PROVE  Len(t.stack) = Len(u.stack) /\ t.revision = u.revision
BY GoodFields, RangeOf

Stacks(seg, A, d) ==
  \A i \in A : /\ seg[i] \in GoodTable
              /\ seg[i].rows \in Version
              /\ seg[i].stack \in Seq(Version)
              /\ Len(seg[i].stack) = d
              /\ (seg[i].stack = <<>> <=> d = 0)
              /\ \A k \in 1 .. d : seg[i].stack[k] \in Version
StacksAlike ==
  Depth \in Nat /\ (Added = {} => Depth = 0) /\ Stacks(segment, Added, Depth)

LEMMA AlikeFrom ==
  ASSUME NEW seg, NEW A, NEW d,
         \A i \in A : seg[i] \in GoodTable /\ Len(seg[i].stack) = d
  PROVE  Stacks(seg, A, d)
<1> SUFFICES ASSUME NEW i \in A
             PROVE  /\ seg[i].rows \in Version /\ seg[i].stack \in Seq(Version)
                    /\ (seg[i].stack = <<>> <=> d = 0)
                    /\ \A k \in 1 .. d : seg[i].stack[k] \in Version
  BY DEF Stacks
<1>1. /\ seg[i].rows \in Version /\ seg[i].stack \in Seq(Version)
      /\ Len(seg[i].stack) = d
  BY GoodFields
<1>2. (seg[i].stack = <<>>) <=> (Len(seg[i].stack) = 0)
  BY <1>1, EmptySeq
<1>3. \A k \in 1 .. d : seg[i].stack[k] \in Version
  BY <1>1
<1> QED BY <1>1, <1>2, <1>3

LEMMA InLockstep == Together => StacksAlike
<1> SUFFICES ASSUME Together PROVE StacksAlike
  OBVIOUS
<1>1. SegmentOK /\ ListOK /\ Lockstep
  BY DEF Together, DbInv, Typed
<1>2. CASE _index_list = <<>>
  <2>1. Added = {} /\ Depth = 0
    BY <1>1, <1>2, AddedKnown DEF Depth
  <2> QED BY <2>1 DEF StacksAlike, Stacks
<1>3. CASE _index_list # <<>>
  <2> DEFINE h == Head(_index_list)
  <2>1. /\ h \in Added /\ Depth = Len(segment[h].stack)
        /\ \A i \in Added : segment[i] \in GoodTable
    BY <1>1, <1>3, AddedKnown DEF Depth, SegmentOK
  <2> HIDE DEF h
  <2>2. \A i \in Added : Len(segment[i].stack) = Depth
    BY <1>1, <2>1, SameDepth DEF Lockstep
  <2>3. Depth \in Nat
    BY <2>1, GoodFields
  <2>4. Stacks(segment, Added, Depth)
    BY <2>1, <2>2, AlikeFrom
  <2> QED BY <2>1, <2>3, <2>4 DEF StacksAlike
<1> QED BY <1>2, <1>3

(* The same of the next state *)
LEMMA InLockstepNext == Together' => StacksAlike'
BY InLockstep, PTL

LEMMA SnapshotsSeq ==
  ASSUME StacksAlike
  PROVE  /\ Now \in [Added -> Version]
         /\ Snapshots \in Seq([Added -> Version]) /\ Len(Snapshots) = Depth
         /\ \A k \in 1 .. Depth : Snapshots[k] = [i \in Added |-> segment[i].stack[k]]
         /\ (Snapshots = <<>> <=> Depth = 0)
<1>1. Now \in [Added -> Version]
  BY DEF StacksAlike, Stacks, Now
<1>2. \A k \in 1 .. Depth : [i \in Added |-> segment[i].stack[k]] \in [Added -> Version]
  BY DEF StacksAlike, Stacks
<1>3. Depth \in Nat
  BY DEF StacksAlike
<1> DEFINE V == [Added -> Version]
           shot(k) == [i \in Added |-> segment[i].stack[k]]
           d == Depth
<1>4. Snapshots = [k \in 1 .. d |-> shot(k)]
  BY DEF Snapshots
<1> HIDE DEF V, shot, d
<1>5. Snapshots \in Seq(V) /\ Len(Snapshots) = d /\ \A k \in 1 .. d : Snapshots[k] = shot(k)
  BY <1>2, <1>3, <1>4 DEF V, shot, d
<1>6. Snapshots = <<>> <=> Len(Snapshots) = 0
  BY <1>5, EmptySeq
<1> QED BY <1>1, <1>5, <1>6 DEF V, shot, d

----------------------------------------------------------------------------
(* What a step that changes the undo stacks alike does to the snapshots    *)

LEMMA DepthNext ==
  ASSUME StacksAlike, StacksAlike', Added' = Added, NEW m \in Nat,
         Added = {} => m = 0,
         \A i \in Added : Len(segment'[i].stack) = m
  PROVE  Depth' = m
BY DEF StacksAlike, Stacks

LEMMA SameSnapshots ==
  ASSUME StacksAlike, StacksAlike', Added' = Added,
         \A i \in Added : segment'[i].stack = segment[i].stack
  PROVE  Snapshots' = Snapshots
<1>1. Depth' = Depth
  BY DepthNext DEF StacksAlike, Stacks
<1> QED BY <1>1 DEF Snapshots

LEMMA SameRows ==
  ASSUME Added' = Added, \A i \in Added : segment'[i].rows = segment[i].rows
  PROVE  Now' = Now
BY DEF Now

(* Some of the snapshots go, from the one end or from the other. *)
LEMMA SubSnapshots ==
  ASSUME StacksAlike, StacksAlike', Added' = Added,
         NEW o \in Nat, NEW m \in Nat, o + m <= Depth,
         \A i \in Added : /\ Len(segment'[i].stack) = m
                          /\ \A k \in 1 .. m : segment'[i].stack[k] = segment[i].stack[o + k]
  PROVE  Snapshots' = SubSeq(Snapshots, o + 1, o + m)
<1>1. Depth' = m
  BY DepthNext DEF StacksAlike
<1>2. Snapshots' = [k \in 1 .. m |-> [i \in Added |-> segment[i].stack[o + k]]]
  BY <1>1 DEF Snapshots
<1>3. \A k \in 1 .. m : Snapshots[o + k] = [i \in Added |-> segment[i].stack[o + k]]
  <2> TAKE k \in 1 .. m
  <2>1. o + k \in 1 .. Depth
    BY DEF StacksAlike
  <2> QED BY <2>1, SnapshotsSeq
<1>4. Snapshots' = [k \in 1 .. m |-> Snapshots[o + k]]
  BY <1>2, <1>3
<1>5. Snapshots \in Seq([Added -> Version]) /\ o + m <= Len(Snapshots)
  BY SnapshotsSeq
<1> QED BY <1>4, <1>5, SubSeqFunction

----------------------------------------------------------------------------
(* The operations on one index, element by element *)

LEMMA PoppedElements ==
  ASSUME NEW s \in Seq(Version), s # <<>>
  PROVE  /\ Len(Pop(s)) = Len(s) - 1 /\ Last(s) = s[Len(s)]
         /\ \A k \in 1 .. Len(s) - 1 : Pop(s)[k] = s[k]
<1>1. Len(s) \in Nat \ {0} /\ Len(Pop(s)) = Len(s) - 1
  BY Popped
<1> DEFINE m == Len(s) - 1
<1>2. m \in Nat /\ 0 + m <= Len(s) /\ 0 + 1 = 1 /\ 0 + m = m
      /\ \A k \in 1 .. m : 0 + k = k
  BY <1>1
<1> HIDE DEF m
<1>3. SubSeq(s, 1, m) = [k \in 1 .. m |-> s[0 + k]]
  BY <1>2, SubSeqFunction
<1> QED BY <1>1, <1>2, <1>3 DEF Pop, Last, m

LEMMA UndoneStack ==
  ASSUME NEW t \in GoodTable
  PROVE  /\ t.stack = <<>> => TUndo(t) = t
         /\ t.stack # <<>> =>
              /\ TUndo(t).rows = t.stack[Len(t.stack)]
              /\ Len(TUndo(t).stack) = Len(t.stack) - 1
              /\ \A k \in 1 .. Len(t.stack) - 1 : TUndo(t).stack[k] = t.stack[k]
BY GoodFields, PoppedElements DEF TUndo

LEMMA SquashedStack ==
  ASSUME NEW t \in GoodTable
  PROVE  /\ TSquash(t).rows = t.rows
         /\ t.stack = <<>> => TSquash(t) = t
         /\ t.stack # <<>> =>
              /\ Len(TSquash(t).stack) = Len(t.stack) - 1
              /\ \A k \in 1 .. Len(t.stack) - 1 : TSquash(t).stack[k] = t.stack[k]
<1>1. CASE t.stack = <<>>
  BY <1>1 DEF TSquash
<1>2. CASE t.stack # <<>>
  <2>1. TSquash(t) = [rows |-> t.rows, stack |-> Pop(t.stack), revision |-> t.revision - 1]
    BY <1>2 DEF TSquash, GoodTable, Table
  <2> QED BY <1>2, <2>1, GoodFields, PoppedElements
<1> QED BY <1>1, <1>2

LEMMA CommittedStack ==
  ASSUME NEW t \in GoodTable, NEW r \in Nat
  PROVE  LET newer == t.revision - r
             left == IF newer <= 0 THEN 0
                     ELSE IF newer < Len(t.stack) THEN newer ELSE Len(t.stack)
         IN /\ TCommit(t, r).rows = t.rows
            /\ Len(TCommit(t, r).stack) = left
            /\ \A k \in 1 .. left :
                 TCommit(t, r).stack[k] = t.stack[Len(t.stack) - left + k]
<1> DEFINE newer == t.revision - r
           d == Len(t.stack)
<1>0. d \in Nat /\ newer \in Int /\ t.stack \in Seq(Version)
  BY GoodFields
<1>1. CASE newer <= 0
  <2>1. TCommit(t, r) = [rows |-> t.rows, stack |-> <<>>, revision |-> t.revision]
    BY <1>1 DEF TCommit, GoodTable, Table
  <2> QED BY <1>1, <2>1
<1>2. CASE ~(newer <= 0) /\ newer < d
  <2>1. TCommit(t, r) = [rows |-> t.rows, stack |-> SubSeq(t.stack, d - newer + 1, d),
                         revision |-> t.revision]
    BY <1>2 DEF TCommit, GoodTable, Table
  <2> DEFINE o == d - newer
  <2>2. newer \in Nat /\ o \in Nat /\ o + newer <= Len(t.stack) /\ o + newer = d
    BY <1>0, <1>2
  <2> HIDE DEF newer, o, d
  <2>3. SubSeq(t.stack, o + 1, o + newer) = [k \in 1 .. newer |-> t.stack[o + k]]
    BY <1>0, <2>2, SubSeqFunction
  <2>4. /\ TCommit(t, r).rows = t.rows
        /\ TCommit(t, r).stack = [k \in 1 .. newer |-> t.stack[o + k]]
    BY <2>1, <2>2, <2>3 DEF o
  <2>5. Len([k \in 1 .. newer |-> t.stack[o + k]]) = newer
    BY <2>2
  <2> QED BY <1>2, <2>2, <2>4, <2>5 DEF newer, o, d
<1>3. CASE ~(newer <= 0) /\ ~(newer < d)
  <2>1. TCommit(t, r) = t
    BY <1>3 DEF TCommit
  <2> QED BY <1>0, <1>3, <2>1
<1> QED BY <1>1, <1>2, <1>3

----------------------------------------------------------------------------
(* Each operation is a step of AtomicStore, or changes nothing in it.      *)

AtomicStep == Atomic!Next \/ UNCHANGED Atomic!vars

LEMMA Alike ==
  ASSUME Together, Together'
  PROVE  /\ StacksAlike /\ StacksAlike' /\ SegmentOK /\ ListOK
         /\ Added \subseteq DOMAIN segment
         /\ \A i \in Added : segment[i] \in GoodTable
<1>1. StacksAlike /\ StacksAlike'
  BY InLockstep, InLockstepNext
<1>2. SegmentOK /\ ListOK
  BY DEF Together, DbInv, Typed
<1> QED BY <1>1, <1>2, AddedKnown DEF SegmentOK

(* No added index changes, and none is added. *)
LEMMA AloneAtomic ==
  ASSUME Together, Together', Added' = Added,
         \A i \in Added : segment'[i].rows = segment[i].rows
                         /\ segment'[i].stack = segment[i].stack
  PROVE  AtomicStep
<1>1. Now' = Now /\ Snapshots' = Snapshots
  BY Alike, SameRows, SameSnapshots
<1> QED BY <1>1 DEF AtomicStep, Atomic!vars

(* All undo, or a session object undoes all. *)
LEMMA UndoneAtomic ==
  ASSUME Together, Together', Added' = Added, NEW s, ToSet(s) = Added,
         Apply(s, TUndo)
  PROVE  AtomicStep
<1>1. /\ StacksAlike /\ StacksAlike'
      /\ \A i \in Added : segment[i] \in GoodTable /\ segment'[i] = TUndo(segment[i])
  BY Alike DEF Apply
<1>2. /\ Depth \in Nat
      /\ \A i \in Added : /\ Len(segment[i].stack) = Depth
                          /\ (segment[i].stack = <<>> <=> Depth = 0)
  BY <1>1 DEF StacksAlike, Stacks
<1>3. CASE Depth = 0
  <2>1. \A i \in Added : segment'[i] = segment[i]
    BY <1>1, <1>2, <1>3, UndoneStack
  <2> QED BY <2>1, AloneAtomic
<1>4. CASE Depth # 0
  <2> DEFINE m == Depth - 1
  <2>1. m \in Nat /\ 0 + m <= Depth /\ Depth \in 1 .. Depth /\ 0 + 1 = 1 /\ 0 + m = m
        /\ \A k \in 1 .. m : 0 + k = k
    BY <1>2, <1>4
  <2>2. \A i \in Added :
          /\ segment'[i].rows = segment[i].stack[Depth]
          /\ Len(segment'[i].stack) = m
          /\ \A k \in 1 .. m : segment'[i].stack[k] = segment[i].stack[k]
    BY <1>1, <1>2, <1>4, UndoneStack
  <2>3. /\ Len(Snapshots) = Depth /\ Snapshots # <<>>
        /\ Snapshots[Depth] = [i \in Added |-> segment[i].stack[Depth]]
    BY <1>1, <1>4, <2>1, SnapshotsSeq
  <2> HIDE DEF m
  <2>4. Snapshots' = SubSeq(Snapshots, 1, m)
    <3>1. \A i \in Added :
            /\ Len(segment'[i].stack) = m
            /\ \A k \in 1 .. m : segment'[i].stack[k] = segment[i].stack[0 + k]
      BY <2>1, <2>2
    <3>2. Snapshots' = SubSeq(Snapshots, 0 + 1, 0 + m)
      BY <1>1, <2>1, <3>1, SubSnapshots
    <3> QED BY <2>1, <3>2
  <2>5. Now' = [i \in Added |-> segment'[i].rows]
    BY DEF Now
  <2>6. Now' = Snapshots[Len(Snapshots)]
    BY <2>2, <2>3, <2>5
  <2>7. Atomic!Undo
    BY <2>3, <2>4, <2>6 DEF Atomic!Undo, Atomic!Front, m
  <2> QED BY <2>7 DEF AtomicStep, Atomic!Next
<1> QED BY <1>3, <1>4

LEMMA SquashedAtomic ==
  ASSUME Together, Together', Added' = Added, NEW s, ToSet(s) = Added,
         Apply(s, TSquash)
  PROVE  AtomicStep
<1>1. /\ StacksAlike /\ StacksAlike'
      /\ \A i \in Added : segment[i] \in GoodTable /\ segment'[i] = TSquash(segment[i])
  BY Alike DEF Apply
<1>2. /\ Depth \in Nat
      /\ \A i \in Added : /\ Len(segment[i].stack) = Depth
                          /\ (segment[i].stack = <<>> <=> Depth = 0)
  BY <1>1 DEF StacksAlike, Stacks
<1>3. CASE Depth = 0
  <2>1. \A i \in Added : segment'[i] = segment[i]
    BY <1>1, <1>2, <1>3, SquashedStack
  <2> QED BY <2>1, AloneAtomic
<1>4. CASE Depth # 0
  <2> DEFINE m == Depth - 1
  <2>1. m \in Nat /\ 0 + m <= Depth /\ 0 + 1 = 1 /\ 0 + m = m
        /\ \A k \in 1 .. m : 0 + k = k
    BY <1>2, <1>4
  <2>2. \A i \in Added :
          /\ segment'[i].rows = segment[i].rows
          /\ Len(segment'[i].stack) = m
          /\ \A k \in 1 .. m : segment'[i].stack[k] = segment[i].stack[k]
    BY <1>1, <1>2, <1>4, SquashedStack
  <2>3. Len(Snapshots) = Depth /\ Snapshots # <<>>
    BY <1>1, <1>4, SnapshotsSeq
  <2> HIDE DEF m
  <2>4. Snapshots' = SubSeq(Snapshots, 1, m)
    <3>1. \A i \in Added :
            /\ Len(segment'[i].stack) = m
            /\ \A k \in 1 .. m : segment'[i].stack[k] = segment[i].stack[0 + k]
      BY <2>1, <2>2
    <3>2. Snapshots' = SubSeq(Snapshots, 0 + 1, 0 + m)
      BY <1>1, <2>1, <3>1, SubSnapshots
    <3> QED BY <2>1, <3>2
  <2>5. Now' = Now
    BY <2>2, SameRows
  <2>6. Atomic!Squash
    BY <2>3, <2>4, <2>5 DEF Atomic!Squash, Atomic!Front, m
  <2> QED BY <2>6 DEF AtomicStep, Atomic!Next
<1> QED BY <1>3, <1>4

LEMMA UndoAllAtomic ==
  ASSUME Together, Together', UndoAll
  PROVE  AtomicStep
<1>1. /\ StacksAlike /\ StacksAlike' /\ Added' = Added
      /\ \A i \in Added : segment[i] \in GoodTable /\ segment'[i] = TUndoAll(segment[i])
  BY Alike DEF UndoAll, Apply, Added, object
<1>2. /\ Depth \in Nat
      /\ \A i \in Added : (segment[i].stack = <<>> <=> Depth = 0)
  BY <1>1 DEF StacksAlike, Stacks
<1>3. CASE Depth = 0
  <2>1. \A i \in Added : segment'[i] = segment[i]
    BY <1>1, <1>2, <1>3 DEF TUndoAll
  <2> QED BY <1>1, <2>1, AloneAtomic
<1>4. CASE Depth # 0
  <2>1. \A i \in Added : /\ segment'[i].rows = segment[i].stack[1]
                         /\ segment'[i].stack = <<>>
    <3> TAKE i \in Added
    <3>1. segment[i].stack # <<>> /\ segment'[i] = TUndoAll(segment[i])
      BY <1>1, <1>2, <1>4
    <3>2. segment'[i] = [rows |-> segment[i].stack[1], stack |-> <<>>,
                         revision |-> segment[i].revision - Len(segment[i].stack)]
      BY <3>1 DEF TUndoAll
    <3> QED BY <3>2
  <2>2. Snapshots # <<>> /\ Snapshots[1] = [i \in Added |-> segment[i].stack[1]]
    <3>1. 1 \in 1 .. Depth
      BY <1>2, <1>4
    <3> QED BY <1>1, <1>4, <3>1, SnapshotsSeq
  <2>3. Depth' = 0
    <3>1. \A i \in Added : Len(segment'[i].stack) = 0
      BY <2>1
    <3>2. 0 \in Nat
      OBVIOUS
    <3> QED BY <1>1, <3>1, <3>2, DepthNext
  <2>4. Snapshots' = <<>>
    BY <2>3 DEF Snapshots
  <2>5. Now' = [i \in Added |-> segment'[i].rows]
    BY <1>1 DEF Now
  <2>6. Now' = Snapshots[1]
    BY <2>1, <2>2, <2>5
  <2>7. Atomic!UndoAll
    BY <2>2, <2>4, <2>6 DEF Atomic!UndoAll
  <2> QED BY <2>7 DEF AtomicStep, Atomic!Next
<1> QED BY <1>3, <1>4

(* They all keep the same number of sessions, since their revisions and    *)
(* depths agree.                                                           *)
LEMMA CommitAtomic ==
  ASSUME Together, Together', NEW r \in -1 .. MaxRevision, Commit(r)
  PROVE  AtomicStep
<1> DEFINE u == Unsigned(r)
<1>0. u \in Nat
  BY DatabaseAssumption DEF Unsigned
<1>1. /\ StacksAlike /\ StacksAlike' /\ Added' = Added /\ Lockstep
      /\ \A i \in Added : segment[i] \in GoodTable /\ segment'[i] = TCommit(segment[i], u)
  BY Alike DEF Commit, Apply, Added, object, Together
<1> HIDE DEF u
<1>2. Depth \in Nat /\ \A i \in Added : Len(segment[i].stack) = Depth
  BY <1>1 DEF StacksAlike, Stacks
<1>3. CASE Added = {}
  BY <1>1, <1>3, AloneAtomic
<1>4. CASE Added # {}
  <2>1. PICK a \in Added : TRUE
    BY <1>4
  <2> DEFINE v == segment[a].revision
             newer == v - u
             m == IF newer <= 0 THEN 0 ELSE IF newer < Depth THEN newer ELSE Depth
             o == Depth - m
  <2>2. \A i \in Added : segment[i].revision = v
    BY <1>1, <2>1, SameDepth DEF Lockstep
  <2>3. v \in Nat
    BY <1>1, <2>1, GoodFields
  <2>4. m \in Nat /\ o \in Nat /\ o + m = Depth /\ o + m <= Depth
    <3>1. m \in Nat /\ m <= Depth
      <4>1. newer \in Int
        BY <1>0, <2>3
      <4> HIDE DEF newer
      <4> QED BY <1>2, <4>1
    <3> HIDE DEF m
    <3> QED BY <1>2, <3>1
  <2>5. \A i \in Added :
          /\ segment'[i].rows = segment[i].rows
          /\ Len(segment'[i].stack) = m
          /\ \A k \in 1 .. m : segment'[i].stack[k] = segment[i].stack[o + k]
    <3> TAKE i \in Added
    <3> DEFINE t == segment[i]
    <3>1. /\ t \in GoodTable /\ segment'[i] = TCommit(t, u)
          /\ t.revision = v /\ Len(t.stack) = Depth
      BY <1>1, <1>2, <2>2
    <3> HIDE DEF t, v
    <3>2. /\ TCommit(t, u).rows = t.rows
          /\ Len(TCommit(t, u).stack) = m
          /\ \A k \in 1 .. m : TCommit(t, u).stack[k] = t.stack[o + k]
      BY <1>0, <3>1, CommittedStack
    <3> QED BY <3>1, <3>2 DEF t
  <2> HIDE DEF v, m, o
  <2>6. Now' = Now
    BY <1>1, <2>5, SameRows
  <2>7. Snapshots' = SubSeq(Snapshots, o + 1, o + m)
    BY <1>1, <2>4, <2>5, SubSnapshots
  <2>8. Len(Snapshots) = Depth
    BY <1>1, SnapshotsSeq
  <2>9. CASE o = 0
    <3>1. m = Depth
      BY <1>2, <2>4, <2>9
    <3>2. Depth' = Depth
      BY <1>1, <2>4, <2>5, <3>1, DepthNext DEF StacksAlike
    <3>3. \A k \in 1 .. m : o + k = k
      BY <2>9
    <3>4. \A i \in Added : \A k \in 1 .. Depth : segment'[i].stack[k] = segment[i].stack[k]
      BY <2>5, <3>1, <3>3
    <3>5. Snapshots' = Snapshots
      BY <1>1, <3>2, <3>4 DEF Snapshots
    <3> QED BY <2>6, <3>5 DEF AtomicStep, Atomic!vars
  <2>10. CASE o # 0
    <3>1. o \in 1 .. Len(Snapshots) /\ o + m = Len(Snapshots)
      BY <2>4, <2>8, <2>10
    <3>2. Atomic!Commit
      BY <2>6, <2>7, <3>1 DEF Atomic!Commit
    <3> QED BY <3>2 DEF AtomicStep, Atomic!Next
  <2> QED BY <2>9, <2>10
<1> QED BY <1>3, <1>4

LEMMA SetRevisionAtomic ==
  ASSUME Together, Together', NEW r \in 0 .. MaxRevision, SetRevision(r)
  PROVE  AtomicStep
<1>1. /\ Added' = Added /\ Added \subseteq DOMAIN segment
      /\ \A i \in Added : segment[i] \in GoodTable
      /\ segment' = [i \in DOMAIN segment |->
                       IF i \in BeforeRefusal(r) THEN [segment[i] EXCEPT !.revision = r]
                       ELSE segment[i]]
  BY Alike DEF SetRevision, object, Added
<1>2. \A i \in Added : segment'[i].rows = segment[i].rows
                      /\ segment'[i].stack = segment[i].stack
  <2> TAKE i \in Added
  <2>1. /\ segment[i] \in GoodTable
        /\ segment'[i] = [segment[i] EXCEPT !.revision = r] \/ segment'[i] = segment[i]
    BY <1>1
  <2>2. /\ [segment[i] EXCEPT !.revision = r].rows = segment[i].rows
        /\ [segment[i] EXCEPT !.revision = r].stack = segment[i].stack
    BY <2>1 DEF GoodTable, Table
  <2> QED BY <2>1, <2>2
<1> QED BY <1>1, <1>2, AloneAtomic

LEMMA WriteAtomic ==
  ASSUME Together, Together', NEW i \in Index, NEW v \in Version, Write(i, v)
  PROVE  AtomicStep
<1>1. /\ StacksAlike /\ StacksAlike' /\ Added' = Added /\ i \in Added
      /\ Added \subseteq DOMAIN segment
      /\ \A j \in Added : segment[j] \in GoodTable
      /\ segment' = [segment EXCEPT ![i].rows = v]
  BY Alike DEF Write, object, Added
<1>2. /\ segment'[i].rows = v /\ segment'[i].stack = segment[i].stack
      /\ \A j \in Added : j # i => segment'[j] = segment[j]
  <2>1. segment'[i] = [segment[i] EXCEPT !.rows = v]
    BY <1>1
  <2>2. /\ [segment[i] EXCEPT !.rows = v].rows = v
        /\ [segment[i] EXCEPT !.rows = v].stack = segment[i].stack
    BY <1>1 DEF GoodTable, Table
  <2> QED BY <1>1, <2>1, <2>2
<1>3. Snapshots' = Snapshots
  <2>1. \A j \in Added : segment'[j].stack = segment[j].stack
    BY <1>2
  <2> QED BY <1>1, <2>1, SameSnapshots
<1>4. Now' = [Now EXCEPT ![i] = v] /\ i \in DOMAIN Now
  <2>1. Now' = [j \in Added |-> segment'[j].rows]
    BY <1>1 DEF Now
  <2>2. \A j \in Added : segment'[j].rows = IF j = i THEN v ELSE segment[j].rows
    BY <1>2
  <2> QED BY <1>1, <2>1, <2>2 DEF Now
<1>5. Atomic!Write(i, v)
  BY <1>3, <1>4 DEF Atomic!Write
<1> QED BY <1>4, <1>5 DEF AtomicStep, Atomic!Next

(* Without indices there is nothing to take a snapshot of. *)
LEMMA StartAtomic ==
  ASSUME Together, Together', StartUndoSession
  PROVE  AtomicStep
<1>1. /\ StacksAlike /\ StacksAlike' /\ Added' = Added
      /\ \A i \in Added : segment[i] \in GoodTable /\ segment'[i] = TStart(segment[i])
  BY Alike DEF StartUndoSession, Apply, Added
<1>2. /\ Depth \in Nat
      /\ \A i \in Added : /\ Len(segment[i].stack) = Depth
                          /\ segment[i].stack \in Seq(Version)
                          /\ segment[i].rows \in Version
  BY <1>1 DEF StacksAlike, Stacks
<1>3. CASE Added = {}
  BY <1>1, <1>3, AloneAtomic
<1>4. CASE Added # {}
  <2>1. \A i \in Added :
          /\ segment'[i].rows = segment[i].rows
          /\ segment'[i].stack = [k \in 1 .. Depth + 1 |->
                                    IF k = Depth + 1 THEN segment[i].rows
                                    ELSE segment[i].stack[k]]
    <3> TAKE i \in Added
    <3>1. /\ segment'[i].rows = segment[i].rows
          /\ segment'[i].stack = Append(segment[i].stack, segment[i].rows)
      BY <1>1 DEF TStart, GoodTable, Table
    <3> QED BY <1>2, <3>1, AppendFunction
  <2>2. \A i \in Added : Len(segment'[i].stack) = Depth + 1
    <3> TAKE i \in Added
    <3>1. segment'[i].stack = Append(segment[i].stack, segment[i].rows)
      BY <1>1 DEF TStart, GoodTable, Table
    <3> QED BY <1>2, <3>1, AppendProperties
  <2>3. Depth' = Depth + 1
    BY <1>1, <1>2, <1>4, <2>2, DepthNext
  <2>4. Snapshots' = [k \in 1 .. Depth + 1 |-> [i \in Added |-> segment'[i].stack[k]]]
    BY <1>1, <2>3 DEF Snapshots
  <2>5. \A k \in 1 .. Depth + 1 :
          [i \in Added |-> segment'[i].stack[k]] = IF k = Depth + 1 THEN Now ELSE Snapshots[k]
    <3> TAKE k \in 1 .. Depth + 1
    <3>1. CASE k = Depth + 1
      BY <2>1, <3>1 DEF Now
    <3>2. CASE k # Depth + 1
      <4>1. k \in 1 .. Depth
        BY <1>2, <3>2
      <4>2. Snapshots[k] = [i \in Added |-> segment[i].stack[k]]
        BY <1>1, <4>1, SnapshotsSeq
      <4>3. \A i \in Added : segment'[i].stack[k] = segment[i].stack[k]
        BY <2>1, <3>2
      <4> QED BY <3>2, <4>2, <4>3
    <3> QED BY <3>1, <3>2
  <2>6. Snapshots' = [k \in 1 .. Depth + 1 |-> IF k = Depth + 1 THEN Now ELSE Snapshots[k]]
    BY <2>4, <2>5
  <2> DEFINE V == [Added -> Version]
  <2>7. Now \in V /\ Snapshots \in Seq(V) /\ Len(Snapshots) = Depth
    BY <1>1, SnapshotsSeq
  <2> HIDE DEF V
  <2>8. Snapshots' = Append(Snapshots, Now)
    BY <2>6, <2>7, AppendFunction
  <2>9. Now' = Now
    BY <1>1, <2>1, SameRows
  <2>10. Atomic!Start
    BY <2>8, <2>9 DEF Atomic!Start
  <2> QED BY <2>10 DEF AtomicStep, Atomic!Next
<1> QED BY <1>3, <1>4

(* An index joins; it brings as many snapshots as the others have. *)
LEMMA AddedAtomic ==
  ASSUME Together, Together', NEW i \in Index, i \notin Added,
         Added' = Added \cup {i}, \A j \in Added : segment'[j] = segment[j]
  PROVE  AtomicStep
<1>1. StacksAlike /\ StacksAlike' /\ DOMAIN Now = Added
  BY Alike DEF Now
<1>2. /\ Depth' \in Nat /\ segment'[i].rows \in Version
      /\ \A k \in 1 .. Depth' : segment'[i].stack[k] \in Version
      /\ \A j \in Added : Len(segment[j].stack) = Depth'
  BY <1>1 DEF StacksAlike, Stacks
<1>3. Added # {} => Depth' = Depth
  BY <1>1, <1>2 DEF StacksAlike, Stacks
<1>4. Now' = [j \in Added \cup {i} |-> segment'[j].rows]
  BY DEF Now
<1>5. Now' = Atomic!With(Now, i, segment'[i].rows)
  <2>1. \A j \in Added : j # i /\ segment'[j].rows = Now[j]
    BY DEF Now
  <2> QED BY <1>1, <1>4, <2>1 DEF Atomic!With
<1>6. Snapshots' = [k \in 1 .. Depth' |-> [j \in Added \cup {i} |-> segment'[j].stack[k]]]
  BY DEF Snapshots
<1>7. Len(Snapshots') = Depth' /\ Len(Snapshots) = Depth
  BY <1>1, <1>2, <1>6, SnapshotsSeq
<1>8. ASSUME NEW k \in 1 .. Depth'
      PROVE  Snapshots'[k] = Atomic!With(IF DOMAIN Now = {} THEN Now ELSE Snapshots[k],
                                         i, segment'[i].stack[k])
  <2>1. Snapshots'[k] = [j \in Added \cup {i} |-> segment'[j].stack[k]]
    BY <1>6
  <2>2. CASE Added = {}
    BY <1>1, <2>1, <2>2 DEF Atomic!With
  <2>3. CASE Added # {}
    <3>1. Snapshots[k] = [j \in Added |-> segment[j].stack[k]]
      BY <1>1, <1>3, <2>3, SnapshotsSeq
    <3>2. \A j \in Added : j # i /\ segment'[j].stack[k] = Snapshots[k][j]
      BY <3>1
    <3>3. DOMAIN Snapshots[k] = Added
      BY <3>1
    <3> QED BY <1>1, <2>1, <2>3, <3>2, <3>3 DEF Atomic!With
  <2> QED BY <2>2, <2>3
<1>9. \A k \in 1 .. Len(Snapshots') :
        \E v \in Version :
          Snapshots'[k] = Atomic!With(IF DOMAIN Now = {} THEN Now ELSE Snapshots[k], i, v)
  BY <1>2, <1>7, <1>8
<1>10. Atomic!Add(i)
  BY <1>1, <1>2, <1>3, <1>5, <1>7, <1>9 DEF Atomic!Add
<1> QED BY <1>10 DEF AtomicStep, Atomic!Next

LEMMA AddAtomic ==
  ASSUME Together, Together', NEW i \in Index, AddExisting(i) \/ AddNew(i)
  PROVE  AtomicStep
<1>1. /\ i \notin Added /\ _index_list' = Append(_index_list, i)
      /\ ListOK /\ SegmentOK /\ Added \subseteq DOMAIN segment
  BY Alike DEF AddExisting, AddNew, MayAdd
<1>2. /\ i \in DOMAIN segment' /\ DOMAIN segment \subseteq DOMAIN segment'
      /\ \A j \in Added : segment'[j] = segment[j]
  <2>1. CASE AddExisting(i)
    BY <2>1 DEF AddExisting
  <2>2. CASE AddNew(i)
    <3>1. i \notin DOMAIN segment /\ \E t : Constructed(i, t)
      BY <2>2 DEF AddNew
    <3> QED BY <1>1, <3>1 DEF Constructed
  <2> QED BY <2>1, <2>2
<1>3. Added' = Added \cup {i}
  BY <1>1, <1>2, ListAppended
<1> QED BY <1>1, <1>2, <1>3, AddedAtomic

LEMMA AddFailsAtomic ==
  ASSUME Together, Together', NEW i \in Index, NEW upto \in 0 .. MaxRevision,
         AddNewFails(i, upto)
  PROVE  AtomicStep
<1>1. /\ Added' = Added /\ Added \subseteq DOMAIN segment /\ i \notin DOMAIN segment
      /\ Constructed(i, Filled(Expected, upto))
  BY Alike DEF AddNewFails, object, Added
<1>2. \A j \in Added : segment'[j] = segment[j]
  BY <1>1 DEF Constructed
<1> QED BY <1>1, <1>2, AloneAtomic

LEMMA CloseAtomic ==
  ASSUME Together, Together', Close
  PROVE  AtomicStep
<1>1. _index_list' = <<>>
  BY DEF Close
<1>2. Added' = {} /\ Depth' = 0
  BY <1>1 DEF Added, ToSet, Depth
<1>3. Now' = [i \in {} |-> 0] /\ Snapshots' = <<>>
  BY <1>2 DEF Now, Snapshots
<1>4. Atomic!Open
  BY <1>3 DEF Atomic!Open
<1> QED BY <1>4 DEF AtomicStep, Atomic!Next

(* The database object changes, no index does. *)
LEMMA ObjectAtomic ==
  ASSUME Together, Together', UNCHANGED <<segment, _index_list>>
  PROVE  AtomicStep
BY AloneAtomic DEF Added

LEMMA SessionsAtomicStep ==
  ASSUME Together, Together', NEW k \in DOMAIN sessions,
         SessionPush(k) \/ SessionSquash(k) \/ SessionUndo(k)
  PROVE  AtomicStep
<1>1. Added' = Added /\ _index_list' = _index_list /\ ToSet(sessions[k]) = Added
  BY DEF SessionPush, SessionSquash, SessionUndo, End, Added, Together, SessionsCover
<1>2. CASE SessionPush(k)
  BY <1>1, <1>2, ObjectAtomic DEF SessionPush
<1>3. CASE SessionSquash(k)
  <2>1. Apply(sessions[k], TSquash)
    BY <1>3 DEF SessionSquash
  <2> QED BY <1>1, <2>1, SquashedAtomic
<1>4. CASE SessionUndo(k)
  <2>1. Apply(sessions[k], TUndo)
    BY <1>4 DEF SessionUndo
  <2> QED BY <1>1, <2>1, UndoneAtomic
<1> QED BY <1>2, <1>3, <1>4

LEMMA AllAtomic ==
  ASSUME Together, Together', Undo \/ Squash
  PROVE  AtomicStep
<1>1. Added' = Added /\ ToSet(_index_list) = Added
  BY DEF Undo, Squash, object, Added
<1>2. CASE Undo
  <2>1. Apply(_index_list, TUndo)
    BY <1>2 DEF Undo
  <2> QED BY <1>1, <2>1, UndoneAtomic
<1>3. CASE Squash
  <2>1. Apply(_index_list, TSquash)
    BY <1>3 DEF Squash
  <2> QED BY <1>1, <2>1, SquashedAtomic
<1> QED BY <1>2, <1>3

----------------------------------------------------------------------------
(* The theorem *)

LEMMA NextAtomic ==
  ASSUME Together, Together', [Next]_vars
  PROVE  AtomicStep
<1>1. CASE UNCHANGED vars
  BY <1>1, ObjectAtomic DEF vars, object
<1>2. CASE (\E ro \in BOOLEAN : Open(ro)) \/ SetReadOnlyMode \/ UnsetReadOnlyMode
  BY <1>2, ObjectAtomic DEF Open, SetReadOnlyMode, UnsetReadOnlyMode
<1>3. CASE Next /\ ~((\E ro \in BOOLEAN : Open(ro)) \/ SetReadOnlyMode \/ UnsetReadOnlyMode)
  BY <1>3, CloseAtomic, AddAtomic, AddFailsAtomic, WriteAtomic, StartAtomic,
     SessionsAtomicStep, AllAtomic, UndoAllAtomic, CommitAtomic, SetRevisionAtomic
     DEF Next
<1> QED BY <1>1, <1>2, <1>3

LEMMA InitAtomic ==
  ASSUME Init
  PROVE  Atomic!Init
<1>1. Added = {} /\ Depth = 0
  BY DEF Init, Added, ToSet, Depth
<1>2. Now = [i \in {} |-> 0] /\ Snapshots = <<>>
  BY <1>1 DEF Now, Snapshots
<1> QED BY <1>2 DEF Atomic!Init

(* database implements AtomicStore: an undo, of the database or of a       *)
(* session object, takes all added indices back to what they were when the *)
(* same session began, and no other operation changes what it would give   *)
(* back, unless an index is added while session objects live.              *)
THEOREM SessionsAreAtomic == AddDuringSession = FALSE => (Spec => SessionsAtomic)
<1> SUFFICES ASSUME AddDuringSession = FALSE PROVE Spec => SessionsAtomic
  OBVIOUS
<1>1. Init => Atomic!Init
  BY InitAtomic
<1>2. DbInv => Together
  BY DEF DbInv, Together
<1>3. Together /\ Together' /\ [Next]_vars => [Atomic!Next]_(Atomic!vars)
  BY NextAtomic DEF AtomicStep
<1> QED BY <1>1, <1>2, <1>3, DbInvariance, PTL DEF Spec, SessionsAtomic, Atomic!Spec
===============================================================================
