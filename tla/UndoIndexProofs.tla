-------------------------- MODULE UndoIndexProofs ----------------------------
(***************************************************************************)
(* Proofs about UndoIndex, for every set of keys and of indices and for    *)
(* all bounds.  First its safety properties.  Then that it implements      *)
(* UndoTable when no client modifies again an object whose modification    *)
(* was refused: what undo writes back is what the rows were.  The heart of *)
(* that is that every operation leaves the snapshot of each session that   *)
(* remains, RowsAtStart, as it is, although it changes the lists that the  *)
(* snapshot is reconstructed from.  Last, that undo then gives back the    *)
(* rows that UndoIndexHistory recorded when the session began.             *)
(***************************************************************************)
EXTENDS UndoIndexHistory, TLAPS, SequenceTheorems, WellFoundedInduction

(* Every non-empty set of naturals has a least element. *)
LEMMA LeastNat ==
  ASSUME NEW T, T \subseteq Nat, T # {}
  PROVE  \E x \in T : \A y \in T : x <= y
<1>1. PICK x \in T : \A y \in T : ~(<<y, x>> \in OpToRel(<, Nat))
  BY NatLessThanWellFounded, WFMin, Zenon
<1>2. \A y \in T : ~(y < x)
  BY <1>1 DEF OpToRel
<1>3. \A y \in T : x <= y
  BY <1>2
<1> QED BY <1>3

(* Min, as CHOOSE defines it, is that element. *)
LEMMA MinNat ==
  ASSUME NEW T, T \subseteq Nat, T # {}
  PROVE  Min(T) \in T /\ \A y \in T : Min(T) <= y
BY LeastNat DEF Min

(* A bounded set of naturals has a greatest element. *)
LEMMA MaxNat ==
  ASSUME NEW T, T \subseteq Nat, T # {}, NEW n \in Nat, \A y \in T : y <= n
  PROVE  Max(T) \in T /\ \A y \in T : y <= Max(T)
<1> DEFINE U == {m \in Nat : \A y \in T : y <= m}
<1>1. PICK m \in U : \A k \in U : m <= k
  BY LeastNat
<1>2. m \in T
  <2>1. SUFFICES ASSUME m \notin T PROVE FALSE
    OBVIOUS
  <2>2. PICK y \in T : TRUE
    OBVIOUS
  <2>3. m - 1 \in Nat /\ \A z \in T : z <= m - 1
    BY <2>1, <2>2
  <2> QED BY <1>1, <2>3
<1> QED BY <1>1, <1>2 DEF Max

(* The height of a bounded list bounds it and is a position, or 0. *)
LEMMA HeightFacts ==
  ASSUME NEW L, DOMAIN L \subseteq Nat, NEW n \in Nat, \A p \in DOMAIN L : p <= n
  PROVE  HeightBounds(L) /\ Height(L) \in DOMAIN L \cup {0}
<1>1. CASE DOMAIN L = {}
  BY <1>1 DEF HeightBounds, Height
<1>2. CASE DOMAIN L # {}
  BY <1>2, MaxNat DEF HeightBounds, Height
<1> QED BY <1>1, <1>2

(* push_front adds one element, in front of all others. *)
LEMMA PushFrontFacts ==
  ASSUME NEW L, DOMAIN L \subseteq Nat \ {0}, HeightBounds(L), NEW e
  PROVE  /\ Height(L) + 1 \in Nat \ {0}
         /\ Height(L) + 1 \notin DOMAIN L
         /\ DOMAIN PushFront(L, e) = DOMAIN L \cup {Height(L) + 1}
         /\ PushFront(L, e)[Height(L) + 1] = e
         /\ \A p \in DOMAIN L : PushFront(L, e)[p] = L[p] /\ p < Height(L) + 1
         /\ HeightBounds(PushFront(L, e))
<1> DEFINE h == Height(L) + 1
           M == PushFront(L, e)
<1>1. h \in Nat \ {0} /\ \A p \in DOMAIN L : p < h
  BY DEF HeightBounds
<1>2. h \notin DOMAIN L
  BY <1>1
<1>3. DOMAIN M = DOMAIN L \cup {h} /\ M[h] = e /\ \A p \in DOMAIN L : M[p] = L[p]
  BY <1>2 DEF PushFront
<1>4. DOMAIN M \subseteq Nat /\ \A p \in DOMAIN M : p <= h
  BY <1>1, <1>3
<1> HIDE DEF M
<1>5. HeightBounds(M)
  BY <1>1, <1>4, HeightFacts
<1> QED BY <1>1, <1>2, <1>3, <1>5 DEF M

----------------------------------------------------------------------------
(* The bounds on the values of the variables, as arithmetic. *)
LEMMA StackFacts ==
  ASSUME TypeOK
  PROVE  /\ Depth \in Nat
         /\ undo_stack # <<>> => Depth \in 1 .. Depth /\ Depth >= 1
         /\ \A i \in 1 .. Depth :
              /\ undo_stack[i] \in UndoState
              /\ undo_stack[i].old_values_end \in Nat
              /\ undo_stack[i].removed_values_end \in Nat
              /\ undo_stack[i].old_next_id \in Nat
              /\ undo_stack[i].ctime \in Nat
         /\ Depth = 0 => undo_stack = <<>>
<1>1. undo_stack \in Seq(UndoState)
  BY DEF TypeOK
<1>2. Depth \in Nat /\ (Depth = 0 <=> undo_stack = <<>>)
  BY <1>1 DEF Depth
<1>3. \A i \in 1 .. Depth : undo_stack[i] \in UndoState
  BY <1>1 DEF Depth
<1>4. \A s \in UndoState : /\ s.old_values_end \in Nat
                           /\ s.removed_values_end \in Nat
                           /\ s.old_next_id \in Nat
                           /\ s.ctime \in Nat
  BY UndoIndexAssumption DEF UndoState, Mtime
<1> QED BY <1>2, <1>3, <1>4

(* A node that backups were written back to has the type of a node, and    *)
(* the _mtime it had or that of one of the backups.                        *)
LEMMA RestoredFacts ==
  ASSUME TypeOK, NEW x \in DOMAIN node,
         NEW ps, ps \subseteq DOMAIN old_values
  PROVE  /\ RestoredFrom(x, ps) \in Node
         /\ \/ RestoredFrom(x, ps).mtime = node[x].mtime
            \/ \E p \in ps : RestoredFrom(x, ps).mtime = old_values[p].mtime
<1>1. node[x] \in Node
  BY DEF TypeOK
<1>2. CASE ps = {}
  BY <1>1, <1>2 DEF RestoredFrom
<1>3. CASE ps # {}
  <2>1. Min(ps) \in ps
    BY <1>3, MinNat DEF TypeOK
  <2> DEFINE b == old_values[Min(ps)]
  <2>2. b \in OldNode
    BY <2>1 DEF TypeOK
  <2>3. RestoredFrom(x, ps) = [node[x] EXCEPT !.val = b.val, !.mtime = b.mtime]
    BY <1>3 DEF RestoredFrom
  <2>4. RestoredFrom(x, ps) \in Node /\ RestoredFrom(x, ps).mtime = b.mtime
    BY <1>1, <2>2, <2>3 DEF Node, OldNode
  <2> QED BY <2>1, <2>4
<1> QED BY <1>2, <1>3

(* What an operation that only drops elements of the lists and states of   *)
(* the stack has to satisfy to preserve the invariant: undo, the squashes, *)
(* last_undo_session and commit do.                                        *)
LEMMA ShrinkStep ==
  ASSUME IndInv, TypeOK',
         DOMAIN old_values' \subseteq DOMAIN old_values,
         \A p \in DOMAIN old_values' : old_values'[p] = old_values[p],
         DOMAIN removed_values' \subseteq DOMAIN removed_values,
         \A p \in DOMAIN removed_values' : removed_values'[p] = removed_values[p],
         NEW k \in Nat, Depth' + k <= Depth,
         \A i \in 1 .. Depth' : undo_stack'[i] = undo_stack[k + i],
         \A i \in 1 .. Depth' :
           /\ undo_stack'[i].old_values_end \in DOMAIN old_values' \cup {0}
           /\ undo_stack'[i].removed_values_end \in DOMAIN removed_values' \cup {0}
           /\ undo_stack'[i].old_next_id <= next_id'
           /\ \A p \in OldRegion(undo_stack[i])' :
                old_values[p].mtime < undo_stack'[i].ctime =>
                  old_values[p].id \in DOMAIN node',
         table' \cap AllRemoved' = {},
         \A x \in table' \cup AllRemoved' :
           /\ x \in table \cup AllRemoved
           /\ x < next_id'
           /\ node'[x].mtime <= monotonic_revision
           /\ \A i \in 1 .. Depth' : x >= undo_stack'[i].old_next_id =>
                                       node'[x].mtime >= undo_stack'[i].ctime,
         monotonic_revision' = monotonic_revision,
         Depth' <= revision'
  PROVE  IndInv'
<1> USE DEF IndInv
<1>1. Depth \in Nat /\ Depth' \in Nat
  BY StackFacts DEF TypeOK, Depth
<1>2. \A i \in 1 .. Depth' : k + i \in 1 .. Depth
  BY <1>1
<1>3. \A i \in 1 .. Depth' : OldRegion(undo_stack[i])' \subseteq OldRegion(undo_stack[k + i])
  BY DEF OldRegion
<1>4. HeightBounds(old_values')
  BY HeightFacts DEF TypeOK, HeightBounds
<1>5. HeightBounds(removed_values')
  BY HeightFacts DEF TypeOK, HeightBounds
<1>6. RemovedOnce'
  BY DEF RemovedOnce
<1>7. RemovedBefore'
  BY <1>2, <1>3 DEF RemovedBefore, OldRegion
<1>8. NewIsRecent'
  BY <1>2, <1>3 DEF NewIsRecent, OldRegion
<1>9. BackupsPast'
  BY DEF BackupsPast
<1>10. EndsPresent'
  BY <1>1, <1>2 DEF EndsPresent
<1>11. StackOrdered'
  <2>1. ASSUME NEW i \in 1 .. Depth', NEW j \in 1 .. Depth', i < j
        PROVE  /\ undo_stack'[i].ctime < undo_stack'[j].ctime
               /\ undo_stack'[i].old_next_id <= undo_stack'[j].old_next_id
    <3>1. k + i \in 1 .. Depth /\ k + j \in 1 .. Depth /\ k + i < k + j
      BY <1>1, <1>2, <2>1
    <3> QED BY <3>1 DEF StackOrdered
  <2>2. ASSUME NEW i \in 1 .. Depth'
        PROVE  undo_stack'[i].ctime \in 1 .. monotonic_revision
    BY <1>2 DEF StackOrdered
  <2> QED BY <2>1, <2>2 DEF StackOrdered
<1>12. RangeExists'
  BY DEF RangeExists
<1>13. CurrentAlive'
  BY DEF CurrentAlive, OldRegion
<1> QED BY <1>4, <1>5, <1>6, <1>7, <1>8, <1>9, <1>10, <1>11, <1>12, <1>13

----------------------------------------------------------------------------
(* The operations that change rows and leave the stack as it is. *)

(* emplace gives a new row an id that no other node has. *)
LEMMA EmplaceStep ==
  ASSUME IndInv, NEW v \in Value, Emplace(v)
  PROVE  IndInv'
<1> USE DEF IndInv
<1>1. /\ next_id \in Nat /\ next_id < MaxId /\ next_id' = next_id + 1
      /\ monotonic_revision \in Mtime /\ 0 \in Mtime
  BY UndoIndexAssumption DEF TypeOK, Emplace, Mtime
<1>2. UNCHANGED <<old_values, removed_values, undo_stack, revision, monotonic_revision>>
  BY DEF Emplace, lists
<1>3. /\ table' = table \cup {next_id}
      /\ DOMAIN node' = DOMAIN node \cup {next_id}
      /\ node'[next_id] = [val |-> v, mtime |-> NewMtime, erased |-> FALSE]
      /\ \A x \in DOMAIN node \ {next_id} : node'[x] = node[x]
  BY DEF Emplace
<1>4. /\ Depth' = Depth /\ AllRemoved' = AllRemoved
      /\ \A i \in 1 .. Depth : /\ OldRegion(undo_stack[i])' = OldRegion(undo_stack[i])
                               /\ undo_stack'[i] = undo_stack[i]
  BY <1>2 DEF Depth, AllRemoved, OldRegion
<1>5. next_id \notin table \cup AllRemoved
  BY <1>1 DEF StackOrdered
<1>6. \A x \in table \cup AllRemoved : node'[x] = node[x]
  BY <1>3, <1>5 DEF TypeOK, AllRemoved
<1>7. TypeOK'
  <2>1. node'[next_id] \in Node /\ next_id \in Id
    BY <1>1, <1>3, UndoIndexAssumption DEF Node, Id, NewMtime
  <2>2. DOMAIN node' \subseteq Id /\ \A x \in DOMAIN node' : node'[x] \in Node
    <3>1. DOMAIN node \subseteq Id /\ \A x \in DOMAIN node : node[x] \in Node
      BY DEF TypeOK
    <3> QED BY <1>3, <2>1, <3>1
  <2>3. table' \subseteq DOMAIN node' /\ next_id' \in 0 .. MaxId
    BY <1>1, <1>3, UndoIndexAssumption DEF TypeOK
  <2> QED BY <1>2, <1>3, <2>2, <2>3 DEF TypeOK
<1>8. HeightBounds(old_values)' /\ HeightBounds(removed_values)'
  BY <1>2 DEF HeightBounds, Height
<1>9. RemovedOnce'
  BY <1>2, <1>3, <1>4, <1>5 DEF RemovedOnce
<1>10. RemovedBefore' /\ BackupsPast' /\ EndsPresent' /\ RangeExists'
  BY <1>2, <1>4 DEF RemovedBefore, BackupsPast, EndsPresent, RangeExists
<1>11. StackOrdered'
  <2>1. \A i, j \in 1 .. Depth' : i < j =>
          /\ undo_stack'[i].ctime < undo_stack'[j].ctime
          /\ undo_stack'[i].old_next_id <= undo_stack'[j].old_next_id
    BY <1>4 DEF StackOrdered
  <2>2. \A i \in 1 .. Depth' : /\ undo_stack'[i].ctime \in 1 .. monotonic_revision'
                               /\ undo_stack'[i].old_next_id <= next_id'
    BY <1>1, <1>2, <1>4, StackFacts DEF StackOrdered
  <2>3. \A x \in table' \cup AllRemoved' : x < next_id' /\ node'[x].mtime <= monotonic_revision'
    <3>1. node'[next_id].mtime <= monotonic_revision
      BY <1>1, <1>3, UndoIndexAssumption DEF Mtime, NewMtime
    <3>2. \A x \in table \cup AllRemoved : x < next_id /\ node[x].mtime <= monotonic_revision
      BY DEF StackOrdered
    <3>3. \A x \in table \cup AllRemoved : x \in Nat
      BY DEF TypeOK, AllRemoved, Id
    <3> QED BY <1>1, <1>2, <1>3, <1>4, <1>6, <3>1, <3>2, <3>3
  <2> QED BY <2>1, <2>2, <2>3 DEF StackOrdered
<1>12. NewIsRecent'
  <2>1. ASSUME NEW i \in 1 .. Depth
        PROVE  node'[next_id].mtime >= undo_stack[i].ctime
    <3>1. undo_stack # <<>>
      BY DEF TypeOK, Depth
    <3> QED BY <1>1, <1>3, <3>1 DEF StackOrdered, Mtime, NewMtime
  <2> QED BY <1>2, <1>3, <1>4, <1>6, <2>1 DEF NewIsRecent
<1>13. CurrentAlive'
  BY <1>2, <1>3, <1>4 DEF CurrentAlive
<1> QED BY <1>7, <1>8, <1>9, <1>10, <1>11, <1>12, <1>13

(* modify pushes a backup in front of every pointer of the stack, or the   *)
(* newest session has one already or created the row.                      *)
LEMMA ModifyStep ==
  ASSUME IndInv, NEW x \in table, NEW v \in Value, Modify(x, v)
  PROVE  IndInv'
<1> USE DEF IndInv
<1> DEFINE new == DOMAIN old_values' \ DOMAIN old_values
<1>1. UNCHANGED <<table, removed_values, undo_stack, next_id, revision, monotonic_revision>>
  BY DEF Modify
<1>2. /\ x \in DOMAIN node /\ node[x] \in Node /\ x \in Id
      /\ monotonic_revision \in Mtime /\ node[x].mtime <= monotonic_revision
      /\ monotonic_revision \in Nat /\ node[x].mtime \in Nat
  BY UndoIndexAssumption DEF TypeOK, StackOrdered, Node, Mtime
<1>3. /\ DOMAIN node' = DOMAIN node
      /\ \A y \in DOMAIN node \ {x} : node'[y] = node[y]
      /\ node'[x] = [node[x] EXCEPT !.val = v, !.mtime =
                       IF BackedUp(x) THEN monotonic_revision ELSE @]
  BY <1>2 DEF Modify
<1>4. node'[x] \in Node /\ node'[x].mtime \in {node[x].mtime, monotonic_revision}
  BY <1>2, <1>3 DEF Node
<1>5. /\ DOMAIN old_values \subseteq DOMAIN old_values'
      /\ \A p \in DOMAIN old_values : old_values'[p] = old_values[p]
      /\ \A p \in new : /\ p \in Nat \ {0} /\ old_values'[p] = Backup(x)
                        /\ \A q \in DOMAIN old_values : q < p
      /\ HeightBounds(old_values')
  <2>1. CASE BackedUp(x)
    <3>1. old_values' = PushFront(old_values, Backup(x))
      BY <2>1 DEF Modify
    <3>2. DOMAIN old_values \subseteq Nat \ {0} /\ HeightBounds(old_values)
      BY DEF TypeOK
    <3> DEFINE h == Height(old_values) + 1
    <3>3. /\ h \in Nat \ {0}
          /\ DOMAIN PushFront(old_values, Backup(x)) = DOMAIN old_values \cup {h}
          /\ PushFront(old_values, Backup(x))[h] = Backup(x)
          /\ \A p \in DOMAIN old_values :
               PushFront(old_values, Backup(x))[p] = old_values[p] /\ p < h
          /\ HeightBounds(PushFront(old_values, Backup(x)))
      BY <3>2, PushFrontFacts
    <3> HIDE DEF h
    <3>4. /\ h \in Nat \ {0}
          /\ DOMAIN old_values' = DOMAIN old_values \cup {h}
          /\ old_values'[h] = Backup(x)
          /\ \A p \in DOMAIN old_values : old_values'[p] = old_values[p] /\ p < h
          /\ HeightBounds(old_values')
      BY <3>1, <3>3
    <3> QED BY <3>4
  <2>2. CASE ~BackedUp(x)
    BY <2>2 DEF Modify
  <2> QED BY <2>1, <2>2
<1>6. Backup(x) \in OldNode /\ Backup(x).id = x /\ Backup(x).mtime = node[x].mtime
  BY <1>2 DEF Backup, Node, OldNode
<1>7. Depth' = Depth /\ AllRemoved' = AllRemoved
  BY <1>1 DEF Depth, AllRemoved
<1>8. \A i \in 1 .. Depth : \A p \in OldRegion(undo_stack[i])' :
        p \in OldRegion(undo_stack[i]) \/ p \in new
  BY <1>1 DEF OldRegion
<1> HIDE DEF new
<1>9. TypeOK'
  BY <1>1, <1>3, <1>4, <1>5, <1>6 DEF TypeOK, new
<1>10. HeightBounds(old_values)' /\ HeightBounds(removed_values)'
  BY <1>1, <1>5 DEF HeightBounds, Height
<1>11. RemovedOnce'
  BY <1>1, <1>7 DEF RemovedOnce
<1>12. RemovedBefore'
  <2>1. ASSUME NEW i \in 1 .. Depth, NEW p \in DOMAIN removed_values,
               p <= undo_stack[i].removed_values_end,
               NEW q \in OldRegion(undo_stack[i])'
        PROVE  old_values'[q].id # removed_values[p]
    <3>1. CASE q \in OldRegion(undo_stack[i])
      BY <2>1, <3>1, <1>5 DEF RemovedBefore, OldRegion
    <3>2. CASE q \in new
      BY <1>5, <1>6, <3>2 DEF RemovedOnce, AllRemoved
    <3> QED BY <1>8, <3>1, <3>2
  <2> QED BY <1>1, <1>7, <2>1 DEF RemovedBefore
<1>13. NewIsRecent'
  <2>1. ASSUME NEW i \in 1 .. Depth, NEW y \in table \cup AllRemoved,
               y >= undo_stack[i].old_next_id
        PROVE  node'[y].mtime >= undo_stack[i].ctime
    <3>1. node[y].mtime >= undo_stack[i].ctime /\ undo_stack[i].ctime <= monotonic_revision
      BY <2>1 DEF NewIsRecent, StackOrdered
    <3> QED BY <1>3, <1>4, <3>1 DEF TypeOK, AllRemoved
  <2>2. ASSUME NEW i \in 1 .. Depth, NEW q \in OldRegion(undo_stack[i])',
               old_values'[q].id >= undo_stack[i].old_next_id
        PROVE  old_values'[q].mtime >= undo_stack[i].ctime
    <3>1. CASE q \in OldRegion(undo_stack[i])
      BY <2>2, <3>1, <1>5 DEF NewIsRecent, OldRegion
    <3>2. CASE q \in new
      BY <1>5, <1>6, <2>2, <3>2 DEF NewIsRecent
    <3> QED BY <1>8, <3>1, <3>2
  <2> QED BY <1>1, <1>7, <2>1, <2>2 DEF NewIsRecent
<1>14. BackupsPast'
  BY <1>1, <1>2, <1>5, <1>6 DEF BackupsPast, new
<1>15. EndsPresent' /\ RangeExists'
  BY <1>1, <1>5, <1>7 DEF EndsPresent, RangeExists
<1>16. StackOrdered'
  <2>1. ASSUME NEW y \in table \cup AllRemoved
        PROVE  node'[y].mtime <= monotonic_revision
    <3>1. y \in DOMAIN node /\ node[y].mtime <= monotonic_revision
      BY DEF StackOrdered, TypeOK, AllRemoved
    <3>2. CASE y = x
      BY <1>2, <1>4, <3>2
    <3>3. CASE y # x
      BY <1>3, <3>1, <3>3
    <3> QED BY <3>2, <3>3
  <2> QED BY <1>1, <1>7, <2>1 DEF StackOrdered
<1>17. CurrentAlive'
  <2>1. ASSUME NEW i \in 1 .. Depth, NEW p \in OldRegion(undo_stack[i])',
               old_values'[p].mtime < undo_stack[i].ctime
        PROVE  old_values'[p].id \in DOMAIN node
    <3>1. CASE p \in OldRegion(undo_stack[i])
      BY <2>1, <3>1, <1>5 DEF CurrentAlive, OldRegion
    <3>2. CASE p \in new
      BY <1>2, <1>5, <1>6, <3>2
    <3> QED BY <1>8, <3>1, <3>2
  <2> QED BY <1>1, <1>3, <1>7, <2>1 DEF CurrentAlive
<1> QED BY <1>9, <1>10, <1>11, <1>12, <1>13, <1>14, <1>15, <1>16, <1>17

(* A refused modification that is reverted only stamps the row. *)
LEMMA ModifyRevertedStep ==
  ASSUME IndInv, NEW x \in table, NEW v \in Value, ModifyReverted(x, v)
  PROVE  IndInv'
<1> USE DEF IndInv
<1>1. UNCHANGED <<table, old_values, removed_values, undo_stack, next_id, revision, monotonic_revision>>
  BY DEF ModifyReverted, lists
<1>2. /\ x \in DOMAIN node /\ node[x] \in Node
      /\ monotonic_revision \in Mtime /\ monotonic_revision \in Nat
  BY UndoIndexAssumption DEF TypeOK, Mtime
<1>3. /\ DOMAIN node' = DOMAIN node
      /\ \A y \in DOMAIN node \ {x} : node'[y] = node[y]
      /\ node'[x] \in Node /\ node'[x].mtime = monotonic_revision
  BY <1>2 DEF ModifyReverted, Node
<1>4. /\ Depth' = Depth /\ AllRemoved' = AllRemoved
      /\ \A i \in 1 .. Depth : OldRegion(undo_stack[i])' = OldRegion(undo_stack[i])
  BY <1>1 DEF Depth, AllRemoved, OldRegion
<1>5. TypeOK'
  BY <1>1, <1>3 DEF TypeOK
<1>6. HeightBounds(old_values)' /\ HeightBounds(removed_values)'
  BY <1>1 DEF HeightBounds, Height
<1>7. RemovedOnce' /\ RemovedBefore' /\ BackupsPast' /\ EndsPresent' /\ RangeExists'
  BY <1>1, <1>4 DEF RemovedOnce, RemovedBefore, BackupsPast, EndsPresent, RangeExists
<1>8. NewIsRecent'
  <2>1. ASSUME NEW i \in 1 .. Depth, NEW y \in table \cup AllRemoved,
               y >= undo_stack[i].old_next_id
        PROVE  node'[y].mtime >= undo_stack[i].ctime
    <3>1. node[y].mtime >= undo_stack[i].ctime /\ undo_stack[i].ctime <= monotonic_revision
      BY <2>1 DEF NewIsRecent, StackOrdered
    <3> QED BY <1>2, <1>3, <3>1 DEF TypeOK, AllRemoved, StackOrdered
  <2> QED BY <1>1, <1>4, <2>1 DEF NewIsRecent
<1>9. StackOrdered'
  <2>1. ASSUME NEW y \in table \cup AllRemoved
        PROVE  node'[y].mtime <= monotonic_revision
    BY <1>2, <1>3 DEF StackOrdered, TypeOK, AllRemoved
  <2> QED BY <1>1, <1>4, <2>1 DEF StackOrdered
<1>10. CurrentAlive'
  BY <1>1, <1>3, <1>4 DEF CurrentAlive
<1> QED BY <1>5, <1>6, <1>7, <1>8, <1>9, <1>10

(* erase_impl and on_remove: a node that no open session needs is          *)
(* destroyed, any other one goes to the front of removed_values.           *)
LEMMA RemoveNodeStep ==
  ASSUME IndInv, NEW x \in table,
         NEW n \in Node, n.mtime = node[x].mtime, RemoveNode(x, n)
  PROVE  IndInv'
<1> USE DEF IndInv
<1> DEFINE new == DOMAIN removed_values' \ DOMAIN removed_values
<1>1. /\ UNCHANGED <<old_values, undo_stack, next_id, revision, monotonic_revision>>
      /\ table' = table \ {x}
  BY DEF RemoveNode
<1>2. Depth' = Depth /\ Depth \in Nat /\ x \in DOMAIN node /\ x \in Id
  BY <1>1, StackFacts DEF Depth, TypeOK
<1>3. \A i \in 1 .. Depth : /\ OldRegion(undo_stack[i])' = OldRegion(undo_stack[i])
                            /\ undo_stack'[i] = undo_stack[i]
  BY <1>1 DEF OldRegion
<1>4. /\ DOMAIN removed_values \subseteq DOMAIN removed_values'
      /\ \A p \in DOMAIN removed_values : removed_values'[p] = removed_values[p]
      /\ \A p \in new : /\ p \in Nat \ {0} /\ removed_values'[p] = x
                        /\ \A q \in DOMAIN removed_values : q < p
                        /\ \A q \in new : q = p
      /\ HeightBounds(removed_values')
  <2>1. CASE ~IsNew(x)
    <3>1. removed_values' = PushFront(removed_values, x)
      BY <2>1 DEF RemoveNode
    <3>2. DOMAIN removed_values \subseteq Nat \ {0} /\ HeightBounds(removed_values)
      BY DEF TypeOK
    <3> DEFINE h == Height(removed_values) + 1
    <3>3. /\ h \in Nat \ {0}
          /\ DOMAIN PushFront(removed_values, x) = DOMAIN removed_values \cup {h}
          /\ PushFront(removed_values, x)[h] = x
          /\ \A p \in DOMAIN removed_values :
               PushFront(removed_values, x)[p] = removed_values[p] /\ p < h
          /\ HeightBounds(PushFront(removed_values, x))
      BY <3>2, PushFrontFacts
    <3> HIDE DEF h
    <3> QED BY <3>1, <3>3
  <2>2. CASE IsNew(x)
    BY <2>2 DEF RemoveNode
  <2> QED BY <2>1, <2>2
<1>5. /\ new # {} => DOMAIN node' = DOMAIN node
      /\ DOMAIN node' \subseteq DOMAIN node /\ DOMAIN node \ DOMAIN node' \subseteq {x}
      /\ \A y \in DOMAIN node' : node'[y] \in Node /\ node'[y].mtime = node[y].mtime
      /\ \A i \in 1 .. Depth : x \notin DOMAIN node' => x >= undo_stack[i].old_next_id
  <2>1. CASE ~IsNew(x)
    <3>1. node' = [node EXCEPT ![x] = [n EXCEPT !.erased = TRUE]]
      BY <2>1 DEF RemoveNode
    <3>2. [n EXCEPT !.erased = TRUE] \in Node /\ [n EXCEPT !.erased = TRUE].mtime = n.mtime
      BY DEF Node
    <3> QED BY <1>2, <3>1, <3>2 DEF TypeOK
  <2>2. CASE IsNew(x)
    <3>1. node' = Drop(node, {x}) /\ new = {}
      BY <2>2 DEF RemoveNode
    <3>2. undo_stack # <<>> => x >= undo_stack[Depth].old_next_id
      BY <2>2 DEF IsNew, Top
    <3>3. ASSUME NEW i \in 1 .. Depth PROVE x >= undo_stack[i].old_next_id
      <4>1. undo_stack # <<>> /\ Depth \in 1 .. Depth
        BY <1>2 DEF TypeOK, Depth
      <4>2. undo_stack[i].old_next_id <= undo_stack[Depth].old_next_id
        BY <1>2, <4>1, StackFacts DEF StackOrdered
      <4> QED BY <1>2, <3>2, <4>1, <4>2, StackFacts DEF Id
    <3> QED BY <3>1, <3>3 DEF Drop, TypeOK
  <2> QED BY <2>1, <2>2
<1>6. /\ AllRemoved \subseteq AllRemoved'
      /\ \A y \in AllRemoved' : y \in AllRemoved \/ (y = x /\ new # {})
      /\ x \notin AllRemoved
  BY <1>4 DEF AllRemoved, RemovedOnce
<1>7. \A y \in table' \cup AllRemoved' :
        y \in table \cup AllRemoved /\ y \in DOMAIN node' /\ node'[y].mtime = node[y].mtime
  <2>1. \A y \in table' \cup AllRemoved' : y = x => new # {}
    BY <1>1, <1>6
  <2>2. \A y \in table \cup AllRemoved : y \in DOMAIN node
    BY DEF TypeOK, AllRemoved
  <2> QED BY <1>1, <1>5, <1>6, <2>1, <2>2
<1>8. \A p \in new, i \in 1 .. Depth : ~(p <= undo_stack[i].removed_values_end)
  <2>1. \A i \in 1 .. Depth : undo_stack[i].removed_values_end \in DOMAIN removed_values \cup {0}
    BY DEF EndsPresent
  <2> QED BY <1>4, <2>1, StackFacts DEF TypeOK
<1> HIDE DEF new
<1>9. TypeOK'
  <2>1. \A p \in DOMAIN removed_values' : removed_values'[p] \in DOMAIN node'
    BY <1>7 DEF AllRemoved
  <2>2. table' \subseteq DOMAIN node'
    BY <1>7
  <2>3. DOMAIN removed_values' \subseteq Nat \ {0}
    BY <1>4 DEF TypeOK, new
  <2> QED BY <1>1, <1>5, <2>1, <2>2, <2>3 DEF TypeOK
<1>10. HeightBounds(old_values)' /\ HeightBounds(removed_values)'
  BY <1>1, <1>4 DEF HeightBounds, Height
<1>11. RemovedOnce'
  <2>1. table' \cap AllRemoved' = {}
    BY <1>1, <1>6 DEF RemovedOnce
  <2>2. ASSUME NEW p \in DOMAIN removed_values', NEW q \in DOMAIN removed_values',
               removed_values'[p] = removed_values'[q]
        PROVE  p = q
    <3>1. CASE p \in new /\ q \in new
      BY <1>4, <3>1
    <3>2. CASE p \in DOMAIN removed_values /\ q \in DOMAIN removed_values
      BY <1>4, <2>2, <3>2 DEF RemovedOnce
    <3>3. CASE p \in new /\ q \in DOMAIN removed_values
      BY <1>4, <1>6, <2>2, <3>3 DEF AllRemoved
    <3>4. CASE p \in DOMAIN removed_values /\ q \in new
      BY <1>4, <1>6, <2>2, <3>4 DEF AllRemoved
    <3> QED BY <3>1, <3>2, <3>3, <3>4 DEF new
  <2> QED BY <2>1, <2>2 DEF RemovedOnce
<1>12. RemovedBefore'
  <2>1. ASSUME NEW i \in 1 .. Depth, NEW p \in DOMAIN removed_values',
               p <= undo_stack[i].removed_values_end
        PROVE  p \in DOMAIN removed_values /\ removed_values'[p] = removed_values[p]
    BY <1>4, <1>8, <2>1 DEF new
  <2> QED BY <1>1, <1>2, <1>3, <2>1 DEF RemovedBefore
<1>13. NewIsRecent'
  BY <1>1, <1>2, <1>3, <1>7 DEF NewIsRecent
<1>14. BackupsPast' /\ RangeExists'
  BY <1>1, <1>2 DEF BackupsPast, RangeExists
<1>15. EndsPresent'
  BY <1>1, <1>2, <1>4 DEF EndsPresent
<1>16. StackOrdered'
  BY <1>1, <1>2, <1>7 DEF StackOrdered
<1>17. CurrentAlive'
  <2>1. ASSUME NEW i \in 1 .. Depth, NEW p \in OldRegion(undo_stack[i]),
               old_values[p].mtime < undo_stack[i].ctime
        PROVE  old_values[p].id \in DOMAIN node'
    <3>1. old_values[p].id \in DOMAIN node
      BY <2>1 DEF CurrentAlive
    <3>2. ~(old_values[p].id >= undo_stack[i].old_next_id)
      <4>1. p \in DOMAIN old_values /\ old_values[p].mtime \in Nat
        BY UndoIndexAssumption DEF OldRegion, TypeOK, OldNode, Mtime
      <4> QED BY <2>1, <4>1, StackFacts DEF NewIsRecent
    <3> QED BY <1>5, <3>1, <3>2
  <2> QED BY <1>1, <1>2, <1>3, <2>1 DEF CurrentAlive
<1> QED BY <1>9, <1>10, <1>11, <1>12, <1>13, <1>14, <1>15, <1>16, <1>17

----------------------------------------------------------------------------
(* Sessions *)

(* add_session: the new pointers are at the front of the lists, and its    *)
(* ctime is above every _mtime.                                            *)
LEMMA StartSessionStep ==
  ASSUME IndInv, StartSession
  PROVE  IndInv'
<1> USE DEF IndInv
<1>1. /\ UNCHANGED <<node, table, old_values, removed_values, next_id>>
      /\ monotonic_revision' = monotonic_revision + 1 /\ monotonic_revision' \in Mtime
      /\ monotonic_revision \in Nat
      /\ revision' = revision + 1 /\ revision' \in 0 .. MaxRevision /\ revision \in Nat
      /\ next_id \in Nat
  BY UndoIndexAssumption DEF StartSession, TypeOK, lists, Mtime
<1> DEFINE s == NewState
<1>0. PICK n : n = Depth + 1
  OBVIOUS
<1>2. /\ Height(old_values) \in Nat /\ Height(removed_values) \in Nat
      /\ Height(old_values) \in DOMAIN old_values \cup {0}
      /\ Height(removed_values) \in DOMAIN removed_values \cup {0}
      /\ \A p \in DOMAIN old_values : p <= Height(old_values)
      /\ \A p \in DOMAIN removed_values : p <= Height(removed_values)
  <2>1. HeightBounds(old_values) /\ HeightBounds(removed_values)
    OBVIOUS
  <2>2. DOMAIN old_values \subseteq Nat /\ DOMAIN removed_values \subseteq Nat
    BY DEF TypeOK
  <2> QED BY <2>1, <2>2, HeightFacts DEF HeightBounds
<1>3. /\ s \in UndoState /\ s.ctime = monotonic_revision + 1 /\ s.old_next_id = next_id
      /\ s.old_values_end = Height(old_values)
      /\ s.removed_values_end = Height(removed_values)
  BY <1>1, <1>2 DEF NewState, StateAt, UndoState, TypeOK
<1> HIDE DEF s
<1>4. /\ undo_stack' \in Seq(UndoState) /\ Depth' = n /\ Depth \in Nat /\ n \in Nat
      /\ \A i \in 1 .. Depth : undo_stack'[i] = undo_stack[i]
      /\ undo_stack'[n] = s
  BY <1>0, <1>3, AppendProperties, StackFacts DEF StartSession, TypeOK, Depth, s
<1>5. \A i \in 1 .. Depth' : i = n \/ (i \in 1 .. Depth /\ i < n)
  BY <1>0, <1>4
<1>6. AllRemoved' = AllRemoved
  BY <1>1 DEF AllRemoved
<1>7. /\ \A i \in 1 .. Depth : OldRegion(undo_stack[i])' = OldRegion(undo_stack[i])
      /\ \A p : p \notin OldRegion(undo_stack[n])'
  <2>1. \A p \in DOMAIN old_values : ~(p > s.old_values_end)
    BY <1>2, <1>3 DEF TypeOK
  <2> QED BY <1>1, <1>4, <2>1 DEF OldRegion
<1>8. \A i \in 1 .. Depth : /\ undo_stack[i].old_values_end <= s.old_values_end
                            /\ undo_stack[i].removed_values_end <= s.removed_values_end
  BY <1>2, <1>3 DEF EndsPresent
<1>9. \A y \in table \cup AllRemoved : y < next_id /\ node[y].mtime \in Nat
                                       /\ node[y].mtime <= monotonic_revision /\ y \in Nat
  BY UndoIndexAssumption DEF StackOrdered, TypeOK, AllRemoved, Node, Mtime, Id
<1>10. TypeOK'
  BY <1>1, <1>4 DEF TypeOK
<1>11. HeightBounds(old_values)' /\ HeightBounds(removed_values)'
  BY <1>1 DEF HeightBounds, Height
<1>12. RemovedOnce'
  BY <1>1, <1>6 DEF RemovedOnce
<1>13. RemovedBefore'
  <2>1. \A p \in DOMAIN removed_values : removed_values[p] < next_id
    BY <1>9 DEF AllRemoved
  <2>2. ASSUME NEW i \in 1 .. Depth', NEW p \in DOMAIN removed_values,
               p <= undo_stack'[i].removed_values_end
        PROVE  /\ removed_values[p] < undo_stack'[i].old_next_id
               /\ \A q \in OldRegion(undo_stack[i])' : old_values[q].id # removed_values[p]
    <3>1. CASE i = n
      BY <1>3, <1>4, <1>7, <2>1, <3>1
    <3>2. CASE i \in 1 .. Depth
      BY <1>4, <1>7, <2>2, <3>2 DEF RemovedBefore
    <3> QED BY <1>5, <3>1, <3>2
  <2> QED BY <1>1, <2>2 DEF RemovedBefore
<1>14. NewIsRecent'
  <2>1. ASSUME NEW i \in 1 .. Depth
        PROVE  /\ \A y \in table \cup AllRemoved :
                    y >= undo_stack'[i].old_next_id => node[y].mtime >= undo_stack'[i].ctime
               /\ \A q \in OldRegion(undo_stack[i])' :
                    old_values[q].id >= undo_stack'[i].old_next_id =>
                      old_values[q].mtime >= undo_stack'[i].ctime
    BY <1>4, <1>7 DEF NewIsRecent
  <2>2. \A y \in table \cup AllRemoved : ~(y >= undo_stack'[n].old_next_id)
    BY <1>1, <1>3, <1>4, <1>9
  <2> QED BY <1>1, <1>4, <1>5, <1>6, <1>7, <2>1, <2>2 DEF NewIsRecent
<1>15. BackupsPast'
  BY <1>1, UndoIndexAssumption DEF BackupsPast, TypeOK, OldNode, Mtime
<1>16. EndsPresent'
  <2>1. ASSUME NEW i \in 1 .. Depth'
        PROVE  /\ undo_stack'[i].old_values_end \in DOMAIN old_values \cup {0}
               /\ undo_stack'[i].removed_values_end \in DOMAIN removed_values \cup {0}
    BY <1>2, <1>3, <1>4, <1>5 DEF EndsPresent
  <2>2. ASSUME NEW i \in 1 .. Depth', NEW j \in 1 .. i
        PROVE  /\ undo_stack'[j].old_values_end <= undo_stack'[i].old_values_end
               /\ undo_stack'[j].removed_values_end <= undo_stack'[i].removed_values_end
    <3>1. CASE i \in 1 .. Depth
      <4>1. j \in 1 .. Depth
        BY <1>4, <3>1
      <4> QED BY <1>4, <3>1, <4>1 DEF EndsPresent
    <3>2. CASE i = n /\ j = n
      BY <1>2, <1>3, <1>4, <3>2
    <3>3. CASE i = n /\ j # n
      <4>1. j \in 1 .. Depth
        BY <1>0, <1>4, <3>3
      <4> QED BY <1>4, <1>8, <3>3, <4>1
    <3> QED BY <1>5, <3>1, <3>2, <3>3
  <2> QED BY <1>1, <2>1, <2>2 DEF EndsPresent
<1>17. StackOrdered'
  <2>1. ASSUME NEW i \in 1 .. Depth', NEW j \in 1 .. Depth', i < j
        PROVE  /\ undo_stack'[i].ctime < undo_stack'[j].ctime
               /\ undo_stack'[i].old_next_id <= undo_stack'[j].old_next_id
    <3>1. i \in 1 .. Depth /\ undo_stack'[i] = undo_stack[i]
      BY <1>0, <1>4, <2>1
    <3>2. CASE j = n
      BY <1>1, <1>3, <1>4, <3>1, <3>2 DEF StackOrdered
    <3>3. CASE j \in 1 .. Depth
      BY <1>4, <2>1, <3>1, <3>3 DEF StackOrdered
    <3> QED BY <1>5, <3>2, <3>3
  <2>2. ASSUME NEW i \in 1 .. Depth'
        PROVE  /\ undo_stack'[i].ctime \in 1 .. monotonic_revision'
               /\ undo_stack'[i].old_next_id <= next_id
    <3>1. CASE i \in 1 .. Depth
      BY <1>1, <1>4, <3>1 DEF StackOrdered
    <3>2. CASE i = n
      BY <1>1, <1>3, <1>4, <3>2
    <3> QED BY <1>5, <3>1, <3>2
  <2> QED BY <1>1, <1>6, <1>9, <2>1, <2>2 DEF StackOrdered
<1>18. RangeExists'
  BY <1>0, <1>1, <1>4 DEF RangeExists
<1>19. CurrentAlive'
  BY <1>1, <1>4, <1>5, <1>7 DEF CurrentAlive
<1> QED BY <1>10, <1>11, <1>12, <1>13, <1>14, <1>15, <1>16, <1>17, <1>18, <1>19

(* set_revision needs an empty stack, so it cannot shift the range. *)
LEMMA SetRevisionStep ==
  ASSUME IndInv, NEW r \in 0 .. MaxRevision, SetRevision(r)
  PROVE  IndInv'
<1> USE DEF IndInv
<1>1. /\ UNCHANGED <<node, table, old_values, removed_values, undo_stack, next_id, monotonic_revision>>
      /\ revision' = r /\ undo_stack = <<>>
  BY DEF SetRevision, lists
<1>2. /\ Depth = 0 /\ Depth' = 0 /\ AllRemoved' = AllRemoved
  BY <1>1, EmptySeq DEF Depth, AllRemoved
<1>3. TypeOK'
  BY <1>1 DEF TypeOK
<1>4. HeightBounds(old_values)' /\ HeightBounds(removed_values)'
  BY <1>1 DEF HeightBounds, Height
<1>5. RemovedOnce' /\ BackupsPast'
  BY <1>1, <1>2 DEF RemovedOnce, BackupsPast
<1>6. RemovedBefore' /\ NewIsRecent' /\ EndsPresent' /\ CurrentAlive'
  BY <1>2 DEF RemovedBefore, NewIsRecent, EndsPresent, CurrentAlive
<1>7. RangeExists'
  BY <1>1, <1>2 DEF RangeExists
<1>8. StackOrdered'
  BY <1>1, <1>2 DEF StackOrdered
<1> QED BY <1>3, <1>4, <1>5, <1>6, <1>7, <1>8

(* What pop_back leaves of the stack. *)
LEMMA PopFacts ==
  ASSUME IndInv, undo_stack # <<>>
  PROVE  /\ Depth \in Nat /\ Depth >= 1
         /\ PopStack \in Seq(UndoState)
         /\ Len(PopStack) = Depth - 1
         /\ \A i \in 1 .. Depth - 1 : PopStack[i] = undo_stack[i]
         /\ revision \in Nat /\ revision - 1 \in 0 .. MaxRevision
         /\ Depth - 1 <= revision - 1
<1>1. Depth \in Nat /\ Depth >= 1 /\ undo_stack \in Seq(UndoState)
  BY StackFacts DEF IndInv, TypeOK
<1>2. \A i \in 1 .. Depth - 1 : undo_stack[i] \in UndoState
  BY <1>1, StackFacts DEF IndInv
<1>3. /\ PopStack \in Seq(UndoState)
      /\ Len(PopStack) = Depth - 1
      /\ \A i \in 1 .. Depth - 1 : PopStack[i] = undo_stack[i]
  BY <1>1, <1>2, SubSeqProperties DEF PopStack
<1>4. revision \in 0 .. MaxRevision /\ Depth <= revision
  BY DEF IndInv, TypeOK, RangeExists
<1> QED BY <1>1, <1>3, <1>4, UndoIndexAssumption

(* dispose_undo: without sessions, nothing is kept for one. *)
LEMMA DisposeAllStep ==
  ASSUME IndInv, Dispose({}, {}), undo_stack' = <<>>,
         UNCHANGED <<table, next_id, monotonic_revision>>,
         revision' \in 0 .. MaxRevision
  PROVE  IndInv'
<1> USE DEF IndInv
<1>1. /\ DOMAIN old_values' = {} /\ DOMAIN removed_values' = {}
      /\ DOMAIN node' = DOMAIN node \ AllRemoved
      /\ \A x \in DOMAIN node' : node'[x] = node[x]
  BY DEF Dispose, Keep, Drop, AllRemoved
<1>2. /\ Depth' = 0 /\ undo_stack' \in Seq(UndoState) /\ Depth \in Nat
      /\ AllRemoved' = {}
  BY <1>1, EmptySeq, StackFacts DEF Depth, AllRemoved
<1>3. table \subseteq DOMAIN node'
  BY <1>1 DEF TypeOK, RemovedOnce
<1>4. TypeOK'
  BY <1>1, <1>2, <1>3 DEF TypeOK
<1>5. \A x \in table' : x < next_id' /\ node'[x].mtime <= monotonic_revision
  BY <1>1, <1>3 DEF StackOrdered
<1>6. 0 <= revision'
  OBVIOUS
<1>7. HeightBounds(old_values)' /\ HeightBounds(removed_values)'
  BY <1>1, HeightFacts
<1>8. RemovedOnce' /\ BackupsPast' /\ RangeExists'
  BY <1>1, <1>2, <1>6 DEF RemovedOnce, BackupsPast, RangeExists
<1>9. RemovedBefore' /\ NewIsRecent' /\ EndsPresent' /\ CurrentAlive'
  BY <1>2 DEF RemovedBefore, NewIsRecent, EndsPresent, CurrentAlive
<1>10. StackOrdered'
  BY <1>2, <1>5 DEF StackOrdered
<1> QED BY <1>4, <1>7, <1>8, <1>9, <1>10

(* squash_fast keeps every list, unless no session is left. *)
LEMMA SquashFastStep ==
  ASSUME IndInv, SquashFast
  PROVE  IndInv'
<1> USE DEF IndInv
<1>1. /\ undo_stack # <<>> /\ undo_stack' = PopStack /\ revision' = revision - 1
      /\ UNCHANGED <<table, next_id, monotonic_revision>>
  BY DEF SquashFast, DropTop
<1>2. /\ Depth \in Nat /\ Depth >= 1 /\ Depth' = Depth - 1 /\ undo_stack' \in Seq(UndoState)
      /\ \A i \in 1 .. Depth' : undo_stack'[i] = undo_stack[i]
      /\ revision' \in 0 .. MaxRevision /\ Depth' <= revision'
  BY <1>1, PopFacts DEF Depth
<1>3. CASE Depth = 1
  <2>1. Dispose({}, {}) /\ undo_stack' = <<>>
    BY <1>2, <1>3, EmptySeq DEF SquashFast, Depth
  <2> QED BY <1>1, <1>2, <2>1, DisposeAllStep
<1>4. CASE Depth # 1
  <2>1. UNCHANGED <<node, old_values, removed_values>>
    BY <1>4 DEF SquashFast, lists
  <2>2. /\ AllRemoved' = AllRemoved
        /\ \A i \in 1 .. Depth' : OldRegion(undo_stack[i])' = OldRegion(undo_stack[i])
    BY <1>2, <2>1 DEF AllRemoved, OldRegion
  <2>3. TypeOK'
    BY <1>1, <1>2, <2>1 DEF TypeOK
  <2>4. \A i \in 1 .. Depth' : i \in 1 .. Depth
    BY <1>2
  <2>5. \A i \in 1 .. Depth' :
          /\ undo_stack'[i].old_values_end \in DOMAIN old_values' \cup {0}
          /\ undo_stack'[i].removed_values_end \in DOMAIN removed_values' \cup {0}
          /\ undo_stack'[i].old_next_id <= next_id'
          /\ \A p \in OldRegion(undo_stack[i])' :
               old_values[p].mtime < undo_stack'[i].ctime =>
                 old_values[p].id \in DOMAIN node'
    BY <1>1, <1>2, <2>1, <2>2, <2>4 DEF EndsPresent, StackOrdered, CurrentAlive
  <2>6. table' \cap AllRemoved' = {}
    BY <1>1, <2>2 DEF RemovedOnce
  <2>7. \A x \in table' \cup AllRemoved' :
          /\ x \in table \cup AllRemoved
          /\ x < next_id'
          /\ node'[x].mtime <= monotonic_revision
          /\ \A i \in 1 .. Depth' : x >= undo_stack'[i].old_next_id =>
                                      node'[x].mtime >= undo_stack'[i].ctime
    BY <1>1, <1>2, <2>1, <2>2, <2>4 DEF StackOrdered, NewIsRecent
  <2> QED
    <3>1. 0 \in Nat /\ Depth' + 0 <= Depth
          /\ \A i \in 1 .. Depth' : undo_stack'[i] = undo_stack[0 + i]
      BY <1>2
    <3>2. /\ DOMAIN old_values' \subseteq DOMAIN old_values
          /\ \A p \in DOMAIN old_values' : old_values'[p] = old_values[p]
          /\ DOMAIN removed_values' \subseteq DOMAIN removed_values
          /\ \A p \in DOMAIN removed_values' : removed_values'[p] = removed_values[p]
      BY <2>1
    <3> QED BY <1>1, <1>2, <2>3, <2>5, <2>6, <2>7, <3>1, <3>2, ShrinkStep
<1> QED BY <1>3, <1>4

(* The newest region of old_values is in front of every pointer. *)
LEMMA TopRegion ==
  ASSUME IndInv, undo_stack # <<>>
  PROVE  /\ Top \in UndoState /\ Depth \in 1 .. Depth
         /\ Top.old_values_end \in Nat /\ Top.removed_values_end \in Nat
         /\ \A i \in 1 .. Depth :
              /\ OldRegion(Top) \subseteq OldRegion(undo_stack[i])
              /\ undo_stack[i].old_values_end <= Top.old_values_end
              /\ undo_stack[i].removed_values_end <= Top.removed_values_end
              /\ undo_stack[i].old_next_id <= Top.old_next_id
<1> USE DEF IndInv
<1>1. /\ Depth \in Nat /\ Depth \in 1 .. Depth
      /\ \A i \in 1 .. Depth : undo_stack[i] \in UndoState
      /\ \A s \in UndoState : /\ s.old_values_end \in Nat
                              /\ s.removed_values_end \in Nat
                              /\ s.old_next_id \in Nat
  BY StackFacts, UndoIndexAssumption DEF UndoState
<1>2. ASSUME NEW i \in 1 .. Depth
      PROVE  /\ undo_stack[i].old_values_end <= Top.old_values_end
             /\ undo_stack[i].removed_values_end <= Top.removed_values_end
             /\ undo_stack[i].old_next_id <= Top.old_next_id
  BY <1>1 DEF EndsPresent, StackOrdered, Top
<1>3. ASSUME NEW i \in 1 .. Depth
      PROVE  OldRegion(Top) \subseteq OldRegion(undo_stack[i])
  BY <1>1, <1>2 DEF OldRegion, TypeOK, Top
<1> QED BY <1>1, <1>2, <1>3 DEF Top

(* Backups from the newest region, written back to their node, bring no    *)
(* _mtime that is from the future, or from before the row was created.     *)
LEMMA RestoredRecent ==
  ASSUME IndInv, undo_stack # <<>>, NEW x \in table \cup AllRemoved,
         NEW ps, ps \subseteq OldRegion(Top), \A p \in ps : old_values[p].id = x
  PROVE  /\ RestoredFrom(x, ps) \in Node
         /\ RestoredFrom(x, ps).mtime <= monotonic_revision
         /\ \A i \in 1 .. Depth :
              x >= undo_stack[i].old_next_id =>
                RestoredFrom(x, ps).mtime >= undo_stack[i].ctime
<1> USE DEF IndInv
<1>1. x \in DOMAIN node /\ ps \subseteq DOMAIN old_values
  BY DEF TypeOK, AllRemoved, OldRegion
<1>2. /\ RestoredFrom(x, ps) \in Node
      /\ \/ RestoredFrom(x, ps).mtime = node[x].mtime
         \/ \E p \in ps : RestoredFrom(x, ps).mtime = old_values[p].mtime
  BY <1>1, RestoredFacts
<1>3. CASE RestoredFrom(x, ps).mtime = node[x].mtime
  BY <1>2, <1>3 DEF StackOrdered, NewIsRecent
<1>4. ASSUME NEW p \in ps, RestoredFrom(x, ps).mtime = old_values[p].mtime
      PROVE  /\ old_values[p].mtime <= monotonic_revision
             /\ \A i \in 1 .. Depth : x >= undo_stack[i].old_next_id =>
                                        old_values[p].mtime >= undo_stack[i].ctime
  <2>1. p \in DOMAIN old_values /\ old_values[p].id = x
    BY <1>1
  <2>2. \A i \in 1 .. Depth : p \in OldRegion(undo_stack[i])
    BY TopRegion
  <2> QED BY <2>1, <2>2 DEF BackupsPast, NewIsRecent
<1> QED BY <1>2, <1>3, <1>4

(* compress_impl on the sessions above d, of which d becomes the newest.   *)
LEMMA CompressStep ==
  ASSUME IndInv, undo_stack # <<>>,
         NEW d \in 1 .. Depth, Compress(undo_stack[d]),
         undo_stack' \in Seq(UndoState), Len(undo_stack') = d,
         \A i \in 1 .. d : undo_stack'[i] = undo_stack[i],
         UNCHANGED <<table, next_id, monotonic_revision>>,
         revision' \in 0 .. MaxRevision, d <= revision'
  PROVE  IndInv'
<1> USE DEF IndInv
<1> DEFINE s == undo_stack[d]
           gone == {p \in RemovedRegion(Top) : removed_values[p] >= s.old_next_id}
           folded == Superfluous(s) \cup FoldedBackups(s)
<1>1. /\ Depth' = d /\ d \in Nat /\ Depth \in Nat /\ d <= Depth
      /\ \A i \in 1 .. d : i \in 1 .. Depth /\ undo_stack[i] \in UndoState
  BY StackFacts DEF Depth
<1>2. folded \subseteq OldRegion(Top)
  BY DEF Superfluous, FoldedBackups
<1>3. gone \subseteq RemovedRegion(Top) /\ \A p \in gone : removed_values[p] >= s.old_next_id
  OBVIOUS
<1>4. /\ DOMAIN node' = DOMAIN node \ {removed_values[p] : p \in gone}
      /\ \A x \in DOMAIN node' : node'[x] = FoldedInto(x, s)
      /\ DOMAIN old_values' = DOMAIN old_values \ folded
      /\ \A p \in DOMAIN old_values' : old_values'[p] = old_values[p]
      /\ DOMAIN removed_values' = DOMAIN removed_values \ gone
      /\ \A p \in DOMAIN removed_values' : removed_values'[p] = removed_values[p]
  BY DEF Compress, Drop
<1>5. ASSUME NEW x \in DOMAIN node'
      PROVE  \E ps : /\ ps \subseteq OldRegion(Top) /\ \A p \in ps : old_values[p].id = x
                     /\ node'[x] = RestoredFrom(x, ps)
  <2> DEFINE ps == {p \in FoldedBackups(s) : old_values[p].id = x}
  <2>1. ps \subseteq OldRegion(Top) /\ \A p \in ps : old_values[p].id = x
    BY DEF FoldedBackups
  <2>2. node'[x] = RestoredFrom(x, ps)
    BY <1>4 DEF FoldedInto
  <2> HIDE DEF ps
  <2> QED BY <2>1, <2>2
<1> HIDE DEF folded, gone
<1>6. AllRemoved' \subseteq AllRemoved /\ table' \cap AllRemoved' = {}
  BY <1>4 DEF AllRemoved, RemovedOnce
<1>7. \A x \in table' \cup AllRemoved' : x \in DOMAIN node'
  <2>1. \A x \in table : x \in DOMAIN node'
    BY <1>3, <1>4 DEF TypeOK, RemovedOnce, AllRemoved, RemovedRegion
  <2>2. ASSUME NEW p \in DOMAIN removed_values'
        PROVE  removed_values'[p] \in DOMAIN node'
    <3>1. \A q \in gone : removed_values[q] # removed_values[p]
      BY <1>3, <1>4 DEF RemovedOnce, RemovedRegion
    <3> QED BY <1>4, <3>1 DEF TypeOK
  <2> QED BY <2>1, <2>2 DEF AllRemoved
<1>8. \A x \in DOMAIN node' : node'[x] \in Node
  <2>1. ASSUME NEW x \in DOMAIN node' PROVE node'[x] \in Node
    <3>1. PICK ps : ps \subseteq OldRegion(Top) /\ node'[x] = RestoredFrom(x, ps)
      BY <1>4, <1>5
    <3>2. x \in DOMAIN node /\ ps \subseteq DOMAIN old_values
      BY <1>4, <3>1 DEF OldRegion
    <3> QED BY <3>1, <3>2, RestoredFacts
  <2> QED BY <2>1
<1>9. TypeOK'
  BY <1>4, <1>7, <1>8 DEF TypeOK, AllRemoved
<1>10. \A x \in table' \cup AllRemoved' :
         /\ x \in table \cup AllRemoved
         /\ x < next_id'
         /\ node'[x].mtime <= monotonic_revision
         /\ \A i \in 1 .. d : x >= undo_stack'[i].old_next_id =>
                                node'[x].mtime >= undo_stack'[i].ctime
  <2>1. ASSUME NEW x \in table' \cup AllRemoved'
        PROVE  /\ x \in table \cup AllRemoved
               /\ node'[x].mtime <= monotonic_revision
               /\ \A i \in 1 .. d : x >= undo_stack'[i].old_next_id =>
                                      node'[x].mtime >= undo_stack'[i].ctime
    <3>1. x \in table \cup AllRemoved /\ x \in DOMAIN node' /\ x \in DOMAIN node
      BY <1>4, <1>6, <1>7
    <3>2. PICK ps : /\ ps \subseteq OldRegion(Top) /\ \A p \in ps : old_values[p].id = x
                    /\ node'[x] = RestoredFrom(x, ps)
      BY <1>4, <1>5, <3>1
    <3> QED BY <1>1, <3>1, <3>2, RestoredRecent
  <2> QED BY <2>1 DEF StackOrdered
<1>11. ASSUME NEW i \in 1 .. d
       PROVE  /\ undo_stack'[i].old_values_end \in DOMAIN old_values' \cup {0}
              /\ undo_stack'[i].removed_values_end \in DOMAIN removed_values' \cup {0}
              /\ undo_stack'[i].old_next_id <= next_id'
  <2>1. /\ undo_stack[i].old_values_end \in DOMAIN old_values \cup {0}
        /\ undo_stack[i].removed_values_end \in DOMAIN removed_values \cup {0}
        /\ undo_stack[i].old_next_id <= next_id
    BY <1>1 DEF EndsPresent, StackOrdered
  <2>2. undo_stack[i].old_values_end \notin folded
    <3>1. /\ undo_stack[i].old_values_end <= Top.old_values_end
          /\ undo_stack[i].old_values_end \in Nat /\ Top.old_values_end \in Nat
      BY <1>1, TopRegion, StackFacts
    <3>2. \A p \in folded : p > Top.old_values_end
      BY <1>2 DEF OldRegion
    <3> QED BY <3>1, <3>2
  <2>3. undo_stack[i].removed_values_end \notin gone
    <3>1. /\ undo_stack[i].removed_values_end <= Top.removed_values_end
          /\ undo_stack[i].removed_values_end \in Nat /\ Top.removed_values_end \in Nat
      BY <1>1, TopRegion, StackFacts
    <3>2. \A p \in gone : p > Top.removed_values_end
      BY <1>3 DEF RemovedRegion
    <3> QED BY <3>1, <3>2
  <2> QED BY <1>4, <2>1, <2>2, <2>3
<1>12. ASSUME NEW i \in 1 .. d, NEW p \in OldRegion(undo_stack[i])',
              old_values[p].mtime < undo_stack'[i].ctime
       PROVE  old_values[p].id \in DOMAIN node'
  <2>1. p \in OldRegion(undo_stack[i]) /\ i \in 1 .. Depth
    BY <1>1, <1>4 DEF OldRegion
  <2>2. /\ old_values[p].id \in DOMAIN node /\ old_values[p].id \in Nat
        /\ old_values[p].mtime \in Nat
    <3>1. old_values[p] \in OldNode
      BY <2>1 DEF OldRegion, TypeOK
    <3>2. old_values[p].id \in DOMAIN node
      BY <1>12, <1>1, <2>1 DEF CurrentAlive
    <3> QED BY <3>1, <3>2, UndoIndexAssumption DEF OldNode, Id, Mtime
  <2>3. old_values[p].id < undo_stack[i].old_next_id
    BY <1>12, <2>1, <2>2, StackFacts DEF NewIsRecent
  <2>4. undo_stack[i].old_next_id <= s.old_next_id
    BY <1>1, <2>1, StackFacts DEF StackOrdered
  <2>5. \A q \in gone : old_values[p].id # removed_values[q]
    BY <1>1, <1>3, <2>1, <2>2, <2>3, <2>4, StackFacts
  <2> QED BY <1>4, <2>2, <2>5
<1> QED
  <2>1. 0 \in Nat /\ Depth' + 0 <= Depth /\ Depth' <= revision'
        /\ \A i \in 1 .. Depth' : undo_stack'[i] = undo_stack[0 + i]
    BY <1>1
  <2> QED BY <1>1, <1>4, <1>6, <1>9, <1>10, <1>11, <1>12, <2>1, ShrinkStep

(* squash merges the newest session into the one below it. *)
LEMMA SquashStep ==
  ASSUME IndInv, Squash
  PROVE  IndInv'
<1>1. /\ undo_stack # <<>> /\ undo_stack' = PopStack /\ revision' = revision - 1
      /\ UNCHANGED <<table, next_id, monotonic_revision>>
  BY DEF Squash, DropTop
<1>2. /\ Depth \in Nat /\ Depth >= 1 /\ Len(undo_stack') = Depth - 1
      /\ undo_stack' \in Seq(UndoState)
      /\ \A i \in 1 .. Depth - 1 : undo_stack'[i] = undo_stack[i]
      /\ revision' \in 0 .. MaxRevision /\ Depth - 1 <= revision'
  BY <1>1, PopFacts
<1>3. CASE Depth = 1
  <2>1. Dispose({}, {}) /\ undo_stack' = <<>>
    BY <1>2, <1>3, EmptySeq DEF Squash
  <2> QED BY <1>1, <1>2, <2>1, DisposeAllStep
<1>4. CASE Depth >= 2
  <2>1. Depth - 1 \in 1 .. Depth /\ Compress(undo_stack[Depth - 1])
    BY <1>2, <1>4 DEF Squash
  <2> QED BY <1>1, <1>2, <2>1, CompressStep
<1> QED BY <1>2, <1>3, <1>4

(* last_undo_session keeps the session that it compresses. *)
LEMMA CompressLastStep ==
  ASSUME IndInv, CompressLast
  PROVE  IndInv'
<1>1. /\ undo_stack # <<>> /\ Compress(Top)
      /\ UNCHANGED <<table, undo_stack, next_id, revision, monotonic_revision>>
  BY DEF CompressLast
<1>2. /\ Depth \in 1 .. Depth /\ Top = undo_stack[Depth] /\ Len(undo_stack') = Depth
      /\ undo_stack' \in Seq(UndoState)
      /\ revision' \in 0 .. MaxRevision /\ Depth <= revision'
  BY <1>1, StackFacts DEF IndInv, TypeOK, Top, Depth, RangeExists
<1> QED BY <1>1, <1>2, CompressStep

(* commit destroys rows that were removed before the oldest remaining      *)
(* session: nothing that is left refers to them.                           *)
LEMMA CommitStep ==
  ASSUME IndInv, NEW r \in 0 .. MaxRevision, Commit(r)
  PROVE  IndInv'
<1> USE DEF IndInv
<1>1. UNCHANGED <<table, next_id, revision, monotonic_revision>>
  BY DEF Commit
<1>2. /\ revision \in 0 .. MaxRevision /\ revision \in Nat /\ r \in Nat
      /\ Depth \in Nat /\ Depth <= revision
  BY StackFacts, UndoIndexAssumption DEF TypeOK, RangeExists
<1>3. CASE r >= revision
  <2>1. Dispose({}, {}) /\ undo_stack' = <<>>
    BY <1>3 DEF Commit
  <2> QED BY <1>1, <1>2, <2>1, DisposeAllStep
<1>4. CASE ~(r >= revision)
  <2>1. PICK first : first = Depth - (revision - r) + 1
    OBVIOUS
  <2> DEFINE s == undo_stack[first]
             keptOld == KeptFrom(old_values, s.old_values_end)
             keptRemoved == KeptFrom(removed_values, s.removed_values_end)
             gone == DOMAIN removed_values \ keptRemoved
  <2>2. /\ revision - r < Depth
        /\ Dispose(keptOld, keptRemoved)
        /\ undo_stack' = SubSeq(undo_stack, first, Depth)
    BY <1>4, <2>1 DEF Commit
  <2>3. first \in 1 .. Depth /\ s \in UndoState
    BY <1>2, <1>4, <2>1, <2>2, StackFacts
  <2>4. \A i \in first .. Depth : undo_stack[i] \in UndoState
    BY <1>2, <2>3, StackFacts
  <2>5. /\ undo_stack' \in Seq(UndoState)
        /\ Depth' = Depth - first + 1
        /\ \A i \in 1 .. Depth' : /\ undo_stack'[i] = undo_stack[first - 1 + i]
                                  /\ first - 1 + i \in first .. Depth
                                  /\ first - 1 + i \in 1 .. Depth
    <3>1. /\ undo_stack' \in Seq(UndoState)
          /\ Len(undo_stack') = Depth - first + 1
          /\ \A i \in 1 .. Depth - first + 1 : undo_stack'[i] = undo_stack[first + i - 1]
      BY <1>2, <2>2, <2>3, <2>4, SubSeqProperties
    <3>2. \A i \in 1 .. Depth - first + 1 : /\ first - 1 + i = first + i - 1
                                            /\ first - 1 + i \in first .. Depth
                                            /\ first - 1 + i \in 1 .. Depth
      BY <1>2, <2>3
    <3>3. Depth' = Len(undo_stack')
      BY DEF Depth
    <3> QED BY <3>1, <3>2, <3>3
  <2>6. \A j \in first .. Depth :
          /\ j \in 1 .. Depth
          /\ s.old_values_end <= undo_stack[j].old_values_end
          /\ s.removed_values_end <= undo_stack[j].removed_values_end
    BY <1>2, <2>3 DEF EndsPresent
  <2>7. /\ DOMAIN old_values' = keptOld
        /\ \A p \in DOMAIN old_values' : old_values'[p] = old_values[p]
        /\ DOMAIN removed_values' = keptRemoved
        /\ \A p \in DOMAIN removed_values' : removed_values'[p] = removed_values[p]
        /\ DOMAIN node' = DOMAIN node \ {removed_values[p] : p \in gone}
        /\ \A x \in DOMAIN node' : node'[x] = node[x]
    BY <2>2 DEF Dispose, Keep, Drop, KeptFrom
  <2>8. /\ keptOld \subseteq DOMAIN old_values /\ keptRemoved \subseteq DOMAIN removed_values
        /\ \A p \in gone : p \in DOMAIN removed_values /\ p < s.removed_values_end
    BY <2>3, StackFacts DEF KeptFrom, TypeOK
  <2>9. \A p \in DOMAIN old_values : p >= s.old_values_end => p \in keptOld
    BY DEF KeptFrom
  <2>10. \A p \in DOMAIN removed_values : p >= s.removed_values_end => p \in keptRemoved
    BY DEF KeptFrom
  <2>17. gone \cup keptRemoved = DOMAIN removed_values /\ gone \cap keptRemoved = {}
    BY <2>8
  <2> HIDE DEF keptOld, keptRemoved, gone, s
  <2>11. AllRemoved' \subseteq AllRemoved /\ table' \cap AllRemoved' = {}
    BY <1>1, <2>7, <2>8 DEF AllRemoved, RemovedOnce
  <2>12. \A x \in table' \cup AllRemoved' : x \in DOMAIN node'
    <3>1. ASSUME NEW x \in table' PROVE x \in DOMAIN node'
      BY <1>1, <2>7, <2>8 DEF TypeOK, RemovedOnce, AllRemoved
    <3>2. ASSUME NEW p \in DOMAIN removed_values'
          PROVE  removed_values'[p] \in DOMAIN node'
      BY <2>7, <2>17, <2>8 DEF RemovedOnce, TypeOK
    <3> QED BY <3>1, <3>2 DEF AllRemoved
  <2>13. TypeOK'
    BY <1>1, <2>5, <2>7, <2>8, <2>12 DEF TypeOK, AllRemoved
  <2>14. \A x \in table' \cup AllRemoved' :
           /\ x \in table \cup AllRemoved
           /\ x < next_id'
           /\ node'[x].mtime <= monotonic_revision
           /\ \A i \in 1 .. Depth' : x >= undo_stack'[i].old_next_id =>
                                       node'[x].mtime >= undo_stack'[i].ctime
    BY <1>1, <2>5, <2>7, <2>11, <2>12 DEF StackOrdered, NewIsRecent
  <2>15. ASSUME NEW i \in 1 .. Depth'
         PROVE  /\ undo_stack'[i].old_values_end \in DOMAIN old_values' \cup {0}
                /\ undo_stack'[i].removed_values_end \in DOMAIN removed_values' \cup {0}
                /\ undo_stack'[i].old_next_id <= next_id'
    <3>1. PICK j \in first .. Depth : j \in 1 .. Depth /\ undo_stack'[i] = undo_stack[j]
      BY <2>5
    <3>2. /\ undo_stack[j].old_values_end \in DOMAIN old_values \cup {0}
          /\ undo_stack[j].removed_values_end \in DOMAIN removed_values \cup {0}
          /\ undo_stack[j].old_next_id <= next_id
      BY <3>1 DEF EndsPresent, StackOrdered
    <3>3. /\ s.old_values_end \in Nat /\ s.removed_values_end \in Nat
          /\ undo_stack[j].old_values_end \in Nat /\ undo_stack[j].removed_values_end \in Nat
      BY <2>3, <3>1, StackFacts DEF s
    <3> QED BY <1>1, <2>6, <2>7, <2>9, <2>10, <3>1, <3>2, <3>3
  <2>16. ASSUME NEW i \in 1 .. Depth', NEW p \in OldRegion(undo_stack[i])',
                old_values[p].mtime < undo_stack'[i].ctime
         PROVE  old_values[p].id \in DOMAIN node'
    <3>1. PICK j \in first .. Depth : j \in 1 .. Depth /\ undo_stack'[i] = undo_stack[j]
      BY <2>5
    <3>2. p \in OldRegion(undo_stack[j])
      BY <2>7, <2>8, <3>1 DEF OldRegion
    <3>3. old_values[p].id \in DOMAIN node
      BY <2>16, <3>1, <3>2 DEF CurrentAlive
    <3>4. ASSUME NEW q \in gone PROVE removed_values[q] # old_values[p].id
      <4>1. /\ q \in DOMAIN removed_values /\ q \in Nat
            /\ q < s.removed_values_end /\ s.removed_values_end \in Nat
            /\ undo_stack[j].removed_values_end \in Nat
        BY <2>3, <2>8, <3>1, StackFacts DEF TypeOK, s
      <4>2. q <= undo_stack[j].removed_values_end
        BY <2>6, <4>1
      <4> QED BY <3>1, <3>2, <4>1, <4>2 DEF RemovedBefore
    <3> QED BY <2>7, <3>3, <3>4
  <2> QED
    <3>1. first - 1 \in Nat /\ Depth' + (first - 1) <= Depth /\ Depth' <= revision'
      BY <1>1, <1>2, <2>3, <2>5
    <3>2. \A i \in 1 .. Depth' : undo_stack'[i] = undo_stack[(first - 1) + i]
      BY <2>5
    <3> QED BY <1>1, <2>7, <2>8, <2>11, <2>13, <2>14, <2>15, <2>16, <3>1, <3>2, ShrinkStep
<1> QED BY <1>3, <1>4

(* What undo inserts again was removed in the undone session, and created  *)
(* before it.                                                              *)
LEMMA ReinsertedFacts ==
  ASSUME NEW s, NEW kept, NEW val, NEW x \in Reinserted(s, kept, val)
  PROVE  x \in RemovedIds(s) /\ x < s.old_next_id
BY DEF Reinserted, RemovedIds

(* undo destroys the rows that the session created and gives the others    *)
(* the contents, and the _mtime, they had when it began.                   *)
LEMMA UndoStep ==
  ASSUME IndInv, Undo
  PROVE  IndInv'
<1> USE DEF IndInv
<1> DEFINE s == Top
           new_ids == {x \in table : x >= s.old_next_id}
           back == {x \in RemovedIds(s) : x < s.old_next_id}
           gone == new_ids \cup (RemovedIds(s) \ back)
           reinserted == Reinserted(s, table \ new_ids,
                                    [x \in DOMAIN node |-> WrittenBack(x, s).val])
<1>1. /\ undo_stack # <<>> /\ undo_stack' = PopStack /\ revision' = revision - 1
      /\ UNCHANGED monotonic_revision /\ next_id' = s.old_next_id
      /\ table' = (table \ new_ids) \cup reinserted
      /\ DOMAIN old_values' = DOMAIN old_values \ OldRegion(s)
      /\ \A p \in DOMAIN old_values' : old_values'[p] = old_values[p]
      /\ DOMAIN removed_values' = DOMAIN removed_values \ RemovedRegion(s)
      /\ \A p \in DOMAIN removed_values' : removed_values'[p] = removed_values[p]
  BY DEF Undo, Drop
<1>2. /\ DOMAIN node' = DOMAIN node \ gone
      /\ \A x \in DOMAIN node' :
           node'[x] = IF x \in back THEN [WrittenBack(x, s) EXCEPT !.erased = FALSE]
                      ELSE WrittenBack(x, s)
  BY DEF Undo
<1>3. \A x \in reinserted : x \in RemovedIds(s) /\ x < s.old_next_id
  BY ReinsertedFacts
<1> HIDE DEF reinserted
<1>4. /\ Depth \in Nat /\ Depth >= 1 /\ Depth' = Depth - 1 /\ undo_stack' \in Seq(UndoState)
      /\ \A i \in 1 .. Depth' : undo_stack'[i] = undo_stack[i] /\ i \in 1 .. Depth
      /\ revision' \in 0 .. MaxRevision /\ Depth' <= revision'
  BY <1>1, PopFacts DEF Depth
<1>5. /\ s \in UndoState /\ s.old_next_id \in 0 .. MaxId /\ s.old_next_id \in Nat
      /\ s.old_values_end \in Nat /\ s.removed_values_end \in Nat
      /\ \A i \in 1 .. Depth' :
           /\ undo_stack[i].old_values_end <= s.old_values_end
           /\ undo_stack[i].removed_values_end <= s.removed_values_end
           /\ undo_stack[i].old_next_id <= s.old_next_id
           /\ undo_stack[i].old_values_end \in Nat
           /\ undo_stack[i].removed_values_end \in Nat
           /\ undo_stack[i].old_next_id \in Nat
           /\ undo_stack[i].ctime \in Nat
  BY <1>1, <1>4, TopRegion, StackFacts, UndoIndexAssumption DEF UndoState
<1> HIDE DEF s
<1>6. RemovedIds(s) \subseteq AllRemoved
  BY DEF RemovedIds, RemovedRegion, AllRemoved
<1>7. AllRemoved' \subseteq AllRemoved /\ AllRemoved' \cap RemovedIds(s) = {}
  BY <1>1 DEF AllRemoved, RemovedOnce, RemovedIds, RemovedRegion
<1>8. table' \cap AllRemoved' = {}
  BY <1>1, <1>3, <1>7 DEF RemovedOnce
<1>9. \A x \in table \cup AllRemoved : x \in DOMAIN node /\ x \in Nat
  BY DEF TypeOK, AllRemoved, Id
<1>10. \A x \in AllRemoved' : x < s.old_next_id
  <2>1. ASSUME NEW p \in DOMAIN removed_values'
        PROVE  removed_values[p] < s.old_next_id
    <3>1. p \in DOMAIN removed_values /\ p <= s.removed_values_end
      BY <1>1, <1>5 DEF RemovedRegion, TypeOK
    <3> QED BY <1>1, <3>1, TopRegion DEF RemovedBefore, s, Top
  <2> QED BY <1>1, <2>1 DEF AllRemoved
<1>11. \A x \in table' : x \in table \cup AllRemoved /\ x < s.old_next_id /\ x \notin gone
  <2>1. ASSUME NEW x \in table \ new_ids
        PROVE  x < s.old_next_id /\ x \notin gone
    BY <1>5, <1>6, <1>9 DEF RemovedOnce
  <2>2. ASSUME NEW x \in reinserted
        PROVE  x \in AllRemoved /\ x \notin gone
    BY <1>3, <1>6 DEF RemovedOnce
  <2> QED BY <1>1, <1>3, <2>1, <2>2
<1>12. \A x \in AllRemoved' : x \notin gone
  BY <1>7 DEF RemovedOnce
<1>13. \A x \in table' \cup AllRemoved' : x \in DOMAIN node'
  BY <1>2, <1>7, <1>9, <1>11, <1>12
<1>14. ASSUME NEW x \in DOMAIN node'
       PROVE  /\ node'[x] \in Node
              /\ node'[x].mtime = RestoredFrom(x, OlderBackups(x, s)).mtime
  <2>1. x \in DOMAIN node /\ OlderBackups(x, s) \subseteq DOMAIN old_values
    BY <1>2 DEF OlderBackups, OldRegion
  <2>2. WrittenBack(x, s) \in Node /\ WrittenBack(x, s) = RestoredFrom(x, OlderBackups(x, s))
    BY <2>1, RestoredFacts DEF WrittenBack
  <2>3. \A n \in Node : /\ [n EXCEPT !.erased = FALSE] \in Node
                        /\ [n EXCEPT !.erased = FALSE].mtime = n.mtime
    BY DEF Node
  <2>4. node'[x] \in {WrittenBack(x, s), [WrittenBack(x, s) EXCEPT !.erased = FALSE]}
    BY <1>2
  <2> QED BY <2>2, <2>3, <2>4
<1> HIDE DEF gone, back, new_ids
<1>15. TypeOK'
  <2>1. DOMAIN node' \subseteq Id /\ \A x \in DOMAIN node' : node'[x] \in Node
    BY <1>2, <1>14 DEF TypeOK
  <2>2. \A p \in DOMAIN removed_values' : removed_values'[p] \in DOMAIN node'
    BY <1>13 DEF AllRemoved
  <2>3. next_id' \in 0 .. MaxId /\ monotonic_revision' \in Mtime
    BY <1>1, <1>5 DEF TypeOK
  <2> QED BY <1>1, <1>4, <1>13, <2>1, <2>2, <2>3 DEF TypeOK
<1>16. \A x \in table' \cup AllRemoved' :
         /\ x \in table \cup AllRemoved
         /\ x < next_id'
         /\ node'[x].mtime <= monotonic_revision
         /\ \A i \in 1 .. Depth' : x >= undo_stack'[i].old_next_id =>
                                     node'[x].mtime >= undo_stack'[i].ctime
  <2>1. ASSUME NEW x \in table' \cup AllRemoved'
        PROVE  /\ x \in table \cup AllRemoved
               /\ x < s.old_next_id
               /\ node'[x].mtime <= monotonic_revision
               /\ \A i \in 1 .. Depth' : x >= undo_stack'[i].old_next_id =>
                                           node'[x].mtime >= undo_stack'[i].ctime
    <3>1. x \in table \cup AllRemoved /\ x < s.old_next_id
      BY <1>7, <1>10, <1>11
    <3>2. /\ OlderBackups(x, s) \subseteq OldRegion(Top)
          /\ \A p \in OlderBackups(x, s) : old_values[p].id = x
      BY DEF OlderBackups, s
    <3>3. /\ RestoredFrom(x, OlderBackups(x, s)).mtime <= monotonic_revision
          /\ \A i \in 1 .. Depth :
               x >= undo_stack[i].old_next_id =>
                 RestoredFrom(x, OlderBackups(x, s)).mtime >= undo_stack[i].ctime
      BY <1>1, <3>1, <3>2, RestoredRecent
    <3>4. node'[x].mtime = RestoredFrom(x, OlderBackups(x, s)).mtime
      BY <1>13, <1>14
    <3> QED BY <1>4, <3>1, <3>3, <3>4
  <2> QED BY <1>1, <2>1
<1>17. ASSUME NEW i \in 1 .. Depth'
       PROVE  /\ undo_stack'[i].old_values_end \in DOMAIN old_values' \cup {0}
              /\ undo_stack'[i].removed_values_end \in DOMAIN removed_values' \cup {0}
              /\ undo_stack'[i].old_next_id <= next_id'
  <2>1. /\ undo_stack[i].old_values_end \in DOMAIN old_values \cup {0}
        /\ undo_stack[i].removed_values_end \in DOMAIN removed_values \cup {0}
    BY <1>4 DEF EndsPresent
  <2>2. /\ undo_stack'[i] = undo_stack[i]
        /\ undo_stack[i].old_values_end <= s.old_values_end
        /\ undo_stack[i].removed_values_end <= s.removed_values_end
        /\ undo_stack[i].old_next_id <= s.old_next_id
    BY <1>4, <1>5
  <2>3. /\ undo_stack[i].old_values_end \notin OldRegion(s)
        /\ undo_stack[i].removed_values_end \notin RemovedRegion(s)
    BY <1>5, <2>2 DEF OldRegion, RemovedRegion
  <2> QED BY <1>1, <2>1, <2>2, <2>3
<1>18. ASSUME NEW i \in 1 .. Depth', NEW p \in OldRegion(undo_stack[i])',
              old_values[p].mtime < undo_stack'[i].ctime
       PROVE  old_values[p].id \in DOMAIN node'
  <2>1. p \in OldRegion(undo_stack[i]) /\ i \in 1 .. Depth
    BY <1>1, <1>4 DEF OldRegion
  <2>2. old_values[p] \in OldNode /\ old_values[p].id \in DOMAIN node
    BY <1>4, <1>18, <2>1 DEF OldRegion, TypeOK, CurrentAlive
  <2>3. old_values[p].id \in Nat /\ old_values[p].mtime \in Nat
    BY <2>2, UndoIndexAssumption DEF OldNode, Id, Mtime
  <2>4. old_values[p].id < undo_stack[i].old_next_id
    <3>1. /\ old_values[p].id >= undo_stack[i].old_next_id =>
                old_values[p].mtime >= undo_stack[i].ctime
          /\ undo_stack'[i] = undo_stack[i]
      BY <1>4, <2>1 DEF NewIsRecent
    <3>2. undo_stack[i].old_next_id \in Nat /\ undo_stack[i].ctime \in Nat
      BY <1>5
    <3> QED BY <1>18, <2>3, <3>1, <3>2
  <2>5. old_values[p].id < s.old_next_id
    BY <1>5, <2>3, <2>4
  <2>6. \A x \in gone : ~(x < s.old_next_id)
    BY <1>5, <1>6, <1>9 DEF gone, new_ids, back
  <2> QED BY <1>2, <2>2, <2>5, <2>6
<1> QED
  <2>1. 0 \in Nat /\ Depth' + 0 <= Depth
        /\ \A i \in 1 .. Depth' : undo_stack'[i] = undo_stack[0 + i]
    BY <1>4
  <2> QED BY <1>1, <1>4, <1>8, <1>15, <1>16, <1>17, <1>18, <2>1, ShrinkStep

----------------------------------------------------------------------------
(* The theorems *)

(* The empty table satisfies the invariant. *)
LEMMA InitIndInv == Init => IndInv
<1> SUFFICES ASSUME Init PROVE IndInv
  OBVIOUS
<1>1. /\ DOMAIN node = {} /\ table = {} /\ DOMAIN old_values = {} /\ DOMAIN removed_values = {}
      /\ undo_stack = <<>> /\ next_id = 0 /\ revision = 0 /\ monotonic_revision = 0
  BY DEF Init
<1>2. Depth = 0 /\ undo_stack \in Seq(UndoState) /\ AllRemoved = {}
  BY <1>1, EmptySeq DEF Depth, AllRemoved
<1>3. TypeOK
  BY <1>1, <1>2, UndoIndexAssumption DEF TypeOK, Mtime
<1>4. HeightBounds(old_values) /\ HeightBounds(removed_values)
  BY <1>1, HeightFacts
<1>5. RemovedOnce /\ BackupsPast /\ RangeExists
  BY <1>1, <1>2 DEF RemovedOnce, BackupsPast, RangeExists
<1>6. RemovedBefore /\ NewIsRecent /\ EndsPresent /\ CurrentAlive
  BY <1>2 DEF RemovedBefore, NewIsRecent, EndsPresent, CurrentAlive
<1>7. StackOrdered
  BY <1>1, <1>2 DEF StackOrdered
<1> QED BY <1>3, <1>4, <1>5, <1>6, <1>7 DEF IndInv

(* Every operation preserves the invariant. *)
LEMMA NextIndInv == IndInv /\ [Next]_vars => IndInv'
<1> SUFFICES ASSUME IndInv, [Next]_vars PROVE IndInv'
  OBVIOUS
<1>1. ASSUME NEW v \in Value, Emplace(v) PROVE IndInv'
  BY <1>1, EmplaceStep
<1>2. ASSUME NEW x \in table, NEW v \in Value, Modify(x, v) PROVE IndInv'
  BY <1>2, ModifyStep
<1>3. ASSUME NEW x \in table, NEW v \in Value, ModifyReverted(x, v) PROVE IndInv'
  BY <1>3, ModifyRevertedStep
<1>4. ASSUME NEW x \in table, NEW n \in Node, n.mtime = node[x].mtime, RemoveNode(x, n)
      PROVE  IndInv'
  BY <1>4, RemoveNodeStep
<1>5. \A x \in table : node[x] \in Node
  BY DEF IndInv, TypeOK
<1>6. ASSUME NEW x \in table, NEW v \in Value, ModifyErased(x, v) PROVE IndInv'
  <2> DEFINE n == [node[x] EXCEPT !.val = v]
  <2>1. n \in Node /\ n.mtime = node[x].mtime
    BY <1>5 DEF Node
  <2>2. RemoveNode(x, n)
    BY <1>6 DEF ModifyErased
  <2> HIDE DEF n
  <2> QED BY <1>4, <2>1, <2>2
<1>7. ASSUME NEW x \in table, Remove(x) PROVE IndInv'
  BY <1>4, <1>5, <1>7 DEF Remove
<1>8. CASE StartSession
  BY <1>8, StartSessionStep
<1>9. CASE Undo
  BY <1>9, UndoStep
<1>10. CASE Squash
  BY <1>10, SquashStep
<1>11. CASE SquashFast
  BY <1>11, SquashFastStep
<1>12. CASE CompressLast
  BY <1>12, CompressLastStep
<1>13. ASSUME NEW r \in 0 .. MaxRevision, Commit(r) PROVE IndInv'
  BY <1>13, CommitStep
<1>14. ASSUME NEW r \in 0 .. MaxRevision, SetRevision(r) PROVE IndInv'
  BY <1>14, SetRevisionStep
<1>15. CASE UNCHANGED vars
  BY <1>15 DEF vars, lists, IndInv, TypeOK, HeightBounds, Height, RemovedOnce, RemovedBefore,
       NewIsRecent, BackupsPast, EndsPresent, StackOrdered, RangeExists, CurrentAlive,
       Depth, AllRemoved, OldRegion
<1> QED
  BY <1>1, <1>2, <1>3, <1>6, <1>7, <1>8, <1>9, <1>10, <1>11, <1>12, <1>13, <1>14, <1>15 DEF Next

(* The invariant holds in every reachable state, for all constants. *)
THEOREM Invariance == Spec => []IndInv
<1>1. Init => IndInv
  BY InitIndInv
<1>2. IndInv /\ [Next]_vars => IndInv'
  BY NextIndInv
<1> QED BY <1>1, <1>2, PTL DEF Spec

(* Every variable keeps its type. *)
THEOREM TypeCorrect == Spec => []TypeOK
<1>1. IndInv => TypeOK
  BY DEF IndInv
<1> QED BY <1>1, Invariance, PTL

(* No pointer of the undo stack dangles (undo_state::old_values_end and    *)
(* removed_values_end), whatever the sequence of operations was.           *)
THEOREM EndsNeverDangle == Spec => []EndsPresent
<1>1. IndInv => EndsPresent
  BY DEF IndInv
<1> QED BY <1>1, Invariance, PTL

(* ctime, _mtime and the ids are ordered as undo and squash assume. *)
THEOREM StackAlwaysOrdered == Spec => []StackOrdered
<1>1. IndInv => StackOrdered
  BY DEF IndInv
<1> QED BY <1>1, Invariance, PTL

(* undo_stack_revision_range never wraps around below zero. *)
THEOREM RangeAlwaysExists == Spec => []RangeExists
<1>1. IndInv => RangeExists
  BY DEF IndInv
<1> QED BY <1>1, Invariance, PTL

(* No operation follows old_node::_current to a destroyed node. *)
THEOREM BackupsStayAlive == Spec => []CurrentAlive
<1>1. IndInv => CurrentAlive
  BY DEF IndInv
<1> QED BY <1>1, Invariance, PTL

----------------------------------------------------------------------------
(* Which backup decides what a row was *)

IsOldest(m, S) == m \in S /\ \A p \in S : m <= p

LEMMA OldestIsMin ==
  ASSUME NEW S, S \subseteq Nat, NEW m, IsOldest(m, S)
  PROVE  Min(S) = m
<1>1. S # {}
  BY DEF IsOldest
<1>2. Min(S) \in S /\ \A y \in S : Min(S) <= y
  BY <1>1, MinNat
<1>3. Min(S) <= m /\ m <= Min(S) /\ m \in Nat /\ Min(S) \in Nat
  BY <1>2 DEF IsOldest
<1> QED BY <1>3

LEMMA OldestExists ==
  ASSUME NEW S, S \subseteq Nat, S # {}
  PROVE  \E m : IsOldest(m, S)
BY LeastNat DEF IsOldest

(* A row with backups ps gets the contents of the oldest, and keeps what   *)
(* it has without any.                                                     *)
LEMMA ValueFrom ==
  ASSUME TypeOK
  PROVE  \A x \in DOMAIN node : \A ps \in SUBSET DOMAIN old_values :
           /\ ps = {} => RestoredFrom(x, ps).val = node[x].val
           /\ \A m : IsOldest(m, ps) => RestoredFrom(x, ps).val = old_values[m].val
           /\ ps # {} => \E m : IsOldest(m, ps)
           /\ RestoredFrom(x, ps).erased = node[x].erased
<1> TAKE x \in DOMAIN node
<1> TAKE ps \in SUBSET DOMAIN old_values
<1>1. ps \subseteq Nat /\ node[x] \in Node
  BY DEF TypeOK
<1>2. CASE ps = {}
  BY <1>2 DEF RestoredFrom, IsOldest
<1>3. CASE ps # {}
  <2> DEFINE b == old_values[Min(ps)]
  <2>1. RestoredFrom(x, ps) = [node[x] EXCEPT !.val = b.val, !.mtime = b.mtime]
    BY <1>3 DEF RestoredFrom
  <2>2. RestoredFrom(x, ps).val = b.val /\ RestoredFrom(x, ps).erased = node[x].erased
    BY <1>1, <2>1 DEF Node
  <2>3. \A m : IsOldest(m, ps) => Min(ps) = m
    BY <1>1, OldestIsMin
  <2>4. \E m : IsOldest(m, ps)
    BY <1>1, <1>3, OldestExists
  <2> QED BY <1>3, <2>2, <2>3, <2>4
<1> QED BY <1>2, <1>3

LEMMA ValueFromNext ==
  TypeOK' => \A x \in DOMAIN node' : \A ps \in SUBSET DOMAIN old_values' :
           /\ ps = {} => RestoredFrom(x, ps)'.val = node'[x].val
           /\ \A m : IsOldest(m, ps) => RestoredFrom(x, ps)'.val = old_values'[m].val
           /\ ps # {} => \E m : IsOldest(m, ps)
           /\ RestoredFrom(x, ps)'.erased = node'[x].erased
<1> DEFINE P == \A x \in DOMAIN node : \A ps \in SUBSET DOMAIN old_values :
           /\ ps = {} => RestoredFrom(x, ps).val = node[x].val
           /\ \A m : IsOldest(m, ps) => RestoredFrom(x, ps).val = old_values[m].val
           /\ ps # {} => \E m : IsOldest(m, ps)
           /\ RestoredFrom(x, ps).erased = node[x].erased
<1>1. TypeOK => P
  BY ValueFrom
<1> HIDE DEF P
<1>2. TypeOK' => P'
  BY <1>1, PTL
<1> QED BY <1>2 DEF P

----------------------------------------------------------------------------
(* When a step leaves the snapshot of session s as it is *)

StartIds(s) == {x \in table \cup RemovedIds(s) : x < s.old_next_id}

Kept(s) == /\ RowsAtStart(s)' = RowsAtStart(s)
           /\ OldestPredates(s)'

LEMMA KeptValue ==
  ASSUME TypeOK, TypeOK', NEW s, NEW x, x \in DOMAIN node, x \in DOMAIN node',
         \/ /\ OlderBackups(x, s) = {} /\ OlderBackups(x, s)' = {}
            /\ node'[x].val = node[x].val
         \/ \E m : /\ IsOldest(m, OlderBackups(x, s)) /\ IsOldest(m, OlderBackups(x, s)')
                   /\ old_values'[m].val = old_values[m].val
         \/ /\ OlderBackups(x, s) = {}
            /\ \E m : IsOldest(m, OlderBackups(x, s)') /\ old_values'[m].val = node[x].val
         \/ /\ OlderBackups(x, s)' = {}
            /\ \E m : IsOldest(m, OlderBackups(x, s)) /\ node'[x].val = old_values[m].val
  PROVE  WrittenBack(x, s)'.val = WrittenBack(x, s).val
<1> DEFINE O == OlderBackups(x, s)
           N == OlderBackups(x, s)'
<1>1. O \in SUBSET DOMAIN old_values /\ N \in SUBSET DOMAIN old_values'
  BY DEF OlderBackups, OldRegion
<1>2. /\ O = {} => WrittenBack(x, s).val = node[x].val
      /\ \A m : IsOldest(m, O) => WrittenBack(x, s).val = old_values[m].val
  BY <1>1, ValueFrom DEF WrittenBack
<1>3. /\ N = {} => WrittenBack(x, s)'.val = node'[x].val
      /\ \A m : IsOldest(m, N) => WrittenBack(x, s)'.val = old_values'[m].val
  BY <1>1, ValueFromNext DEF WrittenBack
<1> HIDE DEF O, N
<1>4. \/ O = {} /\ N = {} /\ node'[x].val = node[x].val
      \/ \E m : IsOldest(m, O) /\ IsOldest(m, N) /\ old_values'[m].val = old_values[m].val
      \/ O = {} /\ \E m : IsOldest(m, N) /\ old_values'[m].val = node[x].val
      \/ N = {} /\ \E m : IsOldest(m, O) /\ node'[x].val = old_values[m].val
  BY DEF O, N
<1> QED BY <1>2, <1>3, <1>4

LEMMA KeptRows ==
  ASSUME NEW s, StartIds(s)' = StartIds(s),
         \A x \in StartIds(s) : WrittenBack(x, s)'.val = WrittenBack(x, s).val
  PROVE  RowsAtStart(s)' = RowsAtStart(s)
BY DEF RowsAtStart, StartIds

LEMMA StartIdsAllocated ==
  ASSUME TypeOK, NEW s
  PROVE  /\ StartIds(s) \subseteq DOMAIN node
         /\ \A x : OlderBackups(x, s) \in SUBSET DOMAIN old_values
         /\ \A x : OlderBackups(x, s) \subseteq Nat
BY DEF TypeOK, StartIds, RemovedIds, RemovedRegion, OlderBackups, OldRegion

(* The backups of the session stay as they are, and a row without an older *)
(* one keeps its contents.                                                 *)
LEMMA RegionAlone ==
  ASSUME TypeOK, TypeOK', NEW s, OldestPredates(s),
         OldRegion(s)' = OldRegion(s),
         \A p \in OldRegion(s) : old_values'[p] = old_values[p],
         StartIds(s)' = StartIds(s), StartIds(s) \subseteq DOMAIN node',
         \A x \in StartIds(s) : node'[x].val = node[x].val \/ OlderBackups(x, s) # {}
  PROVE  Kept(s)
<1>1. \A x : OlderBackups(x, s)' = OlderBackups(x, s)
  BY DEF OlderBackups
<1>2. ASSUME NEW x \in StartIds(s)
      PROVE  WrittenBack(x, s)'.val = WrittenBack(x, s).val
  <2>1. x \in DOMAIN node /\ x \in DOMAIN node' /\ OlderBackups(x, s) \subseteq Nat
    BY StartIdsAllocated
  <2>2. CASE OlderBackups(x, s) = {}
    BY <1>1, <2>1, <2>2, KeptValue
  <2>3. CASE OlderBackups(x, s) # {}
    <3>1. PICK m : IsOldest(m, OlderBackups(x, s))
      BY <2>1, <2>3, OldestExists
    <3>2. old_values'[m].val = old_values[m].val
      BY <3>1 DEF IsOldest, OlderBackups
    <3> QED BY <1>1, <2>1, <3>1, <3>2, KeptValue
  <2> QED BY <2>2, <2>3
<1>3. OldestPredates(s)'
  BY DEF OldestPredates
<1> QED BY <1>2, <1>3, KeptRows DEF Kept

(* Backups are dropped: of a row that was there when the session began,    *)
(* those behind the ones that stay, or all of them after the contents of   *)
(* the oldest went into the row itself.                                    *)
LEMMA RegionCut ==
  ASSUME TypeOK, TypeOK', NEW s,
         OldRegion(s)' \subseteq OldRegion(s),
         \A p \in OldRegion(s)' : old_values'[p] = old_values[p],
         StartIds(s)' = StartIds(s), StartIds(s) \subseteq DOMAIN node',
         \A x \in StartIds(s) : \A p \in OlderBackups(x, s) : \A q \in OlderBackups(x, s)' :
           p \in OlderBackups(x, s)' \/ q < p,
         \A x \in StartIds(s) : OlderBackups(x, s)' = {} =>
           \/ OlderBackups(x, s) = {} /\ node'[x].val = node[x].val
           \/ \E m : IsOldest(m, OlderBackups(x, s)) /\ node'[x].val = old_values[m].val,
         OldestPredates(s)'
  PROVE  Kept(s)
<1>1. ASSUME NEW x \in StartIds(s)
      PROVE  WrittenBack(x, s)'.val = WrittenBack(x, s).val
  <2>1. x \in DOMAIN node /\ x \in DOMAIN node' /\ OlderBackups(x, s) \subseteq Nat
    BY StartIdsAllocated
  <2>2. CASE OlderBackups(x, s)' = {}
    BY <2>1, <2>2, KeptValue
  <2>3. CASE OlderBackups(x, s)' # {}
    <3>1. OlderBackups(x, s)' \subseteq OlderBackups(x, s)
      BY DEF OlderBackups
    <3>2. PICK m : IsOldest(m, OlderBackups(x, s)')
      BY <2>1, <2>3, <3>1, OldestExists
    <3>3. \A p \in OlderBackups(x, s) : m <= p
      BY <2>1, <3>1, <3>2 DEF IsOldest
    <3>4. IsOldest(m, OlderBackups(x, s)) /\ old_values'[m].val = old_values[m].val
      BY <3>1, <3>2, <3>3 DEF IsOldest, OlderBackups
    <3> QED BY <2>1, <3>2, <3>4, KeptValue
  <2> QED BY <2>2, <2>3
<1> QED BY <1>1, KeptRows DEF Kept

(* The session that undo_stack[i] describes *)
LEMMA SessionFacts ==
  ASSUME RefInv, NEW i \in 1 .. Depth, NEW s, s = undo_stack[i]
  PROVE  /\ s \in UndoState /\ OldestPredates(s) /\ UniqueRows(RowsAtStart(s))
         /\ s.old_values_end \in Nat /\ s.removed_values_end \in Nat
         /\ s.old_next_id \in Nat /\ s.ctime \in Nat
         /\ s.old_next_id <= next_id /\ next_id \in Nat
         /\ undo_stack # <<>> /\ Depth \in 1 .. Depth /\ Depth \in Nat
         /\ Top.old_next_id \in Nat /\ Top.ctime \in Nat
         /\ s.old_next_id <= Top.old_next_id /\ s.ctime <= Top.ctime
<1>1. TypeOK /\ StackOrdered
  BY DEF RefInv, IndInv
<1>2. Depth \in Nat /\ Depth \in 1 .. Depth /\ undo_stack # <<>>
  BY <1>1, StackFacts, EmptySeq DEF Depth
<1>3. s.old_next_id <= Top.old_next_id /\ s.ctime <= Top.ctime
  <2>1. undo_stack[i].ctime \in Nat /\ undo_stack[i].old_next_id \in Nat
    BY <1>1, StackFacts
  <2>2. CASE i = Depth
    BY <2>1, <2>2 DEF Top
  <2>3. CASE i < Depth
    <3>1. undo_stack[Depth].ctime \in Nat
      BY <1>1, <1>2, StackFacts
    <3> QED BY <1>1, <1>2, <2>1, <2>3, <3>1 DEF Top, StackOrdered
  <2> QED BY <1>2, <2>2, <2>3
<1>4. s \in UndoState /\ OldestPredates(s) /\ UniqueRows(RowsAtStart(s))
  BY <1>1, StackFacts DEF RefInv
<1>5. next_id \in Nat /\ s.old_next_id <= next_id
  BY <1>1, UndoIndexAssumption DEF TypeOK, StackOrdered
<1> QED BY <1>1, <1>2, <1>3, <1>4, <1>5, StackFacts DEF Top

----------------------------------------------------------------------------
(* The operations on rows *)

LEMMA EmplaceKeeps ==
  ASSUME RefInv, TypeOK', NEW v \in Value, Emplace(v),
         NEW i \in 1 .. Depth, NEW s, s = undo_stack[i]
  PROVE  Kept(s)
<1>1. /\ table' = table \cup {next_id}
      /\ UNCHANGED <<old_values, removed_values>>
      /\ DOMAIN node' = DOMAIN node \cup {next_id}
      /\ \A y \in DOMAIN node : y # next_id => node'[y] = node[y]
  BY DEF Emplace, lists
<1>2. OldestPredates(s) /\ s.old_next_id \in Nat /\ s.old_next_id <= next_id /\ next_id \in Nat
  BY SessionFacts
<1>3. OldRegion(s)' = OldRegion(s) /\ RemovedIds(s)' = RemovedIds(s)
  BY <1>1 DEF OldRegion, RemovedIds, RemovedRegion
<1>4. StartIds(s)' = StartIds(s) /\ next_id \notin StartIds(s)
  BY <1>1, <1>2, <1>3 DEF StartIds
<1>5. TypeOK
  BY DEF RefInv, IndInv
<1>6. \A x \in StartIds(s) : x \in DOMAIN node' /\ node'[x].val = node[x].val
  BY <1>1, <1>4, <1>5, StartIdsAllocated
<1> QED BY <1>1, <1>2, <1>3, <1>4, <1>5, <1>6, RegionAlone

(* A row with an older backup may change: its contents are remembered. *)
LEMMA HasOlder ==
  ASSUME NEW x, NEW s
  PROVE  HasBackup(x, s) <=> OlderBackups(x, s) # {}
BY DEF HasBackup, OlderBackups

LEMMA BackedWhenStamped ==
  ASSUME RefInv, RetryRefused = FALSE, NEW x \in table, MayModify(x),
         NEW i \in 1 .. Depth, NEW s, s = undo_stack[i],
         x < s.old_next_id, node[x].mtime >= s.ctime
  PROVE  OlderBackups(x, s) # {}
<1>1. ~Unbacked(x)
  BY DEF MayModify
<1> QED BY <1>1, HasOlder DEF Unbacked

LEMMA ModifyInPlaceKeeps ==
  ASSUME RefInv, TypeOK', RetryRefused = FALSE, NEW x \in table, NEW v \in Value,
         Modify(x, v), ~BackedUp(x),
         NEW i \in 1 .. Depth, NEW s, s = undo_stack[i]
  PROVE  Kept(s)
<1>1. /\ UNCHANGED <<table, old_values, removed_values>>
      /\ DOMAIN node' = DOMAIN node
      /\ \A y \in DOMAIN node : y # x => node'[y] = node[y]
      /\ MayModify(x)
  BY DEF Modify
<1>2. /\ OldestPredates(s) /\ s.ctime \in Nat /\ Top.ctime \in Nat /\ s.ctime <= Top.ctime
      /\ undo_stack # <<>>
  BY SessionFacts
<1>3. /\ OldRegion(s)' = OldRegion(s) /\ StartIds(s)' = StartIds(s)
  BY <1>1 DEF OldRegion, RemovedIds, RemovedRegion, StartIds
<1>4. TypeOK
  BY DEF RefInv, IndInv
<1>5. node[x].mtime \in Nat
  BY <1>4, UndoIndexAssumption DEF TypeOK, Node, Mtime
<1>6. node[x].mtime >= s.ctime
  BY <1>2, <1>5 DEF BackedUp
<1>7. x < s.old_next_id => OlderBackups(x, s) # {}
  BY <1>1, <1>6, BackedWhenStamped
<1>8. \A y \in StartIds(s) : /\ y \in DOMAIN node'
                             /\ node'[y].val = node[y].val \/ OlderBackups(y, s) # {}
  BY <1>1, <1>4, <1>7, StartIdsAllocated DEF StartIds
<1> QED BY <1>1, <1>2, <1>3, <1>4, <1>8, RegionAlone

(* on_modify: the new backup is behind all others, and the first one only  *)
(* of a row that the session had not modified.                             *)
LEMMA ModifyBackedUpKeeps ==
  ASSUME RefInv, TypeOK', RetryRefused = FALSE, NEW x \in table, NEW v \in Value,
         Modify(x, v), BackedUp(x),
         NEW i \in 1 .. Depth, NEW s, s = undo_stack[i]
  PROVE  Kept(s)
<1> DEFINE h == Height(old_values) + 1
<1>1. /\ UNCHANGED <<table, removed_values>>
      /\ old_values' = PushFront(old_values, Backup(x))
      /\ DOMAIN node' = DOMAIN node
      /\ \A y \in DOMAIN node : y # x => node'[y] = node[y]
      /\ MayModify(x)
  BY DEF Modify
<1>2. /\ TypeOK /\ HeightBounds(old_values)
      /\ DOMAIN old_values \subseteq Nat \ {0}
      /\ s.old_values_end \in DOMAIN old_values \cup {0}
  BY DEF RefInv, IndInv, TypeOK, EndsPresent
<1>3. /\ h \in Nat \ {0} /\ h \notin DOMAIN old_values
      /\ DOMAIN old_values' = DOMAIN old_values \cup {h}
      /\ old_values'[h] = Backup(x)
      /\ \A p \in DOMAIN old_values : old_values'[p] = old_values[p] /\ p < h
  <2>1. /\ h \in Nat \ {0} /\ h \notin DOMAIN old_values
        /\ DOMAIN PushFront(old_values, Backup(x)) = DOMAIN old_values \cup {h}
        /\ PushFront(old_values, Backup(x))[h] = Backup(x)
        /\ \A p \in DOMAIN old_values :
             PushFront(old_values, Backup(x))[p] = old_values[p] /\ p < h
    BY <1>2, PushFrontFacts
  <2> HIDE DEF h
  <2> QED BY <1>1, <2>1
<1> HIDE DEF h
<1>4. OldestPredates(s) /\ s.ctime \in Nat /\ s.old_next_id \in Nat
  BY SessionFacts
<1>5. /\ OldRegion(s) \subseteq DOMAIN old_values
      /\ OldRegion(s)' = OldRegion(s) \cup {h} /\ h \notin OldRegion(s)
  <2>1. s.old_values_end < h
    BY <1>2, <1>3
  <2> QED BY <1>3, <2>1 DEF OldRegion
<1>6. StartIds(s)' = StartIds(s)
  BY <1>1 DEF RemovedIds, RemovedRegion, StartIds
<1>7. node[x].mtime \in Nat /\ x \in Nat /\ x \in DOMAIN node
  BY <1>2, UndoIndexAssumption DEF TypeOK, Node, Mtime, Id
<1>8. Backup(x).id = x /\ Backup(x).mtime = node[x].mtime /\ Backup(x).val = node[x].val
  BY DEF Backup
<1>9. x < s.old_next_id /\ node[x].mtime >= s.ctime => OlderBackups(x, s) # {}
  BY <1>1, BackedWhenStamped
<1>10. \A y : OlderBackups(y, s)' =
         IF y = x /\ node[x].mtime < s.ctime THEN OlderBackups(y, s) \cup {h}
         ELSE OlderBackups(y, s)
  BY <1>3, <1>5, <1>8 DEF OlderBackups
<1>11. ASSUME NEW y \in StartIds(s)
       PROVE  WrittenBack(y, s)'.val = WrittenBack(y, s).val
  <2>1. /\ y \in DOMAIN node /\ y \in DOMAIN node' /\ OlderBackups(y, s) \subseteq Nat
        /\ OlderBackups(y, s) \subseteq DOMAIN old_values
    BY <1>1, <1>2, StartIdsAllocated
  <2>2. CASE OlderBackups(y, s) # {}
    <3>1. PICK m : IsOldest(m, OlderBackups(y, s))
      BY <2>1, <2>2, OldestExists
    <3>2. /\ m \in DOMAIN old_values /\ old_values'[m].val = old_values[m].val
          /\ m < h /\ m \in Nat
      BY <1>3, <2>1, <3>1 DEF IsOldest
    <3>3. IsOldest(m, OlderBackups(y, s)')
      <4>1. /\ OlderBackups(y, s) \subseteq OlderBackups(y, s)'
            /\ OlderBackups(y, s)' \subseteq OlderBackups(y, s) \cup {h}
        BY <1>10
      <4>2. m \in OlderBackups(y, s) /\ \A p \in OlderBackups(y, s) : m <= p
        BY <3>1 DEF IsOldest
      <4>3. m <= h
        BY <1>3, <3>2
      <4> QED BY <4>1, <4>2, <4>3 DEF IsOldest
    <3> QED BY <1>2, <2>1, <3>1, <3>2, <3>3, KeptValue
  <2>3. CASE OlderBackups(y, s) = {} /\ y = x
    <3>1. node[x].mtime < s.ctime
      BY <1>4, <1>7, <1>9, <2>3 DEF StartIds
    <3>2. OlderBackups(y, s)' = {h}
      BY <1>10, <2>3, <3>1
    <3>3. IsOldest(h, OlderBackups(y, s)') /\ old_values'[h].val = node[y].val
      BY <1>3, <1>8, <2>3, <3>2 DEF IsOldest
    <3> QED BY <1>2, <2>1, <2>3, <3>3, KeptValue
  <2>4. CASE OlderBackups(y, s) = {} /\ y # x
    BY <1>1, <1>2, <1>10, <2>1, <2>4, KeptValue
  <2> QED BY <2>2, <2>3, <2>4
<1>12. OldestPredates(s)'
  <2>1. ASSUME NEW p \in OldRegion(s),
               old_values[p].id < s.old_next_id, old_values[p].mtime >= s.ctime
        PROVE  \E q \in OldRegion(s) : /\ q < p /\ old_values[q].id = old_values[p].id
                                       /\ old_values[q].mtime < s.ctime
    BY <1>4, <2>1 DEF OldestPredates
  <2>2. x < s.old_next_id /\ node[x].mtime >= s.ctime =>
          \E q \in OldRegion(s) : /\ q < h /\ old_values[q].id = x
                                  /\ old_values[q].mtime < s.ctime
    BY <1>3, <1>5, <1>9 DEF OlderBackups
  <2> QED BY <1>3, <1>5, <1>8, <2>1, <2>2 DEF OldestPredates
<1> QED BY <1>6, <1>11, <1>12, KeptRows DEF Kept

LEMMA ModifyRevertedKeeps ==
  ASSUME RefInv, TypeOK', NEW x \in table, NEW v \in Value, ModifyReverted(x, v),
         NEW i \in 1 .. Depth, NEW s, s = undo_stack[i]
  PROVE  Kept(s)
<1>1. TypeOK /\ OldestPredates(s)
  BY SessionFacts DEF RefInv, IndInv
<1>2. /\ UNCHANGED <<table, old_values, removed_values>>
      /\ DOMAIN node' = DOMAIN node
      /\ \A y \in DOMAIN node : node'[y].val = node[y].val
  <2>1. node[x] \in Node
    BY <1>1 DEF TypeOK
  <2> QED BY <2>1 DEF ModifyReverted, lists, Node
<1>3. OldRegion(s)' = OldRegion(s) /\ StartIds(s)' = StartIds(s)
  BY <1>2 DEF OldRegion, RemovedIds, RemovedRegion, StartIds
<1> QED BY <1>1, <1>2, <1>3, StartIdsAllocated, RegionAlone

(* remove, and the modifications that erase: a row that sessions remember  *)
(* stays allocated, in front of removed_values.                            *)
LEMMA RemoveNodeKeeps ==
  ASSUME RefInv, TypeOK', NEW x \in table, NEW n \in Node, RemoveNode(x, n),
         NEW i \in 1 .. Depth, NEW s, s = undo_stack[i],
         n.val = node[x].val \/ (x < s.old_next_id => OlderBackups(x, s) # {})
  PROVE  Kept(s)
<1>1. UNCHANGED old_values /\ table' = table \ {x}
  BY DEF RemoveNode
<1>2. /\ TypeOK /\ HeightBounds(removed_values)
      /\ DOMAIN removed_values \subseteq Nat \ {0}
      /\ s.removed_values_end \in DOMAIN removed_values \cup {0}
      /\ RemovedOnce
  BY DEF RefInv, IndInv, TypeOK, EndsPresent
<1>3. /\ OldestPredates(s) /\ s.old_next_id \in Nat /\ Top.old_next_id \in Nat
      /\ s.old_next_id <= Top.old_next_id /\ undo_stack # <<>>
  BY SessionFacts
<1>4. OldRegion(s)' = OldRegion(s)
  BY <1>1 DEF OldRegion
<1>5. x \in Nat /\ x \in DOMAIN node
  BY <1>2 DEF TypeOK, Id
<1>6. CASE IsNew(x)
  <2>1. UNCHANGED removed_values /\ DOMAIN node' = DOMAIN node \ {x}
        /\ \A y \in DOMAIN node' : node'[y] = node[y]
    BY <1>6 DEF RemoveNode, Drop
  <2>2. ~(x < s.old_next_id)
    BY <1>3, <1>5, <1>6 DEF IsNew
  <2>3. StartIds(s)' = StartIds(s) /\ x \notin StartIds(s)
    BY <1>1, <2>1, <2>2 DEF StartIds, RemovedIds, RemovedRegion
  <2>4. \A y \in StartIds(s) : y \in DOMAIN node' /\ node'[y].val = node[y].val
    BY <1>2, <2>1, <2>3, StartIdsAllocated
  <2> QED BY <1>1, <1>2, <1>3, <1>4, <2>3, <2>4, RegionAlone
<1>7. CASE ~IsNew(x)
  <2> DEFINE h == Height(removed_values) + 1
  <2>1. /\ removed_values' = PushFront(removed_values, x)
        /\ DOMAIN node' = DOMAIN node
        /\ \A y \in DOMAIN node : y # x => node'[y] = node[y]
        /\ node'[x].val = n.val
    BY <1>5, <1>7 DEF RemoveNode, Node
  <2>2. /\ h \in Nat \ {0} /\ h \notin DOMAIN removed_values
        /\ DOMAIN removed_values' = DOMAIN removed_values \cup {h}
        /\ removed_values'[h] = x
        /\ \A p \in DOMAIN removed_values : removed_values'[p] = removed_values[p] /\ p < h
    <3>1. /\ h \in Nat \ {0} /\ h \notin DOMAIN removed_values
          /\ DOMAIN PushFront(removed_values, x) = DOMAIN removed_values \cup {h}
          /\ PushFront(removed_values, x)[h] = x
          /\ \A p \in DOMAIN removed_values :
               PushFront(removed_values, x)[p] = removed_values[p] /\ p < h
      BY <1>2, PushFrontFacts
    <3> HIDE DEF h
    <3> QED BY <2>1, <3>1
  <2> HIDE DEF h
  <2>3. RemovedRegion(s)' = RemovedRegion(s) \cup {h}
    <3>1. s.removed_values_end < h
      BY <1>2, <2>2
    <3> QED BY <2>2, <3>1 DEF RemovedRegion
  <2>4. RemovedIds(s)' = RemovedIds(s) \cup {x}
    BY <2>2, <2>3 DEF RemovedIds, RemovedRegion
  <2>5. StartIds(s)' = StartIds(s)
    BY <1>1, <2>4 DEF StartIds
  <2>6. \A y \in StartIds(s) : /\ y \in DOMAIN node'
                               /\ node'[y].val = node[y].val \/ OlderBackups(y, s) # {}
    BY <1>2, <2>1, StartIdsAllocated DEF StartIds
  <2> QED BY <1>1, <1>2, <1>3, <1>4, <2>5, <2>6, RegionAlone
<1> QED BY <1>6, <1>7

LEMMA ModifyErasedKeeps ==
  ASSUME RefInv, TypeOK', RetryRefused = FALSE, NEW x \in table, NEW v \in Value,
         ModifyErased(x, v), NEW i \in 1 .. Depth, NEW s, s = undo_stack[i]
  PROVE  Kept(s)
<1> DEFINE n == [node[x] EXCEPT !.val = v]
<1>1. RemoveNode(x, n) /\ MayModify(x) /\ ~BackedUp(x)
  BY DEF ModifyErased
<1>2. TypeOK
  BY DEF RefInv, IndInv
<1>3. n \in Node /\ node[x].mtime \in Nat
  <2>1. node[x] \in Node
    BY <1>2 DEF TypeOK
  <2>2. n \in Node
    BY <2>1 DEF Node
  <2>3. node[x].mtime \in Mtime
    BY <2>1 DEF Node
  <2> QED BY <2>2, <2>3, UndoIndexAssumption DEF Mtime
<1> HIDE DEF n
<1>4. s.ctime \in Nat /\ Top.ctime \in Nat /\ s.ctime <= Top.ctime /\ undo_stack # <<>>
  BY SessionFacts
<1>5. node[x].mtime >= s.ctime
  BY <1>1, <1>3, <1>4 DEF BackedUp
<1>6. x < s.old_next_id => OlderBackups(x, s) # {}
  BY <1>1, <1>5, BackedWhenStamped
<1> QED BY <1>1, <1>3, <1>6, RemoveNodeKeeps

----------------------------------------------------------------------------
(* undo.  When no two of the rows to be restored share a key, its third    *)
(* loop inserts all of them, in whatever order.                            *)

Back(s) == {x \in RemovedIds(s) : x < s.old_next_id}

LEMMA AllReinserted ==
  ASSUME NEW s, NEW kept, NEW val,
         \A x, y \in kept \cup Back(s) : x # y => ~Conflict(val[x], val[y]),
         kept \cap Back(s) = {},
         \A p, q \in RemovedRegion(s) : removed_values[p] = removed_values[q] => p = q,
         RemovedRegion(s) \subseteq Nat
  PROVE  Reinserted(s, kept, val) = Back(s)
<1> DEFINE R == RemovedRegion(s)
           Enters(f) == [p \in R |->
             LET x == removed_values[p]
             IN /\ x < s.old_next_id
                /\ \A y \in kept : ~Conflict(val[x], val[y])
                /\ \A q \in R :
                     q > p /\ f[q] => ~Conflict(val[x], val[removed_values[q]])]
           all == [p \in R |-> removed_values[p] < s.old_next_id]
           back == {p \in R : removed_values[p] < s.old_next_id}
           f == CHOOSE f : f = Enters(f)
<1>1. \A p \in R : removed_values[p] < s.old_next_id => removed_values[p] \in Back(s)
  BY DEF Back, RemovedIds
<1>2. ASSUME NEW p \in R, removed_values[p] < s.old_next_id,
             NEW q \in R, q > p, removed_values[q] < s.old_next_id
      PROVE  ~Conflict(val[removed_values[p]], val[removed_values[q]])
  <2>1. removed_values[p] # removed_values[q]
    BY <1>2
  <2> QED BY <1>1, <1>2, <2>1
<1>3. ASSUME NEW p \in R, removed_values[p] < s.old_next_id, NEW y \in kept
      PROVE  ~Conflict(val[removed_values[p]], val[y])
  <2>1. removed_values[p] # y
    BY <1>1, <1>3
  <2> QED BY <1>1, <1>3, <2>1
<1>4. Enters(all) = all
  <2>1. \A p \in R : Enters(all)[p] <=> all[p]
    BY <1>2, <1>3
  <2>2. \A p \in R : Enters(all)[p] \in BOOLEAN /\ all[p] \in BOOLEAN
    OBVIOUS
  <2> QED BY <2>1, <2>2
<1>5. f = Enters(f)
  BY <1>4
<1>6. ASSUME NEW g, g = Enters(g), NEW p \in back
      PROVE  g[p]
  <2>1. \A q \in R : g[q] => removed_values[q] < s.old_next_id
    BY <1>6
  <2>2. \A q \in R : q > p /\ g[q] =>
          ~Conflict(val[removed_values[p]], val[removed_values[q]])
    BY <1>2, <1>6, <2>1
  <2>3. g[p] = Enters(g)[p]
    BY <1>6
  <2>4. Enters(g)[p]
    BY <1>3, <1>6, <2>2
  <2> QED BY <2>3, <2>4
<1>7. \A p \in back : f[p]
  BY <1>5, <1>6
<1>8. Reinserted(s, kept, val) = {removed_values[p] : p \in {p \in back : f[p]}}
  BY DEF Reinserted
<1>9. {p \in back : f[p]} = back
  BY <1>7
<1> HIDE DEF f
<1>10. {removed_values[p] : p \in back} = Back(s)
  BY DEF Back, RemovedIds
<1> QED BY <1>8, <1>9, <1>10

(* undo makes the table what it was when the session began. *)
LEMMA UndoFacts ==
  ASSUME RefInv, Undo
  PROVE  /\ undo_stack # <<>>
         /\ table' = StartIds(Top)
         /\ StartIds(Top) \subseteq DOMAIN node'
         /\ DOMAIN node' = (DOMAIN node \ {x \in table : x >= Top.old_next_id})
                             \ (RemovedIds(Top) \ Back(Top))
         /\ \A x \in DOMAIN node' :
              /\ node'[x].val = WrittenBack(x, Top).val
              /\ node'[x].erased = IF x \in Back(Top) THEN FALSE ELSE node[x].erased
         /\ DOMAIN old_values' = DOMAIN old_values \ OldRegion(Top)
         /\ \A p \in DOMAIN old_values' : old_values'[p] = old_values[p]
         /\ DOMAIN removed_values' = DOMAIN removed_values \ RemovedRegion(Top)
         /\ \A p \in DOMAIN removed_values' : removed_values'[p] = removed_values[p]
<1> DEFINE s == Top
           new_ids == {x \in table : x >= s.old_next_id}
           back == {x \in RemovedIds(s) : x < s.old_next_id}
           val == [x \in DOMAIN node |-> WrittenBack(x, s).val]
           kept == table \ new_ids
<1>1. /\ undo_stack # <<>>
      /\ table' = kept \cup Reinserted(s, kept, val)
      /\ DOMAIN old_values' = DOMAIN old_values \ OldRegion(s)
      /\ \A p \in DOMAIN old_values' : old_values'[p] = old_values[p]
      /\ DOMAIN removed_values' = DOMAIN removed_values \ RemovedRegion(s)
      /\ \A p \in DOMAIN removed_values' : removed_values'[p] = removed_values[p]
      /\ DOMAIN node' = DOMAIN node \ (new_ids \cup (RemovedIds(s) \ back))
      /\ \A x \in DOMAIN node' :
           node'[x] = IF x \in back THEN [WrittenBack(x, s) EXCEPT !.erased = FALSE]
                      ELSE WrittenBack(x, s)
  BY DEF Undo, Drop
<1>2. back = Back(s)
  BY DEF Back
<1>3. /\ TypeOK /\ RemovedOnce /\ Depth \in 1 .. Depth /\ s = undo_stack[Depth]
      /\ s.old_next_id \in Nat /\ UniqueRows(RowsAtStart(s))
  <2>1. Depth \in 1 .. Depth
    BY <1>1, StackFacts DEF RefInv, IndInv
  <2> QED BY <2>1, StackFacts DEF RefInv, IndInv, Top
<1> HIDE DEF s
<1>4. /\ RemovedIds(s) \subseteq AllRemoved /\ AllRemoved \subseteq DOMAIN node
      /\ table \subseteq DOMAIN node /\ DOMAIN node \subseteq Nat
      /\ RemovedRegion(s) \subseteq Nat
  BY <1>3 DEF RemovedIds, RemovedRegion, AllRemoved, TypeOK, Id
<1>5. kept \cup Back(s) = StartIds(s)
  BY <1>3, <1>4 DEF Back, StartIds
<1>6. \A x, y \in StartIds(s) : x # y => ~Conflict(val[x], val[y])
  <2>1. DOMAIN RowsAtStart(s) = StartIds(s)
        /\ \A x \in StartIds(s) : RowsAtStart(s)[x] = WrittenBack(x, s).val
    BY DEF RowsAtStart, StartIds
  <2>2. \A x \in StartIds(s) : val[x] = WrittenBack(x, s).val
    BY <1>3, StartIdsAllocated
  <2> QED BY <1>3, <2>1, <2>2 DEF UniqueRows
<1>7. kept \cap Back(s) = {}
  BY <1>3, <1>4 DEF RemovedOnce, Back
<1>8. \A p, q \in RemovedRegion(s) : removed_values[p] = removed_values[q] => p = q
  BY <1>3 DEF RemovedOnce, RemovedRegion
<1>9. table' = StartIds(s)
  <2> HIDE DEF kept, val
  <2>1. Reinserted(s, kept, val) = Back(s)
    BY <1>4, <1>5, <1>6, <1>7, <1>8, AllReinserted
  <2> QED BY <1>1, <1>5, <2>1
<1>10. StartIds(s) \subseteq DOMAIN node'
  <2>1. StartIds(s) \subseteq DOMAIN node
    BY <1>3, StartIdsAllocated
  <2>2. \A x \in StartIds(s) : x \notin new_ids /\ x \notin RemovedIds(s) \ back
    BY <1>3, <1>4 DEF StartIds
  <2> QED BY <1>1, <2>1, <2>2
<1>11. ASSUME NEW x \in DOMAIN node'
       PROVE  /\ node'[x].val = WrittenBack(x, s).val
              /\ node'[x].erased = IF x \in Back(s) THEN FALSE ELSE node[x].erased
  <2>1. x \in DOMAIN node /\ OlderBackups(x, s) \in SUBSET DOMAIN old_values
    BY <1>1 DEF OlderBackups, OldRegion
  <2>2. WrittenBack(x, s) \in Node /\ WrittenBack(x, s).erased = node[x].erased
    BY <1>3, <2>1, RestoredFacts, ValueFrom DEF WrittenBack
  <2>3. \A n \in Node : /\ [n EXCEPT !.erased = FALSE].val = n.val
                        /\ [n EXCEPT !.erased = FALSE].erased = FALSE
    BY DEF Node
  <2>4. node'[x] = IF x \in Back(s) THEN [WrittenBack(x, s) EXCEPT !.erased = FALSE]
                   ELSE WrittenBack(x, s)
    BY <1>1, <1>2
  <2>5. CASE x \in Back(s)
    <3>1. node'[x] = [WrittenBack(x, s) EXCEPT !.erased = FALSE]
      BY <2>4, <2>5
    <3>2. node'[x].val = WrittenBack(x, s).val /\ node'[x].erased = FALSE
      BY <2>2, <2>3, <3>1
    <3> QED BY <2>5, <3>2
  <2>6. CASE x \notin Back(s)
    BY <2>2, <2>4, <2>6
  <2> QED BY <2>5, <2>6
<1> QED BY <1>1, <1>2, <1>9, <1>10, <1>11 DEF s

LEMMA UndoKeeps ==
  ASSUME RefInv, TypeOK', Undo, NEW i \in 1 .. Depth - 1, NEW s, s = undo_stack[i]
  PROVE  Kept(s)
<1>0. undo_stack # <<>> /\ Depth \in Nat /\ i \in 1 .. Depth
  <2>1. undo_stack # <<>>
    BY UndoFacts
  <2>2. Depth \in Nat
    BY StackFacts DEF RefInv, IndInv
  <2>3. i \in 1 .. Depth
    BY <2>2
  <2> QED BY <2>1, <2>2, <2>3
<1> PICK t : t = Top
  OBVIOUS
<1>1. /\ DOMAIN old_values' = DOMAIN old_values \ OldRegion(t)
      /\ \A p \in DOMAIN old_values' : old_values'[p] = old_values[p]
      /\ DOMAIN removed_values' = DOMAIN removed_values \ RemovedRegion(t)
      /\ \A p \in DOMAIN removed_values' : removed_values'[p] = removed_values[p]
      /\ table' = StartIds(t) /\ StartIds(t) \subseteq DOMAIN node'
      /\ \A x \in DOMAIN node' : node'[x].val = WrittenBack(x, t).val
  BY UndoFacts
<1>2. /\ TypeOK /\ RemovedOnce
      /\ DOMAIN old_values \subseteq Nat /\ DOMAIN removed_values \subseteq Nat
      /\ \A p \in DOMAIN old_values : old_values[p].mtime \in Nat
      /\ table \subseteq Nat
  <2>1. \A p \in DOMAIN old_values : old_values[p] \in OldNode
    BY DEF RefInv, IndInv, TypeOK
  <2>2. \A b \in OldNode : b.mtime \in Nat
    BY UndoIndexAssumption DEF OldNode, Mtime
  <2> QED BY <2>1, <2>2 DEF RefInv, IndInv, TypeOK, Id
<1>3. /\ s.old_values_end \in Nat /\ s.removed_values_end \in Nat
      /\ s.old_next_id \in Nat /\ s.ctime \in Nat /\ OldestPredates(s)
  BY <1>0, SessionFacts
<1>4. /\ t.old_values_end \in Nat /\ t.removed_values_end \in Nat
      /\ t.old_next_id \in Nat /\ t.ctime \in Nat
  BY <1>0, SessionFacts DEF Top
<1>5. /\ s.old_values_end <= t.old_values_end
      /\ s.removed_values_end <= t.removed_values_end
      /\ s.old_next_id <= t.old_next_id /\ s.ctime < t.ctime
  <2>1. Depth \in 1 .. Depth /\ i < Depth
    BY <1>0
  <2> QED BY <1>0, <2>1 DEF RefInv, IndInv, EndsPresent, StackOrdered, Top
<1>6. OldRegion(s)' = OldRegion(s) \ OldRegion(t)
  BY <1>1 DEF OldRegion
<1>7. OldRegion(t) \subseteq OldRegion(s)
  BY <1>2, <1>3, <1>4, <1>5 DEF OldRegion
<1>8. \A p \in OldRegion(s)', q \in OldRegion(t) : p < q
  BY <1>2, <1>4, <1>6 DEF OldRegion
<1>9. StartIds(s)' = StartIds(s)
  <2>1. RemovedRegion(t) \subseteq RemovedRegion(s)
        /\ RemovedRegion(s)' = RemovedRegion(s) \ RemovedRegion(t)
    BY <1>1, <1>2, <1>3, <1>4, <1>5 DEF RemovedRegion
  <2>2. RemovedIds(s)' = RemovedIds(s) \ RemovedIds(t)
    BY <1>1, <1>2, <2>1 DEF RemovedIds, RemovedOnce, RemovedRegion
  <2>3. RemovedIds(t) \subseteq RemovedIds(s)
    BY <2>1 DEF RemovedIds
  <2>4. \A x \in table \cup RemovedIds(s) : x < s.old_next_id => x < t.old_next_id
    <3>1. RemovedIds(s) \subseteq Nat
      BY <1>2 DEF RemovedIds, RemovedRegion, TypeOK, Id
    <3> QED BY <1>2, <1>3, <1>4, <1>5, <3>1
  <2> QED BY <1>1, <2>2, <2>3, <2>4 DEF StartIds
<1>10. ASSUME NEW x
       PROVE  /\ OlderBackups(x, s)' = OlderBackups(x, s) \ OldRegion(t)
              /\ OlderBackups(x, s) \cap OldRegion(t) \subseteq OlderBackups(x, t)
              /\ OlderBackups(x, s) \subseteq DOMAIN old_values
              /\ OlderBackups(x, t) \subseteq OldRegion(t)
  <2>1. OlderBackups(x, s)' = OlderBackups(x, s) \ OldRegion(t)
    BY <1>1, <1>6 DEF OlderBackups, OldRegion
  <2>2. OlderBackups(x, s) \cap OldRegion(t) \subseteq OlderBackups(x, t)
    BY <1>2, <1>3, <1>4, <1>5 DEF OlderBackups, OldRegion
  <2> QED BY <2>1, <2>2 DEF OlderBackups, OldRegion
<1>11. ASSUME NEW x \in StartIds(s), OlderBackups(x, s)' = {}
       PROVE  \/ OlderBackups(x, s) = {} /\ node'[x].val = node[x].val
              \/ \E m : IsOldest(m, OlderBackups(x, s)) /\ node'[x].val = old_values[m].val
  <2> DEFINE O == OlderBackups(x, s)
             T == OlderBackups(x, t)
  <2>1. O \subseteq T
    BY <1>10, <1>11
  <2>2. /\ x \in DOMAIN node /\ x \in DOMAIN node' /\ x < s.old_next_id
        /\ T \in SUBSET DOMAIN old_values /\ T \subseteq Nat
    <3>1. x \in StartIds(s)'
      BY <1>9
    <3>2. x \in table' \cup AllRemoved'
      BY <3>1 DEF StartIds, RemovedIds, RemovedRegion, AllRemoved
    <3>3. x \in DOMAIN node'
      BY <3>2 DEF TypeOK, AllRemoved
    <3> QED BY <1>2, <3>3, StartIdsAllocated DEF StartIds
  <2>3. node'[x].val = WrittenBack(x, t).val
    BY <1>1, <2>2
  <2>4. CASE T = {}
    <3>1. WrittenBack(x, t).val = node[x].val
      BY <1>2, <2>2, <2>4, ValueFrom DEF WrittenBack
    <3> QED BY <2>1, <2>3, <2>4, <3>1
  <2>5. CASE T # {}
    <3>1. PICK m : IsOldest(m, T)
      BY <2>2, <2>5, OldestExists
    <3>2. WrittenBack(x, t).val = old_values[m].val
      BY <1>2, <2>2, <3>1, ValueFrom DEF WrittenBack
    <3>3. /\ m \in OldRegion(t) /\ m \in OldRegion(s) /\ m \in DOMAIN old_values
          /\ old_values[m].id = x /\ m \in Nat
      BY <1>7, <2>2, <3>1 DEF IsOldest, OlderBackups, OldRegion
    <3>4. old_values[m].mtime < s.ctime
      <4>1. SUFFICES ASSUME old_values[m].mtime >= s.ctime PROVE FALSE
        BY <1>2, <1>3, <3>3
      <4>2. PICK q \in OldRegion(s) : /\ q < m /\ old_values[q].id = x
                                      /\ old_values[q].mtime < s.ctime
        BY <1>3, <2>2, <3>3, <4>1 DEF OldestPredates
      <4>3. q \in O
        BY <4>2 DEF OlderBackups
      <4>4. m <= q /\ q \in Nat
        BY <2>1, <2>2, <3>1, <4>3 DEF IsOldest
      <4> QED BY <3>3, <4>2, <4>4
    <3>5. IsOldest(m, O)
      BY <2>1, <3>1, <3>3, <3>4 DEF IsOldest, OlderBackups
    <3> QED BY <2>3, <3>2, <3>5
  <2> QED BY <2>4, <2>5
<1>12. OldestPredates(s)'
  <2> SUFFICES ASSUME NEW p \in OldRegion(s)',
                      old_values'[p].id < s.old_next_id, old_values'[p].mtime >= s.ctime
               PROVE  \E q \in OldRegion(s)' : /\ q < p /\ old_values'[q].id = old_values'[p].id
                                               /\ old_values'[q].mtime < s.ctime
    BY DEF OldestPredates
  <2>1. p \in OldRegion(s) /\ old_values'[p] = old_values[p] /\ p \in DOMAIN old_values
    BY <1>1, <1>6 DEF OldRegion
  <2>2. PICK q \in OldRegion(s) : /\ q < p /\ old_values[q].id = old_values[p].id
                                  /\ old_values[q].mtime < s.ctime
    BY <1>3, <2>1 DEF OldestPredates
  <2>3. q \notin OldRegion(t)
    BY <1>2, <1>8, <2>1, <2>2 DEF OldRegion
  <2>4. q \in OldRegion(s)' /\ old_values'[q] = old_values[q]
    BY <1>1, <1>6, <2>3 DEF OldRegion
  <2> QED BY <2>1, <2>2, <2>4
<1>13. OldRegion(s)' \subseteq OldRegion(s)
       /\ \A p \in OldRegion(s)' : old_values'[p] = old_values[p]
  BY <1>1, <1>6 DEF OldRegion
<1>14. \A x \in StartIds(s) : \A p \in OlderBackups(x, s) : \A q \in OlderBackups(x, s)' :
         p \in OlderBackups(x, s)' \/ q < p
  BY <1>8, <1>10 DEF OlderBackups
<1>15. StartIds(s) \subseteq DOMAIN node'
  <2>1. StartIds(s)' \subseteq table' \cup AllRemoved'
    BY DEF StartIds, RemovedIds, RemovedRegion, AllRemoved
  <2> QED BY <1>9, <2>1 DEF TypeOK, AllRemoved
<1> QED BY <1>2, <1>9, <1>11, <1>12, <1>13, <1>14, <1>15, RegionCut

----------------------------------------------------------------------------
(* compress_impl on behalf of session t: what it drops from the newest     *)
(* region was not made by the first modification of a row in t, or it goes *)
(* into the removed row, with the older ones of that region.               *)
LEMMA CompressKeeps ==
  ASSUME RefInv, TypeOK', NEW j \in 1 .. Depth, NEW t, t = undo_stack[j],
         Compress(t), UNCHANGED table,
         NEW i \in 1 .. j, NEW s, s = undo_stack[i]
  PROVE  Kept(s)
<1> DEFINE N == OldRegion(Top)
           Sup == Superfluous(t)
           Fold == FoldedBackups(t)
           gone == {p \in RemovedRegion(Top) : removed_values[p] >= t.old_next_id}
<1>0. Depth \in Nat /\ i \in 1 .. Depth /\ undo_stack # <<>>
  <2>1. Depth \in Nat
    BY StackFacts DEF RefInv, IndInv
  <2>2. i \in 1 .. Depth
    BY <2>1
  <2> QED BY <2>1, <2>2, SessionFacts
<1>1. /\ DOMAIN old_values' = DOMAIN old_values \ (Sup \cup Fold)
      /\ \A p \in DOMAIN old_values' : old_values'[p] = old_values[p]
      /\ DOMAIN removed_values' = DOMAIN removed_values \ gone
      /\ \A p \in DOMAIN removed_values' : removed_values'[p] = removed_values[p]
      /\ DOMAIN node' = DOMAIN node \ {removed_values[p] : p \in gone}
      /\ \A x \in DOMAIN node' :
           node'[x] = RestoredFrom(x, {p \in Fold : old_values[p].id = x})
  BY DEF Compress, Drop, FoldedInto
<1>2. /\ TypeOK
      /\ DOMAIN old_values \subseteq Nat
      /\ \A p \in DOMAIN old_values : old_values[p].mtime \in Nat
  <2>1. \A p \in DOMAIN old_values : old_values[p] \in OldNode
    BY DEF RefInv, IndInv, TypeOK
  <2>2. \A b \in OldNode : b.mtime \in Nat
    BY UndoIndexAssumption DEF OldNode, Mtime
  <2> QED BY <2>1, <2>2 DEF RefInv, IndInv, TypeOK
<1>3. /\ s.old_values_end \in Nat /\ s.removed_values_end \in Nat
      /\ s.old_next_id \in Nat /\ s.ctime \in Nat /\ OldestPredates(s)
  BY <1>0, SessionFacts
<1>4. t.old_next_id \in Nat /\ t.ctime \in Nat
  BY SessionFacts
<1>5. s.old_next_id <= t.old_next_id /\ s.ctime <= t.ctime
  <2>1. CASE i = j
    BY <1>4, <2>1
  <2>2. CASE i < j
    BY <1>0, <1>3, <1>4, <2>2 DEF RefInv, IndInv, StackOrdered
  <2> QED BY <1>0, <2>1, <2>2
<1>6. Top.old_values_end \in Nat
      /\ N \subseteq DOMAIN old_values
      /\ N = {p \in DOMAIN old_values : p > Top.old_values_end}
  BY <1>0, TopRegion DEF RefInv, OldRegion
<1>7. /\ \A p \in Sup : p \in N /\ old_values[p].mtime >= t.ctime
      /\ \A p \in N : p \in Sup \/ old_values[p].mtime < t.ctime
      /\ Fold \subseteq N /\ Sup \subseteq N
      /\ \A p \in Fold : p \notin Sup /\ node[old_values[p].id].erased
      /\ \A p \in N : p \notin Sup /\ node[old_values[p].id].erased => p \in Fold
  BY <1>2, <1>4, <1>6 DEF Superfluous, FoldedBackups
<1> HIDE DEF N, Sup, Fold
<1>8. /\ OldRegion(s)' = OldRegion(s) \ (Sup \cup Fold)
      /\ \A p \in OldRegion(s)' : old_values'[p] = old_values[p]
      /\ OldRegion(s) \subseteq DOMAIN old_values
  BY <1>1 DEF OldRegion
<1>9. StartIds(s)' = StartIds(s) /\ StartIds(s) \subseteq DOMAIN node'
  <2>1. \A p \in gone : ~(removed_values[p] < s.old_next_id)
    <3>1. \A p \in gone : removed_values[p] \in Nat /\ removed_values[p] >= t.old_next_id
      BY <1>2 DEF RemovedRegion, TypeOK, Id
    <3> QED BY <1>3, <1>4, <1>5, <3>1
  <2>2. RemovedRegion(s)' = RemovedRegion(s) \ gone
        /\ \A p \in RemovedRegion(s)' : removed_values'[p] = removed_values[p]
    BY <1>1 DEF RemovedRegion
  <2> HIDE DEF gone
  <2>3. StartIds(s)' = StartIds(s)
    BY <2>1, <2>2 DEF StartIds, RemovedIds
  <2>4. StartIds(s) \subseteq DOMAIN node
    BY <1>2, StartIdsAllocated
  <2> QED BY <1>1, <2>1, <2>3, <2>4 DEF StartIds
<1> HIDE DEF gone
<1>10. ASSUME NEW x
       PROVE  /\ OlderBackups(x, s)' = OlderBackups(x, s) \ {p \in Fold : old_values[p].id = x}
              /\ OlderBackups(x, s) \subseteq DOMAIN old_values
  <2>1. OlderBackups(x, s) \cap Sup = {}
    BY <1>2, <1>3, <1>4, <1>5, <1>7, <1>8 DEF OlderBackups
  <2>2. \A p \in OlderBackups(x, s) : old_values[p].id = x
    BY DEF OlderBackups
  <2>3. OlderBackups(x, s)' = OlderBackups(x, s) \ (Sup \cup Fold)
    BY <1>8 DEF OlderBackups
  <2> QED BY <1>8, <2>1, <2>2, <2>3 DEF OlderBackups
<1>11. ASSUME NEW x, NEW p \in OlderBackups(x, s), NEW q \in OlderBackups(x, s)'
       PROVE  p \in OlderBackups(x, s)' \/ q < p
  <2>1. SUFFICES ASSUME p \in Fold PROVE q < p
    BY <1>10
  <2>2. /\ q \in DOMAIN old_values /\ q \notin Fold /\ q \notin Sup
        /\ old_values[q].id = x /\ old_values[p].id = x
    BY <1>8 DEF OlderBackups
  <2>3. q \notin N
    BY <1>7, <2>1, <2>2
  <2>4. p \in N
    BY <1>7, <2>1
  <2> QED BY <1>2, <1>6, <2>2, <2>3, <2>4
<1>12. ASSUME NEW x \in StartIds(s), OlderBackups(x, s)' = {}
       PROVE  \/ OlderBackups(x, s) = {} /\ node'[x].val = node[x].val
              \/ \E m : IsOldest(m, OlderBackups(x, s)) /\ node'[x].val = old_values[m].val
  <2> DEFINE O == OlderBackups(x, s)
             F == {p \in Fold : old_values[p].id = x}
  <2>1. O \subseteq F
    BY <1>10, <1>12
  <2>2. /\ x \in DOMAIN node /\ x \in DOMAIN node' /\ x < s.old_next_id
        /\ F \in SUBSET DOMAIN old_values /\ F \subseteq Nat
    BY <1>2, <1>6, <1>7, <1>9, StartIdsAllocated DEF StartIds
  <2>3. node'[x].val = RestoredFrom(x, F).val
    BY <1>1, <2>2
  <2>4. CASE F = {}
    <3>1. RestoredFrom(x, F).val = node[x].val
      BY <1>2, <2>2, <2>4, ValueFrom
    <3> QED BY <2>1, <2>3, <2>4, <3>1
  <2>5. CASE F # {}
    <3>1. PICK m : IsOldest(m, F)
      BY <2>2, <2>5, OldestExists
    <3>2. RestoredFrom(x, F).val = old_values[m].val
      BY <1>2, <2>2, <3>1, ValueFrom
    <3>3. /\ m \in N /\ m \in DOMAIN old_values /\ old_values[m].id = x /\ m \in Nat
      BY <1>2, <1>6, <1>7, <3>1 DEF IsOldest
    <3>4. m \in OldRegion(s)
      <4>1. N \subseteq OldRegion(s)
        BY <1>0, TopRegion DEF RefInv, N
      <4> QED BY <3>3, <4>1
    <3>5. old_values[m].mtime < s.ctime
      <4>1. SUFFICES ASSUME old_values[m].mtime >= s.ctime PROVE FALSE
        BY <1>2, <1>3, <3>3
      <4>2. PICK q \in OldRegion(s) : /\ q < m /\ old_values[q].id = x
                                      /\ old_values[q].mtime < s.ctime
        BY <1>3, <2>2, <3>3, <3>4, <4>1 DEF OldestPredates
      <4>3. q \in O
        BY <4>2 DEF OlderBackups
      <4>4. m <= q /\ q \in Nat
        BY <2>1, <2>2, <3>1, <4>3 DEF IsOldest
      <4> QED BY <3>3, <4>2, <4>4
    <3>6. IsOldest(m, O)
      BY <2>1, <3>1, <3>3, <3>4, <3>5 DEF IsOldest, OlderBackups
    <3> QED BY <2>3, <3>2, <3>6
  <2> QED BY <2>4, <2>5
<1>13. OldestPredates(s)'
  <2> SUFFICES ASSUME NEW p \in OldRegion(s)',
                      old_values'[p].id < s.old_next_id, old_values'[p].mtime >= s.ctime
               PROVE  \E q \in OldRegion(s)' : /\ q < p /\ old_values'[q].id = old_values'[p].id
                                               /\ old_values'[q].mtime < s.ctime
    BY DEF OldestPredates
  <2>1. /\ p \in OldRegion(s) /\ old_values'[p] = old_values[p]
        /\ p \in DOMAIN old_values /\ p \notin Sup /\ p \notin Fold
    BY <1>8
  <2>2. PICK q \in OldRegion(s) : /\ q < p /\ old_values[q].id = old_values[p].id
                                  /\ old_values[q].mtime < s.ctime
    BY <1>3, <2>1 DEF OldestPredates
  <2>3. q \in DOMAIN old_values /\ q \in Nat /\ p \in Nat
    BY <1>2, <1>8, <2>1
  <2>4. q \notin Sup
    BY <1>2, <1>3, <1>4, <1>5, <1>7, <2>2, <2>3
  <2>5. q \notin Fold
    <3>1. SUFFICES ASSUME q \in Fold PROVE FALSE
      OBVIOUS
    <3>2. q \in N /\ node[old_values[p].id].erased
      BY <1>7, <2>2, <3>1
    <3>3. p \in N
      BY <1>6, <2>1, <2>2, <2>3, <3>2
    <3> QED BY <1>7, <2>1, <3>2, <3>3
  <2>6. q \in OldRegion(s)' /\ old_values'[q] = old_values[q]
    BY <1>8, <2>4, <2>5
  <2> QED BY <2>1, <2>2, <2>6
<1> QED BY <1>2, <1>8, <1>9, <1>11, <1>12, <1>13, RegionCut

(* commit keeps all that is in front of the oldest remaining session, and  *)
(* destroys nodes that were removed before it.                             *)
LEMMA CommitKeeps ==
  ASSUME RefInv, TypeOK', NEW r \in 0 .. MaxRevision, Commit(r), ~(r >= revision),
         NEW i \in Depth - (revision - r) + 1 .. Depth, NEW s, s = undo_stack[i]
  PROVE  i \in 1 .. Depth /\ Kept(s)
<1> DEFINE first == Depth - (revision - r) + 1
<1>1. /\ Depth \in Nat /\ first \in 1 .. Depth /\ i \in 1 .. Depth /\ first <= i
      /\ revision - r < Depth
  <2>1. Depth \in Nat /\ revision \in Nat /\ r \in Nat /\ Depth <= revision
    BY StackFacts, UndoIndexAssumption DEF RefInv, IndInv, TypeOK, RangeExists
  <2>2. revision - r < Depth
    BY DEF Commit
  <2> QED BY <2>1, <2>2
<1> PICK t : t = undo_stack[first]
  OBVIOUS
<1> DEFINE oldKept == KeptFrom(old_values, t.old_values_end)
           removedKept == KeptFrom(removed_values, t.removed_values_end)
           gone == DOMAIN removed_values \ removedKept
<1>2. Dispose(oldKept, removedKept) /\ UNCHANGED table
  BY DEF Commit
<1>3. /\ DOMAIN old_values' = DOMAIN old_values \cap oldKept
      /\ \A p \in DOMAIN old_values' : old_values'[p] = old_values[p]
      /\ DOMAIN removed_values' = DOMAIN removed_values \cap removedKept
      /\ \A p \in DOMAIN removed_values' : removed_values'[p] = removed_values[p]
      /\ DOMAIN node' = DOMAIN node \ {removed_values[p] : p \in gone}
      /\ \A x \in DOMAIN node' : node'[x] = node[x]
  BY <1>2 DEF Dispose, Keep, Drop
<1>4. /\ TypeOK /\ RemovedOnce
      /\ DOMAIN old_values \subseteq Nat /\ DOMAIN removed_values \subseteq Nat
  BY DEF RefInv, IndInv, TypeOK
<1>5. /\ s.old_values_end \in Nat /\ s.removed_values_end \in Nat /\ OldestPredates(s)
  BY <1>1, SessionFacts
<1>6. t.old_values_end \in Nat /\ t.removed_values_end \in Nat
  BY <1>1, SessionFacts
<1>7. t.old_values_end <= s.old_values_end /\ t.removed_values_end <= s.removed_values_end
  <2>1. first \in 1 .. i
    BY <1>1
  <2> HIDE DEF first
  <2> QED BY <1>1, <2>1 DEF RefInv, IndInv, EndsPresent
<1> HIDE DEF first
<1>8. OldRegion(s) \subseteq oldKept /\ RemovedRegion(s) \subseteq removedKept
  BY <1>4, <1>5, <1>6, <1>7 DEF OldRegion, RemovedRegion, KeptFrom
<1>9. \A p \in gone : p \notin RemovedRegion(s)
  BY <1>8
<1> HIDE DEF oldKept, removedKept
<1>10. OldRegion(s)' = OldRegion(s) /\ \A p \in OldRegion(s) : old_values'[p] = old_values[p]
  BY <1>3, <1>8 DEF OldRegion
<1>11. RemovedRegion(s)' = RemovedRegion(s)
       /\ \A p \in RemovedRegion(s) : removed_values'[p] = removed_values[p]
  BY <1>3, <1>8 DEF RemovedRegion
<1>12. StartIds(s)' = StartIds(s)
  BY <1>2, <1>11 DEF StartIds, RemovedIds
<1>13. \A p \in gone : removed_values[p] \notin StartIds(s)
  <2>1. \A p \in gone : removed_values[p] \notin table
    BY <1>4 DEF RemovedOnce, AllRemoved
  <2>2. \A p \in gone : removed_values[p] \notin RemovedIds(s)
    BY <1>4, <1>9 DEF RemovedOnce, RemovedIds, RemovedRegion
  <2> QED BY <2>1, <2>2 DEF StartIds
<1>14. \A x \in StartIds(s) : x \in DOMAIN node' /\ node'[x].val = node[x].val
  BY <1>3, <1>4, <1>13, StartIdsAllocated
<1> QED BY <1>1, <1>4, <1>5, <1>10, <1>12, <1>14, RegionAlone

----------------------------------------------------------------------------
(* What each operation does to the rows, and that no node is lost.         *)

LEMMA KeysUniqueRows == KeysUnique <=> UniqueRows(Rows)
BY DEF KeysUnique, UniqueRows, Rows

LEMMA Accounted ==
  ASSUME RefInv
  PROVE  /\ TypeOK /\ RemovedOnce /\ DOMAIN node = table \cup AllRemoved
         /\ \A x \in table : x \in DOMAIN node /\ node[x] \in Node /\ ~node[x].erased
                             /\ x \in Id /\ x \in Nat /\ x < next_id
         /\ \A x \in AllRemoved : x \in DOMAIN node /\ node[x].erased /\ x \in Nat
                                  /\ x < next_id /\ x \notin table
         /\ next_id \in Nat /\ KeysUnique
BY UndoIndexAssumption DEF RefInv, IndInv, NodesAccounted, TypeOK, RemovedOnce, StackOrdered, Id

(* The rows stay, and so do the nodes. *)
LEMMA RowsAlone ==
  ASSUME RefInv, UNCHANGED table, \A x \in table : node'[x].val = node[x].val
  PROVE  Rows' = Rows /\ KeysUnique'
<1>1. Rows' = Rows
  BY DEF Rows
<1> QED BY <1>1 DEF KeysUnique, RefInv

LEMMA NodesAlone ==
  ASSUME RefInv, RemovedOnce', UNCHANGED <<table, removed_values>>,
         DOMAIN node' = DOMAIN node,
         \A x \in DOMAIN node : node'[x].erased = node[x].erased
  PROVE  NodesAccounted'
BY DEF RefInv, NodesAccounted, RemovedOnce, AllRemoved

LEMMA EmplaceRows ==
  ASSUME RefInv, RemovedOnce', NEW v \in Value, Emplace(v)
  PROVE  /\ NodesAccounted' /\ KeysUnique'
         /\ DOMAIN Rows' = DOMAIN Rows \cup {next_id}
         /\ Rows' = [x \in DOMAIN Rows \cup {next_id} |->
                       IF x = next_id THEN v ELSE Rows[x]]
<1>1. /\ table' = table \cup {next_id} /\ UNCHANGED removed_values
      /\ DOMAIN node' = DOMAIN node \cup {next_id}
      /\ \A y \in DOMAIN node : y # next_id => node'[y] = node[y]
      /\ node'[next_id] = [val |-> v, mtime |-> NewMtime, erased |-> FALSE]
      /\ Fits(v, next_id)
  BY DEF Emplace, lists
<1>2. next_id \notin DOMAIN node /\ next_id \notin table /\ next_id \notin AllRemoved
  BY Accounted
<1>3. AllRemoved' = AllRemoved
  BY <1>1 DEF AllRemoved
<1>4. \A y \in table : node'[y].val = node[y].val
  BY <1>1, <1>2, Accounted
<1>5. node'[next_id].val = v /\ ~node'[next_id].erased
  BY <1>1
<1>6. NodesAccounted'
  <2>1. DOMAIN node' = table' \cup AllRemoved'
    BY <1>1, <1>3, Accounted
  <2>2. \A x \in DOMAIN node' : node'[x].erased <=> x \in AllRemoved'
    BY <1>1, <1>2, <1>3, <1>5 DEF RefInv, NodesAccounted
  <2> QED BY <2>1, <2>2 DEF NodesAccounted, RemovedOnce
<1>7. KeysUnique'
  <2>1. \A y \in table : ~Conflict(v, node[y].val) /\ ~Conflict(node[y].val, v)
    BY <1>1, <1>2 DEF Fits, Conflict
  <2> QED BY <1>1, <1>4, <1>5, <2>1 DEF RefInv, KeysUnique
<1>8. Rows' = [x \in table \cup {next_id} |-> IF x = next_id THEN v ELSE Rows[x]]
  BY <1>1, <1>2, <1>4, <1>5 DEF Rows
<1>9. DOMAIN Rows = table
  BY DEF Rows
<1> QED BY <1>6, <1>7, <1>8, <1>9

LEMMA ModifyRows ==
  ASSUME RefInv, RemovedOnce', NEW x \in table, NEW v \in Value, Modify(x, v)
  PROVE  /\ NodesAccounted' /\ KeysUnique'
         /\ Rows' = [Rows EXCEPT ![x] = v]
<1>1. UNCHANGED <<table, removed_values>> /\ Fits(v, x)
  BY DEF Modify
<1>2. /\ DOMAIN node' = DOMAIN node
      /\ \A y \in DOMAIN node : /\ node'[y].erased = node[y].erased
                                /\ node'[y].val = IF y = x THEN v ELSE node[y].val
  <2>1. x \in DOMAIN node /\ node[x] \in Node
    BY Accounted
  <2>2. /\ [node[x] EXCEPT !.val = v,
                          !.mtime = IF BackedUp(x) THEN monotonic_revision ELSE @].val = v
        /\ [node[x] EXCEPT !.val = v,
                          !.mtime = IF BackedUp(x) THEN monotonic_revision ELSE @].erased
             = node[x].erased
    BY <2>1 DEF Node
  <2>3. /\ DOMAIN node' = DOMAIN node
        /\ \A y \in DOMAIN node : y # x => node'[y] = node[y]
        /\ node'[x] = [node[x] EXCEPT !.val = v,
                          !.mtime = IF BackedUp(x) THEN monotonic_revision ELSE @]
    BY <2>1 DEF Modify
  <2> QED BY <2>2, <2>3
<1>3. NodesAccounted'
  BY <1>1, <1>2, NodesAlone
<1>4. KeysUnique'
  <2>1. \A y \in table \ {x} : ~Conflict(v, node[y].val) /\ ~Conflict(node[y].val, v)
    BY <1>1 DEF Fits, Conflict
  <2>2. \A y \in table : node'[y].val = IF y = x THEN v ELSE node[y].val
    BY <1>2, Accounted
  <2> QED BY <1>1, <2>1, <2>2 DEF RefInv, KeysUnique
<1>5. Rows' = [Rows EXCEPT ![x] = v]
  <2>1. \A y \in table : node'[y].val = IF y = x THEN v ELSE node[y].val
    BY <1>2, Accounted
  <2> QED BY <1>1, <2>1 DEF Rows
<1> QED BY <1>3, <1>4, <1>5

LEMMA ModifyRevertedRows ==
  ASSUME RefInv, RemovedOnce', NEW x \in table, NEW v \in Value, ModifyReverted(x, v)
  PROVE  NodesAccounted' /\ KeysUnique' /\ Rows' = Rows
<1>1. UNCHANGED <<table, removed_values>>
  BY DEF ModifyReverted, lists
<1>2. /\ DOMAIN node' = DOMAIN node
      /\ \A y \in DOMAIN node : /\ node'[y].erased = node[y].erased
                                /\ node'[y].val = node[y].val
  <2>1. x \in DOMAIN node /\ node[x] \in Node
    BY Accounted
  <2> QED BY <2>1 DEF ModifyReverted, Node
<1>3. \A y \in table : node'[y].val = node[y].val
  BY <1>2, Accounted
<1> QED BY <1>1, <1>2, <1>3, NodesAlone, RowsAlone

LEMMA RemoveNodeRows ==
  ASSUME RefInv, RemovedOnce', NEW x \in table, NEW n \in Node, RemoveNode(x, n)
  PROVE  /\ NodesAccounted' /\ KeysUnique'
         /\ Rows' = [y \in DOMAIN Rows \ {x} |-> Rows[y]]
<1>1. table' = table \ {x}
  BY DEF RemoveNode
<1>2. /\ \A y \in DOMAIN node : y # x => y \in DOMAIN node' /\ node'[y] = node[y]
      /\ \/ /\ DOMAIN node' = DOMAIN node \ {x} /\ AllRemoved' = AllRemoved
         \/ /\ DOMAIN node' = DOMAIN node /\ AllRemoved' = AllRemoved \cup {x}
            /\ node'[x].erased
  <2>1. CASE IsNew(x)
    BY <2>1 DEF RemoveNode, Drop, AllRemoved
  <2>2. CASE ~IsNew(x)
    <3>1. removed_values' = PushFront(removed_values, x)
      BY <2>2 DEF RemoveNode
    <3>2. x \in DOMAIN node /\ [n EXCEPT !.erased = TRUE].erased
      BY Accounted DEF Node
    <3>3. /\ DOMAIN node' = DOMAIN node /\ node'[x].erased
          /\ \A y \in DOMAIN node : y # x => node'[y] = node[y]
      BY <2>2, <3>2 DEF RemoveNode
    <3> DEFINE h == Height(removed_values) + 1
    <3>4. /\ h \in Nat \ {0} /\ h \notin DOMAIN removed_values
          /\ DOMAIN PushFront(removed_values, x) = DOMAIN removed_values \cup {h}
          /\ PushFront(removed_values, x)[h] = x
          /\ \A p \in DOMAIN removed_values :
               PushFront(removed_values, x)[p] = removed_values[p] /\ p < h
      <4>1. DOMAIN removed_values \subseteq Nat \ {0} /\ HeightBounds(removed_values)
        BY DEF RefInv, IndInv, TypeOK
      <4> QED BY <4>1, PushFrontFacts
    <3> HIDE DEF h
    <3>5. AllRemoved' = AllRemoved \cup {x}
      BY <3>1, <3>4 DEF AllRemoved
    <3> QED BY <3>3, <3>5
  <2> QED BY <2>1, <2>2
<1>3. NodesAccounted'
  <2>1. DOMAIN node' = table' \cup AllRemoved'
    BY <1>1, <1>2, Accounted
  <2>2. \A y \in DOMAIN node' : node'[y].erased <=> y \in AllRemoved'
    BY <1>2 DEF RefInv, NodesAccounted
  <2> QED BY <2>1, <2>2 DEF NodesAccounted, RemovedOnce
<1>4. \A y \in table' : node'[y].val = node[y].val /\ y \in table
  BY <1>1, <1>2, Accounted
<1>5. KeysUnique'
  BY <1>4 DEF RefInv, KeysUnique
<1>6. Rows' = [y \in table \ {x} |-> Rows[y]]
  BY <1>1, <1>4 DEF Rows
<1>7. DOMAIN Rows = table
  BY DEF Rows
<1> QED BY <1>3, <1>5, <1>6, <1>7

LEMMA UndoRows ==
  ASSUME RefInv, TypeOK', RemovedOnce', Undo
  PROVE  /\ NodesAccounted' /\ KeysUnique'
         /\ Rows' = RowsAtStart(Top)
<1> PICK t : t = Top
  OBVIOUS
<1>1. /\ undo_stack # <<>>
      /\ table' = StartIds(t) /\ StartIds(t) \subseteq DOMAIN node'
      /\ DOMAIN node' = (DOMAIN node \ {x \in table : x >= t.old_next_id})
                          \ (RemovedIds(t) \ Back(t))
      /\ \A x \in DOMAIN node' :
           /\ node'[x].val = WrittenBack(x, t).val
           /\ node'[x].erased = IF x \in Back(t) THEN FALSE ELSE node[x].erased
      /\ DOMAIN removed_values' = DOMAIN removed_values \ RemovedRegion(t)
      /\ \A p \in DOMAIN removed_values' : removed_values'[p] = removed_values[p]
  BY UndoFacts
<1>2. Depth \in 1 .. Depth
  BY <1>1, StackFacts DEF RefInv, IndInv
<1>3. t = undo_stack[Depth]
  BY DEF Top
<1>4. t.old_next_id \in Nat /\ UniqueRows(RowsAtStart(t))
  BY <1>2, <1>3, SessionFacts
<1>5. AllRemoved' = AllRemoved \ RemovedIds(t) /\ RemovedIds(t) \subseteq AllRemoved
  BY <1>1, Accounted DEF AllRemoved, RemovedIds, RemovedRegion, RemovedOnce
<1>6. Rows' = RowsAtStart(t)
  BY <1>1 DEF Rows, RowsAtStart, StartIds
<1>7. KeysUnique'
  <2>1. UniqueRows(Rows')
    BY <1>4, <1>6
  <2>2. UniqueRows(Rows') => KeysUnique'
    BY DEF UniqueRows, KeysUnique, Rows
  <2> QED BY <2>1, <2>2
<1>8. NodesAccounted'
  <2>1. DOMAIN node' = table' \cup AllRemoved'
    BY <1>1, <1>4, <1>5, Accounted DEF StartIds, Back
  <2>2. ASSUME NEW x \in DOMAIN node'
        PROVE  node'[x].erased <=> x \in AllRemoved'
    <3>1. CASE x \in Back(t)
      <4>1. x \notin AllRemoved'
        BY <1>5, <3>1 DEF Back
      <4> QED BY <1>1, <3>1, <4>1
    <3>2. CASE x \notin Back(t)
      <4>1. x \in DOMAIN node /\ x \notin RemovedIds(t)
        BY <1>1, <3>2
      <4>2. node'[x].erased = node[x].erased
        BY <1>1, <3>2
      <4>3. node[x].erased <=> x \in AllRemoved
        BY <4>1 DEF RefInv, NodesAccounted
      <4> QED BY <1>5, <4>1, <4>2, <4>3
    <3> QED BY <3>1, <3>2
  <2> QED BY <2>1, <2>2 DEF NodesAccounted, RemovedOnce
<1> QED BY <1>6, <1>7, <1>8

(* Only removed rows get contents from backups that compress folds. *)
LEMMA CompressRows ==
  ASSUME RefInv, RemovedOnce', NEW t, Compress(t), UNCHANGED table
  PROVE  NodesAccounted' /\ KeysUnique' /\ Rows' = Rows
<1> DEFINE gone == {p \in RemovedRegion(Top) : removed_values[p] >= t.old_next_id}
           F(x) == {p \in FoldedBackups(t) : old_values[p].id = x}
<1>1. /\ DOMAIN removed_values' = DOMAIN removed_values \ gone
      /\ \A p \in DOMAIN removed_values' : removed_values'[p] = removed_values[p]
      /\ DOMAIN node' = DOMAIN node \ {removed_values[p] : p \in gone}
      /\ \A x \in DOMAIN node' : node'[x] = RestoredFrom(x, F(x))
  BY DEF Compress, Drop, FoldedInto
<1>2. \A x : F(x) \in SUBSET DOMAIN old_values
  BY DEF FoldedBackups, OldRegion
<1>3. \A x \in table : F(x) = {}
  BY Accounted DEF FoldedBackups
<1> HIDE DEF F
<1>4. \A x \in DOMAIN node' : x \in DOMAIN node /\ node'[x].erased = node[x].erased
  BY <1>1, <1>2, Accounted, ValueFrom
<1>5. gone \subseteq DOMAIN removed_values
  BY DEF RemovedRegion
<1> HIDE DEF gone
<1>6. AllRemoved' = AllRemoved \ {removed_values[p] : p \in gone}
  BY <1>1, <1>5, Accounted DEF AllRemoved, RemovedOnce
<1>7. {removed_values[p] : p \in gone} \subseteq AllRemoved
  BY <1>5 DEF AllRemoved
<1>8. \A x \in table : x \in DOMAIN node' /\ node'[x].val = node[x].val
  <2> TAKE x \in table
  <2>1. x \in DOMAIN node'
    BY <1>1, <1>7, Accounted
  <2>2. RestoredFrom(x, F(x)).val = node[x].val
    BY <1>2, <1>3, Accounted, ValueFrom
  <2> QED BY <1>1, <2>1, <2>2
<1>9. NodesAccounted'
  <2>1. DOMAIN node' = table' \cup AllRemoved'
    BY <1>1, <1>6, <1>7, Accounted
  <2>2. \A x \in DOMAIN node' : node'[x].erased <=> x \in AllRemoved'
    BY <1>1, <1>4, <1>6 DEF RefInv, NodesAccounted
  <2> QED BY <2>1, <2>2 DEF NodesAccounted, RemovedOnce
<1> QED BY <1>8, <1>9, RowsAlone

LEMMA DisposeRows ==
  ASSUME RefInv, RemovedOnce', NEW ok, NEW rk, Dispose(ok, rk), UNCHANGED table
  PROVE  NodesAccounted' /\ KeysUnique' /\ Rows' = Rows
<1> DEFINE gone == DOMAIN removed_values \ rk
<1>1. /\ DOMAIN removed_values' = DOMAIN removed_values \cap rk
      /\ \A p \in DOMAIN removed_values' : removed_values'[p] = removed_values[p]
      /\ DOMAIN node' = DOMAIN node \ {removed_values[p] : p \in gone}
      /\ \A x \in DOMAIN node' : node'[x] = node[x]
  BY DEF Dispose, Keep, Drop
<1>2. AllRemoved' = AllRemoved \ {removed_values[p] : p \in gone}
  BY <1>1, Accounted DEF AllRemoved, RemovedOnce
<1>3. {removed_values[p] : p \in gone} \subseteq AllRemoved
  BY DEF AllRemoved
<1> HIDE DEF gone
<1>4. \A x \in table : x \in DOMAIN node' /\ node'[x].val = node[x].val
  BY <1>1, <1>3, Accounted
<1>5. NodesAccounted'
  <2>1. DOMAIN node' = table' \cup AllRemoved'
    BY <1>1, <1>2, <1>3, Accounted
  <2>2. \A x \in DOMAIN node' : node'[x].erased <=> x \in AllRemoved'
    BY <1>1, <1>2 DEF RefInv, NodesAccounted
  <2> QED BY <2>1, <2>2 DEF NodesAccounted, RemovedOnce
<1> QED BY <1>4, <1>5, RowsAlone

(* Nothing but the stack changes. *)
LEMMA StackRows ==
  ASSUME RefInv, UNCHANGED <<node, table, removed_values>>
  PROVE  NodesAccounted' /\ KeysUnique' /\ Rows' = Rows
BY DEF RefInv, NodesAccounted, KeysUnique, Rows, AllRemoved

----------------------------------------------------------------------------
(* The snapshots of the sessions that remain *)

LEMMA SnapshotKept ==
  ASSUME NEW s, Kept(s), UniqueRows(RowsAtStart(s)), NEW i, undo_stack'[i] = s
  PROVE  /\ OldestPredates(undo_stack[i])'
         /\ UniqueRows(RowsAtStart(undo_stack[i]))'
         /\ RowsAtStart(undo_stack[i])' = RowsAtStart(s)
         /\ undo_stack'[i].old_next_id = s.old_next_id
<1>1. RowsAtStart(undo_stack[i])' = RowsAtStart(s)'
  BY DEF RowsAtStart, RemovedIds, RemovedRegion, WrittenBack, OlderBackups,
         OldRegion, RestoredFrom
<1>2. OldestPredates(undo_stack[i])'
  BY DEF Kept, OldestPredates, OldRegion
<1>3. RowsAtStart(undo_stack[i])' = RowsAtStart(s)
  BY <1>1 DEF Kept
<1>4. UniqueRows(RowsAtStart(undo_stack[i]))'
  BY <1>3 DEF UniqueRows
<1> QED BY <1>2, <1>3, <1>4

LEMMA SnapshotsShifted ==
  ASSUME RefInv, NEW k \in Nat, NEW d \in Nat, Depth' = d, d + k <= Depth,
         \A i \in 1 .. d : undo_stack'[i] = undo_stack[k + i],
         \A i \in 1 .. Depth : i > k /\ i <= k + d =>
           \A s : s = undo_stack[i] => Kept(s)
  PROVE  /\ \A i \in 1 .. d : /\ OldestPredates(undo_stack[i])'
                             /\ UniqueRows(RowsAtStart(undo_stack[i]))'
         /\ Snapshots' = [i \in 1 .. d |-> Snapshots[k + i]]
<1>0. Depth \in Nat
  BY StackFacts DEF RefInv, IndInv
<1>1. ASSUME NEW i \in 1 .. d
      PROVE  /\ OldestPredates(undo_stack[i])'
             /\ UniqueRows(RowsAtStart(undo_stack[i]))'
             /\ [rows |-> RowsAtStart(undo_stack[i])',
                 next_id |-> undo_stack'[i].old_next_id] = Snapshots[k + i]
  <2>1. k + i \in 1 .. Depth /\ k + i > k /\ k + i <= k + d
    BY <1>0
  <2> PICK s : s = undo_stack[k + i]
    OBVIOUS
  <2>2. /\ OldestPredates(undo_stack[i])'
        /\ UniqueRows(RowsAtStart(undo_stack[i]))'
        /\ RowsAtStart(undo_stack[i])' = RowsAtStart(s)
        /\ undo_stack'[i].old_next_id = s.old_next_id
    BY <2>1, SessionFacts, SnapshotKept
  <2>3. Snapshots[k + i] = [rows |-> RowsAtStart(s), next_id |-> s.old_next_id]
    BY <2>1 DEF Snapshots
  <2> QED BY <2>2, <2>3
<1>3. Snapshots' = [i \in 1 .. d |-> [rows |-> RowsAtStart(undo_stack[i])',
                                     next_id |-> undo_stack'[i].old_next_id]]
  BY DEF Snapshots
<1>4. Snapshots' = [i \in 1 .. d |-> Snapshots[k + i]]
  BY <1>1, <1>3
<1> QED BY <1>1, <1>4

LEMMA SnapshotsSeq ==
  ASSUME RefInv
  PROVE  /\ Depth \in Nat /\ Len(Snapshots) = Depth
         /\ Snapshots \in Seq({Snapshots[i] : i \in 1 .. Depth})
         /\ Snapshots = <<>> <=> undo_stack = <<>>
<1>1. Depth \in Nat /\ (Depth = 0 => undo_stack = <<>>) /\ (undo_stack # <<>> => Depth >= 1)
  BY StackFacts DEF RefInv, IndInv
<1> DEFINE f(i) == [rows |-> RowsAtStart(undo_stack[i]),
                    next_id |-> undo_stack[i].old_next_id]
           S == {Snapshots[i] : i \in 1 .. Depth}
<1>2. Snapshots = [i \in 1 .. Depth |-> f(i)]
  BY DEF Snapshots
<1> HIDE DEF f
<1>3. \A i \in 1 .. Depth : Snapshots[i] \in S
  OBVIOUS
<1> HIDE DEF S
<1>4. Snapshots \in [1 .. Depth -> S]
  BY <1>2, <1>3
<1>5. Snapshots \in Seq(S)
  BY <1>1, <1>4
<1>6. Len(Snapshots) = Depth
  BY <1>1, <1>2
<1>7. Snapshots = <<>> <=> Len(Snapshots) = 0
  BY <1>5, EmptySeq
<1>8. undo_stack = <<>> => Depth = 0
  BY EmptySeq DEF Depth
<1> QED BY <1>1, <1>5, <1>6, <1>7, <1>8 DEF S

LEMMA NoSnapshotsNext == RefInv' /\ undo_stack' = <<>> => Snapshots' = <<>>
<1> DEFINE P == undo_stack = <<>> => Snapshots = <<>>
<1>1. RefInv => P
  BY SnapshotsSeq
<1> HIDE DEF P
<1>2. RefInv' => P'
  BY <1>1, PTL
<1> QED BY <1>2 DEF P

(* A part of a sequence, as a function *)
LEMMA SubSeqFunction ==
  ASSUME NEW S, NEW s \in Seq(S), NEW m \in Nat \ {0}, NEW n \in Nat,
         n <= Len(s), m <= n + 1
  PROVE  SubSeq(s, m, n) = [i \in 1 .. n - m + 1 |-> s[m + i - 1]]
<1> DEFINE f == [i \in 1 .. n - m + 1 |-> s[m + i - 1]]
           k == n - m + 1
<1>0. k \in Nat /\ Len(s) \in Nat
  OBVIOUS
<1>1. \A i \in m .. n : s[i] \in S
  OBVIOUS
<1>2. /\ SubSeq(s, m, n) \in Seq(S)
      /\ Len(SubSeq(s, m, n)) = IF m <= n THEN n - m + 1 ELSE 0
      /\ \A i \in 1 .. n - m + 1 : SubSeq(s, m, n)[i] = s[m + i - 1]
  BY <1>1, SubSeqProperties
<1>3. \A i \in 1 .. k : s[m + i - 1] \in S
  BY <1>0
<1>4. f \in Seq(S) /\ Len(f) = k /\ \A i \in 1 .. k : f[i] = s[m + i - 1]
  BY <1>0, <1>3
<1>5. Len(SubSeq(s, m, n)) = k
  BY <1>2
<1> HIDE DEF f
<1>6. SubSeq(s, m, n) = f
  BY <1>0, <1>2, <1>4, <1>5, SeqEqual
<1> QED BY <1>6 DEF f

LEMMA AppendFunction ==
  ASSUME NEW S, NEW s \in Seq(S), NEW d, d = Len(s), NEW e \in S
  PROVE  Append(s, e) = [i \in 1 .. d + 1 |-> IF i = d + 1 THEN e ELSE s[i]]
<1> DEFINE f == [i \in 1 .. d + 1 |-> IF i = d + 1 THEN e ELSE s[i]]
<1>1. d \in Nat
  OBVIOUS
<1>2. \A i \in 1 .. d + 1 : (IF i = d + 1 THEN e ELSE s[i]) \in S
  <2> TAKE i \in 1 .. d + 1
  <2>1. i = d + 1 \/ i \in 1 .. d
    BY <1>1
  <2> QED BY <2>1
<1>3. f \in Seq(S) /\ Len(f) = d + 1
      /\ \A i \in 1 .. d + 1 : f[i] = IF i = d + 1 THEN e ELSE s[i]
  BY <1>1, <1>2
<1>4. /\ Append(s, e) \in Seq(S) /\ Len(Append(s, e)) = d + 1
      /\ \A i \in 1 .. d : Append(s, e)[i] = s[i]
      /\ Append(s, e)[d + 1] = e
  BY AppendProperties
<1> HIDE DEF f
<1>5. \A i \in 1 .. d + 1 : Append(s, e)[i] = f[i]
  <2> TAKE i \in 1 .. d + 1
  <2>1. i = d + 1 \/ i \in 1 .. d
    BY <1>1
  <2> QED BY <1>1, <1>3, <1>4, <2>1
<1>6. Append(s, e) = f
  BY <1>1, <1>3, <1>4, <1>5, SeqEqual
<1> QED BY <1>6 DEF f

SnapshotsSound ==
  \A i \in 1 .. Depth : /\ OldestPredates(undo_stack[i])
                        /\ UniqueRows(RowsAtStart(undo_stack[i]))

LEMMA RefInvParts ==
  RefInv <=> IndInv /\ NodesAccounted /\ KeysUnique /\ SnapshotsSound
BY DEF RefInv, SnapshotsSound

LEMMA RefInvPartsNext ==
  IndInv' /\ NodesAccounted' /\ KeysUnique' /\ SnapshotsSound' => RefInv'
<1>1. IndInv /\ NodesAccounted /\ KeysUnique /\ SnapshotsSound => RefInv
  BY RefInvParts
<1> QED BY <1>1, PTL

(* The stack stays. *)
LEMMA StackKept ==
  ASSUME RefInv, UNCHANGED undo_stack,
         \A i \in 1 .. Depth : \A s : s = undo_stack[i] => Kept(s)
  PROVE  SnapshotsSound' /\ Snapshots' = Snapshots
<1> DEFINE d == Depth
<1>1. d \in Nat /\ Depth' = d /\ d + 0 <= Depth
  BY StackFacts DEF RefInv, IndInv, Depth
<1> HIDE DEF d
<1>2. \A i \in 1 .. d : undo_stack'[i] = undo_stack[0 + i]
  BY <1>1
<1>3. /\ \A i \in 1 .. d : /\ OldestPredates(undo_stack[i])'
                           /\ UniqueRows(RowsAtStart(undo_stack[i]))'
      /\ Snapshots' = [i \in 1 .. d |-> Snapshots[0 + i]]
  BY <1>1, <1>2, SnapshotsShifted
<1>4. SnapshotsSound'
  BY <1>1, <1>3 DEF SnapshotsSound
<1>5. [i \in 1 .. d |-> Snapshots[0 + i]] = Snapshots
  BY <1>1 DEF Snapshots, d
<1> QED BY <1>3, <1>4, <1>5

(* The newest session goes. *)
LEMMA StackPopped ==
  ASSUME RefInv, undo_stack # <<>>, undo_stack' = PopStack,
         \A i \in 1 .. Depth - 1 : \A s : s = undo_stack[i] => Kept(s)
  PROVE  /\ SnapshotsSound'
         /\ Snapshots # <<>>
         /\ Snapshots' = SubSeq(Snapshots, 1, Len(Snapshots) - 1)
<1> DEFINE d == Depth - 1
<1>1. /\ Depth \in Nat /\ Depth >= 1 /\ Len(PopStack) = d
      /\ \A i \in 1 .. d : PopStack[i] = undo_stack[i]
  BY PopFacts DEF RefInv
<1>2. d \in Nat /\ Depth' = d /\ d + 0 <= Depth
  BY <1>1 DEF Depth
<1> HIDE DEF d
<1>3. \A i \in 1 .. d : undo_stack'[i] = undo_stack[0 + i]
  BY <1>1, <1>2
<1>4. \A i \in 1 .. Depth : i > 0 /\ i <= 0 + d => i \in 1 .. Depth - 1
  BY <1>1, <1>2 DEF d
<1>5. /\ \A i \in 1 .. d : /\ OldestPredates(undo_stack[i])'
                           /\ UniqueRows(RowsAtStart(undo_stack[i]))'
      /\ Snapshots' = [i \in 1 .. d |-> Snapshots[0 + i]]
  BY <1>2, <1>3, <1>4, SnapshotsShifted
<1>6. SnapshotsSound'
  BY <1>2, <1>5 DEF SnapshotsSound
<1>7. /\ Len(Snapshots) = Depth /\ Snapshots # <<>>
      /\ Snapshots \in Seq({Snapshots[i] : i \in 1 .. Depth})
  BY SnapshotsSeq
<1>8. SubSeq(Snapshots, 1, d) = [i \in 1 .. d - 1 + 1 |-> Snapshots[1 + i - 1]]
  <2>1. d <= Len(Snapshots) /\ 1 <= d + 1 /\ 1 \in Nat \ {0}
    BY <1>1, <1>2, <1>7
  <2> QED BY <1>2, <1>7, <2>1, SubSeqFunction
<1>9. [i \in 1 .. d - 1 + 1 |-> Snapshots[1 + i - 1]] = [i \in 1 .. d |-> Snapshots[0 + i]]
  <2>1. d - 1 + 1 = d
    BY <1>2
  <2>2. \A i \in 1 .. d : 1 + i - 1 = 0 + i
    OBVIOUS
  <2> QED BY <2>1, <2>2
<1> QED BY <1>5, <1>6, <1>7, <1>8, <1>9 DEF d

----------------------------------------------------------------------------
(* Each operation is a step of UndoTable, or changes nothing in it.        *)

TableStep == Table!Next \/ UNCHANGED Table!vars

LEMMA EmplaceTable ==
  ASSUME RefInv, IndInv', NEW v \in Value, Emplace(v)
  PROVE  RefInv' /\ TableStep
<1>1. TypeOK' /\ RemovedOnce'
  BY DEF IndInv
<1>2. /\ NodesAccounted' /\ KeysUnique' /\ DOMAIN Rows = table
      /\ Rows' = [x \in DOMAIN Rows \cup {next_id} |->
                       IF x = next_id THEN v ELSE Rows[x]]
  BY <1>1, EmplaceRows DEF Rows
<1>3. /\ next_id < MaxId /\ next_id' = next_id + 1 /\ UNCHANGED revision
      /\ UNCHANGED undo_stack /\ Fits(v, next_id)
  BY DEF Emplace
<1>4. SnapshotsSound' /\ Snapshots' = Snapshots
  BY <1>1, <1>3, EmplaceKeeps, StackKept
<1>5. Table!Fits(v, next_id)
  BY <1>2, <1>3 DEF Fits, Table!Fits, Rows
<1>6. Table!Create(v)
  BY <1>2, <1>3, <1>4, <1>5 DEF Table!Create
<1> QED BY <1>2, <1>4, <1>6, RefInvPartsNext DEF TableStep, Table!Next

LEMMA ModifyTable ==
  ASSUME RefInv, IndInv', RetryRefused = FALSE, NEW x \in table, NEW v \in Value,
         Modify(x, v)
  PROVE  RefInv' /\ TableStep
<1>1. TypeOK' /\ RemovedOnce'
  BY DEF IndInv
<1>2. NodesAccounted' /\ KeysUnique' /\ Rows' = [Rows EXCEPT ![x] = v]
  BY <1>1, ModifyRows
<1>3. UNCHANGED <<undo_stack, next_id, revision>> /\ Fits(v, x)
  BY DEF Modify
<1>4. SnapshotsSound' /\ Snapshots' = Snapshots
  BY <1>1, <1>3, ModifyInPlaceKeeps, ModifyBackedUpKeeps, StackKept
<1>5. x \in DOMAIN Rows /\ Table!Fits(v, x)
  BY <1>3 DEF Fits, Table!Fits, Rows
<1>6. Table!Modify(x, v)
  BY <1>2, <1>3, <1>4, <1>5 DEF Table!Modify
<1> QED BY <1>2, <1>4, <1>5, <1>6, RefInvPartsNext DEF TableStep, Table!Next

LEMMA ModifyRevertedTable ==
  ASSUME RefInv, IndInv', NEW x \in table, NEW v \in Value, ModifyReverted(x, v)
  PROVE  RefInv' /\ TableStep
<1>1. TypeOK' /\ RemovedOnce'
  BY DEF IndInv
<1>2. NodesAccounted' /\ KeysUnique' /\ Rows' = Rows
  BY <1>1, ModifyRevertedRows
<1>3. UNCHANGED <<undo_stack, next_id, revision>>
  BY DEF ModifyReverted
<1>4. SnapshotsSound' /\ Snapshots' = Snapshots
  BY <1>1, <1>3, ModifyRevertedKeeps, StackKept
<1> QED BY <1>2, <1>3, <1>4, RefInvPartsNext DEF TableStep, Table!vars

LEMMA RemovedTable ==
  ASSUME RefInv, IndInv', NEW x \in table, NEW n \in Node, RemoveNode(x, n),
         \A i \in 1 .. Depth : \A s : s = undo_stack[i] => Kept(s)
  PROVE  RefInv' /\ TableStep
<1>1. RemovedOnce'
  BY DEF IndInv
<1>2. NodesAccounted' /\ KeysUnique' /\ Rows' = [y \in DOMAIN Rows \ {x} |-> Rows[y]]
  BY <1>1, RemoveNodeRows
<1>3. UNCHANGED <<undo_stack, next_id, revision>> /\ x \in DOMAIN Rows
  BY DEF RemoveNode, Rows
<1>4. SnapshotsSound' /\ Snapshots' = Snapshots
  BY <1>3, StackKept
<1>5. Table!Erase(x)
  BY <1>2, <1>3, <1>4 DEF Table!Erase
<1> QED BY <1>2, <1>3, <1>4, <1>5, RefInvPartsNext DEF TableStep, Table!Next

LEMMA RemoveTable ==
  ASSUME RefInv, IndInv', NEW x \in table, Remove(x)
  PROVE  RefInv' /\ TableStep
<1> DEFINE n == node[x]
<1>1. n \in Node /\ RemoveNode(x, n) /\ n.val = node[x].val /\ TypeOK'
  BY Accounted DEF Remove, IndInv
<1> HIDE DEF n
<1>2. \A i \in 1 .. Depth : \A s : s = undo_stack[i] => Kept(s)
  BY <1>1, RemoveNodeKeeps
<1> QED BY <1>1, <1>2, RemovedTable

LEMMA ModifyErasedTable ==
  ASSUME RefInv, IndInv', RetryRefused = FALSE, NEW x \in table, NEW v \in Value,
         ModifyErased(x, v)
  PROVE  RefInv' /\ TableStep
<1> DEFINE n == [node[x] EXCEPT !.val = v]
<1>1. n \in Node /\ RemoveNode(x, n)
  BY Accounted DEF ModifyErased, Node
<1> HIDE DEF n
<1>2. TypeOK'
  BY DEF IndInv
<1>3. \A i \in 1 .. Depth : \A s : s = undo_stack[i] => Kept(s)
  BY <1>2, ModifyErasedKeeps
<1> QED BY <1>1, <1>3, RemovedTable

LEMMA UndoTableStep ==
  ASSUME RefInv, IndInv', Undo
  PROVE  RefInv' /\ TableStep
<1>1. TypeOK' /\ RemovedOnce'
  BY DEF IndInv
<1>2. NodesAccounted' /\ KeysUnique' /\ Rows' = RowsAtStart(Top)
  BY <1>1, UndoRows
<1>3. /\ undo_stack # <<>> /\ undo_stack' = PopStack
      /\ revision' = revision - 1 /\ next_id' = Top.old_next_id
  BY DEF Undo
<1>4. /\ SnapshotsSound' /\ Snapshots # <<>>
      /\ Snapshots' = SubSeq(Snapshots, 1, Len(Snapshots) - 1)
  BY <1>1, <1>3, UndoKeeps, StackPopped
<1>5. Snapshots[Len(Snapshots)] = [rows |-> RowsAtStart(Top), next_id |-> Top.old_next_id]
  <2>1. Len(Snapshots) = Depth
    BY SnapshotsSeq
  <2>2. Depth \in 1 .. Depth
    BY <1>3, StackFacts DEF RefInv, IndInv
  <2> QED BY <2>1, <2>2 DEF Snapshots, Top
<1>6. Table!Undo
  BY <1>2, <1>3, <1>4, <1>5 DEF Table!Undo
<1> QED BY <1>2, <1>4, <1>6, RefInvPartsNext DEF TableStep, Table!Next

(* squash and its variants: the rows stay, the newest snapshot goes. *)
LEMMA SquashedTable ==
  ASSUME RefInv, IndInv', NodesAccounted', KeysUnique', Rows' = Rows,
         undo_stack # <<>>, DropTop,
         \A i \in 1 .. Depth - 1 : \A s : s = undo_stack[i] => Kept(s)
  PROVE  RefInv' /\ TableStep
<1>1. undo_stack' = PopStack /\ revision' = revision - 1 /\ UNCHANGED next_id
  BY DEF DropTop
<1>2. /\ SnapshotsSound' /\ Snapshots # <<>>
      /\ Snapshots' = SubSeq(Snapshots, 1, Len(Snapshots) - 1)
  BY <1>1, StackPopped
<1>3. Table!Squash
  BY <1>1, <1>2 DEF Table!Squash
<1> QED BY <1>2, <1>3, RefInvPartsNext DEF TableStep, Table!Next

(* The only session is squashed: nothing is kept. *)
LEMMA LastSquashedTable ==
  ASSUME RefInv, IndInv', undo_stack # <<>>, Depth = 1, Dispose({}, {}), DropTop
  PROVE  RefInv' /\ TableStep
<1>1. RemovedOnce' /\ UNCHANGED table
  BY DEF IndInv, DropTop
<1>2. NodesAccounted' /\ KeysUnique' /\ Rows' = Rows
  BY <1>1, DisposeRows
<1>3. \A i \in 1 .. Depth - 1 : \A s : s = undo_stack[i] => Kept(s)
  OBVIOUS
<1> QED BY <1>2, <1>3, SquashedTable

LEMMA SquashTable ==
  ASSUME RefInv, IndInv', Squash
  PROVE  RefInv' /\ TableStep
<1>1. undo_stack # <<>> /\ DropTop /\ UNCHANGED table
  BY DEF Squash, DropTop
<1>2. Depth \in Nat /\ Depth >= 1
  BY <1>1, StackFacts DEF RefInv, IndInv
<1>3. TypeOK' /\ RemovedOnce'
  BY DEF IndInv
<1>4. CASE Depth >= 2
  <2> DEFINE j == Depth - 1
             t == undo_stack[j]
  <2>1. j \in 1 .. Depth /\ Compress(t)
    BY <1>2, <1>4 DEF Squash
  <2> HIDE DEF t
  <2>2. NodesAccounted' /\ KeysUnique' /\ Rows' = Rows
    BY <1>1, <1>3, <2>1, CompressRows
  <2> HIDE DEF j
  <2>3. \A i \in 1 .. j : \A s : s = undo_stack[i] => Kept(s)
    BY <1>1, <1>3, <2>1, CompressKeeps DEF t
  <2>4. \A i \in 1 .. Depth - 1 : \A s : s = undo_stack[i] => Kept(s)
    BY <2>3 DEF j
  <2> QED BY <1>1, <2>2, <2>4, SquashedTable
<1>5. CASE ~(Depth >= 2)
  <2>1. Depth = 1 /\ Dispose({}, {})
    BY <1>2, <1>5 DEF Squash
  <2> QED BY <1>1, <2>1, LastSquashedTable
<1> QED BY <1>4, <1>5

(* Only the stack changes: the snapshots of the sessions that remain stay. *)
LEMMA StackOnlyKeeps ==
  ASSUME RefInv, TypeOK', UNCHANGED <<node, table, lists>>,
         NEW i \in 1 .. Depth, NEW s, s = undo_stack[i]
  PROVE  Kept(s)
<1>1. TypeOK /\ OldestPredates(s)
  BY SessionFacts DEF RefInv, IndInv
<1>2. OldRegion(s)' = OldRegion(s) /\ StartIds(s)' = StartIds(s)
  BY DEF lists, OldRegion, StartIds, RemovedIds, RemovedRegion
<1>3. /\ \A p \in OldRegion(s) : old_values'[p] = old_values[p]
      /\ \A x \in StartIds(s) : node'[x].val = node[x].val
      /\ StartIds(s) \subseteq DOMAIN node'
  BY <1>1, StartIdsAllocated DEF lists
<1> QED BY <1>1, <1>2, <1>3, RegionAlone

LEMMA SquashFastTable ==
  ASSUME RefInv, IndInv', SquashFast
  PROVE  RefInv' /\ TableStep
<1>1. undo_stack # <<>> /\ DropTop /\ UNCHANGED table
  BY DEF SquashFast, DropTop
<1>2. CASE Depth = 1
  <2>1. Dispose({}, {})
    BY <1>2 DEF SquashFast
  <2> QED BY <1>1, <1>2, <2>1, LastSquashedTable
<1>3. CASE Depth # 1
  <2>1. UNCHANGED <<node, table, lists>> /\ UNCHANGED removed_values /\ TypeOK'
    BY <1>1, <1>3 DEF SquashFast, lists, IndInv
  <2>2. NodesAccounted' /\ KeysUnique' /\ Rows' = Rows
    BY <2>1, StackRows
  <2>3. \A i \in 1 .. Depth : \A s : s = undo_stack[i] => Kept(s)
    BY <2>1, StackOnlyKeeps
  <2>4. \A i \in 1 .. Depth - 1 : i \in 1 .. Depth
    BY <1>1, StackFacts DEF RefInv, IndInv
  <2> QED BY <1>1, <2>2, <2>3, <2>4, SquashedTable
<1> QED BY <1>2, <1>3

LEMMA CompressLastTable ==
  ASSUME RefInv, IndInv', CompressLast
  PROVE  RefInv' /\ TableStep
<1>1. undo_stack # <<>> /\ UNCHANGED <<table, undo_stack, next_id, revision>>
  BY DEF CompressLast
<1>2. Depth \in 1 .. Depth /\ Depth \in Nat /\ TypeOK' /\ RemovedOnce'
  BY <1>1, StackFacts DEF RefInv, IndInv
<1> DEFINE t == Top
<1>3. Compress(t) /\ t = undo_stack[Depth]
  BY DEF CompressLast, Top
<1> HIDE DEF t
<1>4. NodesAccounted' /\ KeysUnique' /\ Rows' = Rows
  BY <1>1, <1>2, <1>3, CompressRows
<1>5. \A i \in 1 .. Depth : \A s : s = undo_stack[i] => Kept(s)
  BY <1>1, <1>2, <1>3, CompressKeeps
<1>6. SnapshotsSound' /\ Snapshots' = Snapshots
  BY <1>1, <1>5, StackKept
<1> QED BY <1>1, <1>4, <1>6, RefInvPartsNext DEF TableStep, Table!vars

LEMMA StartSessionTable ==
  ASSUME RefInv, IndInv', StartSession
  PROVE  RefInv' /\ TableStep
<1> PICK d : d = Depth
  OBVIOUS
<1> PICK s : s = NewState
  OBVIOUS
<1>1. /\ undo_stack' = Append(undo_stack, s) /\ revision < MaxRevision
      /\ revision' = revision + 1 /\ UNCHANGED <<node, table, lists, next_id>>
      /\ UNCHANGED <<table, node, old_values, removed_values>>
  BY DEF StartSession, lists
<1>2. /\ s.old_values_end = Height(old_values) /\ s.old_next_id = next_id
      /\ s.removed_values_end = Height(removed_values)
  BY DEF NewState, StateAt
<1>3. /\ d \in Nat /\ Depth' = d + 1 /\ undo_stack'[d + 1] = s
      /\ \A i \in 1 .. d : undo_stack'[i] = undo_stack[i]
  <2>1. undo_stack \in Seq(UndoState)
    BY DEF RefInv, IndInv, TypeOK
  <2> QED BY <1>1, <2>1 DEF Depth
<1>4. TypeOK /\ TypeOK'
  BY DEF RefInv, IndInv
<1>5. OldRegion(s)' = {} /\ RemovedRegion(s)' = {}
  <2>1. /\ HeightBounds(old_values) /\ HeightBounds(removed_values)
        /\ DOMAIN old_values \subseteq Nat /\ DOMAIN removed_values \subseteq Nat
    BY DEF RefInv, IndInv, TypeOK
  <2> QED BY <1>1, <1>2, <2>1 DEF OldRegion, RemovedRegion, HeightBounds
<1>6. RowsAtStart(s)' = Rows
  <2>1. RemovedIds(s)' = {} /\ \A x : OlderBackups(x, s)' = {}
    BY <1>5 DEF RemovedIds, OlderBackups
  <2>2. \A x : WrittenBack(x, s)' = node[x]
    BY <1>1, <2>1 DEF WrittenBack, RestoredFrom
  <2>3. \A x \in table : x < s.old_next_id
    BY <1>2, Accounted
  <2>4. {x \in table' \cup RemovedIds(s)' : x < s.old_next_id} = table
    BY <1>1, <2>1, <2>3
  <2> QED BY <2>2, <2>4 DEF RowsAtStart, Rows
<1>7. NodesAccounted' /\ KeysUnique' /\ Rows' = Rows
  BY <1>1, StackRows
<1>8. \A i \in 1 .. d : \A t : t = undo_stack[i] => Kept(t)
  BY <1>1, <1>4, StackOnlyKeeps
<1>9. ASSUME NEW i \in 1 .. d
      PROVE  /\ OldestPredates(undo_stack[i])'
             /\ UniqueRows(RowsAtStart(undo_stack[i]))'
             /\ [rows |-> RowsAtStart(undo_stack[i])',
                 next_id |-> undo_stack'[i].old_next_id] = Snapshots[i]
  <2> PICK t : t = undo_stack[i]
    OBVIOUS
  <2>1. /\ OldestPredates(undo_stack[i])'
        /\ UniqueRows(RowsAtStart(undo_stack[i]))'
        /\ RowsAtStart(undo_stack[i])' = RowsAtStart(t)
        /\ undo_stack'[i].old_next_id = t.old_next_id
    BY <1>3, <1>8, SessionFacts, SnapshotKept
  <2> QED BY <2>1 DEF Snapshots
<1>10. /\ OldestPredates(undo_stack[d + 1])'
       /\ UniqueRows(RowsAtStart(undo_stack[d + 1]))'
       /\ [rows |-> RowsAtStart(undo_stack[d + 1])',
           next_id |-> undo_stack'[d + 1].old_next_id] = [rows |-> Rows, next_id |-> next_id]
  <2>1. RowsAtStart(undo_stack[d + 1])' = RowsAtStart(s)'
    BY <1>3 DEF RowsAtStart, RemovedIds, RemovedRegion, WrittenBack, OlderBackups,
                OldRegion, RestoredFrom
  <2>2. OldestPredates(undo_stack[d + 1])'
    BY <1>3, <1>5 DEF OldestPredates, OldRegion
  <2>3. UniqueRows(Rows)
    BY KeysUniqueRows DEF RefInv
  <2>4. UniqueRows(RowsAtStart(undo_stack[d + 1]))'
    BY <1>6, <2>1, <2>3 DEF UniqueRows
  <2> QED BY <1>2, <1>3, <1>6, <2>1, <2>2, <2>4
<1> DEFINE top == [rows |-> Rows, next_id |-> next_id]
<1>11. SnapshotsSound'
  <2>1. \A i \in 1 .. d + 1 : i \in 1 .. d \/ i = d + 1
    BY <1>3
  <2> QED BY <1>3, <1>9, <1>10, <2>1 DEF SnapshotsSound
<1>12. Snapshots' = Append(Snapshots, top)
  <2>1. Snapshots' = [i \in 1 .. d + 1 |-> [rows |-> RowsAtStart(undo_stack[i])',
                                     next_id |-> undo_stack'[i].old_next_id]]
    BY <1>3 DEF Snapshots
  <2>2. \A i \in 1 .. d + 1 : i \in 1 .. d \/ i = d + 1
    BY <1>3
  <2>3. d + 1 \notin 1 .. d
    BY <1>3
  <2>4. Snapshots' = [i \in 1 .. d + 1 |-> IF i = d + 1 THEN top ELSE Snapshots[i]]
    BY <1>9, <1>10, <2>1, <2>2, <2>3
  <2>5. Len(Snapshots) = d
    BY SnapshotsSeq
  <2> HIDE DEF top
  <2>6. Append(Snapshots, top) = [i \in 1 .. d + 1 |-> IF i = d + 1 THEN top ELSE Snapshots[i]]
    <3> PICK S : S = {Snapshots[i] : i \in 1 .. d} \cup {top}
      OBVIOUS
    <3>1. Snapshots \in Seq(S)
      <4>1. Snapshots \in Seq({Snapshots[i] : i \in 1 .. d})
        BY SnapshotsSeq
      <4> QED BY <4>1
    <3>2. top \in S
      OBVIOUS
    <3> QED BY <2>5, <3>1, <3>2, AppendFunction
  <2> QED BY <2>4, <2>6
<1>13. Table!StartSession
  BY <1>1, <1>7, <1>12 DEF Table!StartSession
<1> QED BY <1>7, <1>11, <1>13, RefInvPartsNext DEF TableStep, Table!Next

(* The stack is emptied. *)
LEMMA CommitAllTable ==
  ASSUME RefInv, IndInv', NEW r \in 0 .. MaxRevision, Commit(r), r >= revision
  PROVE  RefInv' /\ TableStep
<1>1. /\ Dispose({}, {}) /\ undo_stack' = <<>>
      /\ UNCHANGED <<table, next_id, revision, monotonic_revision>>
  BY DEF Commit
<1>2. Depth' = 0 /\ Depth \in Nat /\ RemovedOnce'
  BY <1>1, EmptySeq, StackFacts DEF Depth, RefInv, IndInv
<1>3. NodesAccounted' /\ KeysUnique' /\ Rows' = Rows
  BY <1>1, <1>2, DisposeRows
<1>4. SnapshotsSound'
  BY <1>2 DEF SnapshotsSound
<1>5. Snapshots' = <<>>
  <2>1. RefInv'
    BY <1>3, <1>4, RefInvPartsNext
  <2> QED BY <1>1, <2>1, NoSnapshotsNext
<1>6. revision \in Nat /\ r \in Nat /\ ~(r < revision)
  BY UndoIndexAssumption DEF RefInv, IndInv, TypeOK
<1>7. Table!Commit(r)
  BY <1>1, <1>3, <1>5, <1>6 DEF Table!Commit
<1> QED BY <1>3, <1>4, <1>7, RefInvPartsNext DEF TableStep, Table!Next

LEMMA CommitSomeTable ==
  ASSUME RefInv, IndInv', NEW r \in 0 .. MaxRevision, Commit(r), ~(r >= revision)
  PROVE  RefInv' /\ TableStep
<1> DEFINE first == Depth - (revision - r) + 1
           d == revision - r
           k == first - 1
<1>1. /\ revision - r < Depth /\ undo_stack' = SubSeq(undo_stack, first, Depth)
      /\ UNCHANGED <<table, next_id, revision, monotonic_revision>>
  BY DEF Commit
<1>2. Depth \in Nat /\ revision \in Nat /\ r \in Nat /\ r < revision
  BY StackFacts, UndoIndexAssumption DEF RefInv, IndInv, TypeOK
<1>3. /\ first \in Nat \ {0} /\ first <= Depth /\ d \in Nat /\ k \in Nat
      /\ Depth - first + 1 = d /\ d + k = Depth /\ first = k + 1
  BY <1>1, <1>2
<1>4. TypeOK' /\ RemovedOnce'
  BY DEF IndInv
<1>5. NodesAccounted' /\ KeysUnique' /\ Rows' = Rows
  <2> PICK t : t = undo_stack[first]
    OBVIOUS
  <2>1. Dispose(KeptFrom(old_values, t.old_values_end),
                KeptFrom(removed_values, t.removed_values_end))
    BY <1>2 DEF Commit
  <2>2. UNCHANGED table
    BY <1>1
  <2> QED BY <1>4, <2>1, <2>2, DisposeRows
<1>6. \A i \in first .. Depth : \A s : s = undo_stack[i] => Kept(s)
  BY <1>4, CommitKeeps
<1> HIDE DEF first, d, k
<1>7. Depth' = d /\ \A i \in 1 .. d : undo_stack'[i] = undo_stack[k + i]
  <2>1. undo_stack \in Seq(UndoState) /\ Len(undo_stack) = Depth
    BY DEF RefInv, IndInv, TypeOK, Depth
  <2>2. first <= Depth + 1
    BY <1>2, <1>3
  <2>3. undo_stack' = [i \in 1 .. Depth - first + 1 |-> undo_stack[first + i - 1]]
    BY <1>1, <1>2, <1>3, <2>1, <2>2, SubSeqFunction
  <2>4. \A i \in 1 .. d : first + i - 1 = k + i
    BY <1>3
  <2>5. undo_stack' = [i \in 1 .. d |-> undo_stack[k + i]]
    BY <1>3, <2>3, <2>4
  <2> QED BY <1>3, <2>5 DEF Depth
<1>8. \A i \in 1 .. Depth : i > k /\ i <= k + d => i \in first .. Depth
  BY <1>2, <1>3
<1>9. /\ \A i \in 1 .. d : /\ OldestPredates(undo_stack[i])'
                           /\ UniqueRows(RowsAtStart(undo_stack[i]))'
      /\ Snapshots' = [i \in 1 .. d |-> Snapshots[k + i]]
  <2>1. d + k <= Depth
    BY <1>2, <1>3
  <2>2. \A i \in 1 .. Depth : i > k /\ i <= k + d => \A s : s = undo_stack[i] => Kept(s)
    BY <1>6, <1>8
  <2> QED BY <1>3, <1>7, <2>1, <2>2, SnapshotsShifted
<1>10. SnapshotsSound'
  BY <1>7, <1>9 DEF SnapshotsSound
<1>11. /\ Len(Snapshots) = Depth
       /\ Snapshots \in Seq({Snapshots[i] : i \in 1 .. Depth})
  BY SnapshotsSeq
<1>12. Snapshots' = SubSeq(Snapshots, first, Len(Snapshots))
  <2>1. first <= Depth + 1 /\ Depth <= Len(Snapshots)
    BY <1>2, <1>3, <1>11
  <2>2. SubSeq(Snapshots, first, Depth)
          = [i \in 1 .. Depth - first + 1 |-> Snapshots[first + i - 1]]
    BY <1>2, <1>3, <1>11, <2>1, SubSeqFunction
  <2>3. \A i \in 1 .. d : first + i - 1 = k + i
    BY <1>3
  <2> QED BY <1>3, <1>9, <1>11, <2>2, <2>3
<1>13. Table!Commit(r)
  <2>1. first = Len(Snapshots) - (revision - r) + 1 /\ revision - r < Len(Snapshots)
    BY <1>1, <1>11 DEF first
  <2>2. ~(r >= revision)
    OBVIOUS
  <2> QED BY <1>1, <1>5, <1>12, <2>1, <2>2 DEF Table!Commit
<1> QED BY <1>5, <1>10, <1>13, RefInvPartsNext DEF TableStep, Table!Next

LEMMA SetRevisionTable ==
  ASSUME RefInv, IndInv', NEW r \in 0 .. MaxRevision, SetRevision(r)
  PROVE  RefInv' /\ TableStep
<1>1. /\ UNCHANGED <<node, table, lists, undo_stack, next_id>> /\ UNCHANGED removed_values
      /\ undo_stack = <<>> /\ r >= revision /\ revision' = r
  BY DEF SetRevision, lists
<1>2. NodesAccounted' /\ KeysUnique' /\ Rows' = Rows
  BY <1>1, StackRows
<1>3. TypeOK'
  BY DEF IndInv
<1>4. SnapshotsSound' /\ Snapshots' = Snapshots
  BY <1>1, <1>3, StackOnlyKeeps, StackKept
<1>5. Snapshots = <<>>
  BY <1>1, SnapshotsSeq
<1>6. Table!SetRevision(r)
  BY <1>1, <1>2, <1>4, <1>5 DEF Table!SetRevision
<1> QED BY <1>2, <1>4, <1>6, RefInvPartsNext DEF TableStep, Table!Next

LEMMA StutterTable ==
  ASSUME RefInv, IndInv', UNCHANGED vars
  PROVE  RefInv' /\ TableStep
<1>1. /\ UNCHANGED <<node, table, lists, undo_stack, next_id, revision>>
      /\ UNCHANGED removed_values
  BY DEF vars, lists
<1>2. NodesAccounted' /\ KeysUnique' /\ Rows' = Rows
  BY <1>1, StackRows
<1>3. TypeOK'
  BY DEF IndInv
<1>4. SnapshotsSound' /\ Snapshots' = Snapshots
  BY <1>1, <1>3, StackOnlyKeeps, StackKept
<1> QED BY <1>1, <1>2, <1>4, RefInvPartsNext DEF TableStep, Table!vars

----------------------------------------------------------------------------
(* The theorems *)

LEMMA NextRefInv ==
  ASSUME RetryRefused = FALSE, RefInv, [Next]_vars
  PROVE  RefInv' /\ TableStep
<1>1. IndInv'
  BY NextIndInv DEF RefInv
<1>2. ASSUME NEW v \in Value, Emplace(v) PROVE RefInv' /\ TableStep
  BY <1>1, <1>2, EmplaceTable
<1>3. ASSUME NEW x \in table, NEW v \in Value, Modify(x, v) PROVE RefInv' /\ TableStep
  BY <1>1, <1>3, ModifyTable
<1>4. ASSUME NEW x \in table, NEW v \in Value, ModifyReverted(x, v)
      PROVE  RefInv' /\ TableStep
  BY <1>1, <1>4, ModifyRevertedTable
<1>5. ASSUME NEW x \in table, NEW v \in Value, ModifyErased(x, v)
      PROVE  RefInv' /\ TableStep
  BY <1>1, <1>5, ModifyErasedTable
<1>6. ASSUME NEW x \in table, Remove(x) PROVE RefInv' /\ TableStep
  BY <1>1, <1>6, RemoveTable
<1>7. CASE StartSession
  BY <1>1, <1>7, StartSessionTable
<1>8. CASE Undo
  BY <1>1, <1>8, UndoTableStep
<1>9. CASE Squash
  BY <1>1, <1>9, SquashTable
<1>10. CASE SquashFast
  BY <1>1, <1>10, SquashFastTable
<1>11. CASE CompressLast
  BY <1>1, <1>11, CompressLastTable
<1>12. ASSUME NEW r \in 0 .. MaxRevision, Commit(r) PROVE RefInv' /\ TableStep
  BY <1>1, <1>12, CommitAllTable, CommitSomeTable
<1>13. ASSUME NEW r \in 0 .. MaxRevision, SetRevision(r) PROVE RefInv' /\ TableStep
  BY <1>1, <1>13, SetRevisionTable
<1>14. CASE UNCHANGED vars
  BY <1>1, <1>14, StutterTable
<1> QED
  BY <1>2, <1>3, <1>4, <1>5, <1>6, <1>7, <1>8, <1>9, <1>10, <1>11, <1>12, <1>13, <1>14
  DEF Next

LEMMA InitRefInv == Init => RefInv /\ Table!Init
<1> SUFFICES ASSUME Init PROVE RefInv /\ Table!Init
  OBVIOUS
<1>1. /\ node = [x \in {} |-> 0] /\ table = {} /\ DOMAIN removed_values = {}
      /\ undo_stack = <<>> /\ next_id = 0 /\ revision = 0
  BY DEF Init
<1>2. Depth = 0 /\ AllRemoved = {}
  BY <1>1, EmptySeq DEF Depth, AllRemoved
<1>3. IndInv /\ NodesAccounted /\ KeysUnique /\ SnapshotsSound
  BY <1>1, <1>2, InitIndInv DEF NodesAccounted, KeysUnique, SnapshotsSound
<1>4. RefInv
  BY <1>3, RefInvParts
<1>5. Snapshots = <<>>
  BY <1>1, <1>4, SnapshotsSeq
<1>6. Rows = [x \in {} |-> 0]
  BY <1>1 DEF Rows
<1> QED BY <1>1, <1>4, <1>5, <1>6 DEF Table!Init

(* The oldest backup that a session has of a row predates the session, and *)
(* the rows that it would restore have unique keys, whatever was undone,   *)
(* squashed, compressed or committed since, when no client modifies again  *)
(* an object whose modification was refused.                               *)
THEOREM BackupsStayExact == RetryRefused = FALSE => (Spec => []RefInv)
<1> SUFFICES ASSUME RetryRefused = FALSE PROVE Spec => []RefInv
  OBVIOUS
<1>1. Init => RefInv
  BY InitRefInv
<1>2. RefInv /\ [Next]_vars => RefInv'
  BY NextRefInv
<1> QED BY <1>1, <1>2, PTL DEF Spec

(* Every node is in the trees or in removed_values, in one of them once,   *)
(* and its flag says in which: none leaks, none is destroyed twice.        *)
THEOREM NodesAlwaysAccounted == RetryRefused = FALSE => (Spec => []NodesAccounted)
<1> SUFFICES ASSUME RetryRefused = FALSE PROVE Spec => []NodesAccounted
  OBVIOUS
<1>1. RefInv => NodesAccounted
  BY DEF RefInv
<1>2. Spec => []RefInv
  BY BackupsStayExact
<1> QED BY <1>1, <1>2, PTL

(* The unique indices stay unique, also after undo wrote old contents back *)
(* and reinserted removed rows without looking at the result.              *)
THEOREM KeysAlwaysUnique == RetryRefused = FALSE => (Spec => []KeysUnique)
<1> SUFFICES ASSUME RetryRefused = FALSE PROVE Spec => []KeysUnique
  OBVIOUS
<1>1. RefInv => KeysUnique
  BY DEF RefInv
<1>2. Spec => []RefInv
  BY BackupsStayExact
<1> QED BY <1>1, <1>2, PTL

(* undo_index implements UndoTable: undo gives back exactly the rows and   *)
(* the next id of the start of the session, and no other operation changes *)
(* what an open session would give back.                                   *)
THEOREM UndoIndexImplementsTable == RetryRefused = FALSE => (Spec => ImplementsTable)
<1> SUFFICES ASSUME RetryRefused = FALSE PROVE Spec => ImplementsTable
  OBVIOUS
<1>1. Init => Table!Init
  BY InitRefInv
<1>2. RefInv /\ [Next]_vars => [Table!Next]_(Table!vars)
  BY NextRefInv DEF TableStep
<1>3. Spec => []RefInv
  BY BackupsStayExact
<1> QED BY <1>1, <1>2, <1>3, PTL DEF Spec, ImplementsTable, Table!Spec

----------------------------------------------------------------------------
(* With the record of UndoIndexHistory *)

(* The rows recorded when a session began are those that its undo would    *)
(* give back now.                                                          *)
RowsRecorded == begun = [i \in 1 .. Depth |-> RowsAtStart(undo_stack[i])]

LEMMA RecordedFacts ==
  ASSUME RefInv
  PROVE  /\ Depth \in Nat /\ Len(Snapshots) = Depth
         /\ Snapshots \in Seq({Snapshots[i] : i \in 1 .. Depth})
         /\ RowsRecorded <=> begun = [i \in 1 .. Depth |-> Snapshots[i].rows]
<1>1. Depth \in Nat /\ Len(Snapshots) = Depth
      /\ Snapshots \in Seq({Snapshots[i] : i \in 1 .. Depth})
  BY SnapshotsSeq
<1>2. \A i \in 1 .. Depth : Snapshots[i].rows = RowsAtStart(undo_stack[i])
  BY DEF Snapshots
<1>3. [i \in 1 .. Depth |-> Snapshots[i].rows] = [i \in 1 .. Depth |-> RowsAtStart(undo_stack[i])]
  BY <1>2
<1> QED BY <1>1, <1>3 DEF RowsRecorded

LEMMA RecordedFactsNext ==
  RefInv' => /\ Depth' \in Nat /\ Len(Snapshots') = Depth'
             /\ RowsRecorded' <=> begun' = [i \in 1 .. Depth' |-> Snapshots'[i].rows]
<1> DEFINE P == /\ Depth \in Nat /\ Len(Snapshots) = Depth
                /\ RowsRecorded <=> begun = [i \in 1 .. Depth |-> Snapshots[i].rows]
<1>1. RefInv => P
  BY RecordedFacts
<1> HIDE DEF P
<1>2. RefInv' => P'
  BY <1>1, PTL
<1> QED BY <1>2 DEF P

(* The rows of a part of the snapshots are that part of the rows. *)
LEMMA RowsOfPart ==
  ASSUME NEW S, NEW s \in Seq(S), NEW m \in Nat \ {0}, NEW n \in Nat,
         n <= Len(s), m <= n + 1
  PROVE  [i \in 1 .. Len(SubSeq(s, m, n)) |-> SubSeq(s, m, n)[i].rows]
           = SubSeq([i \in 1 .. Len(s) |-> s[i].rows], m, n)
<1> DEFINE q == [i \in 1 .. Len(s) |-> s[i].rows]
           k == n - m + 1
<1>1. Len(s) \in Nat /\ k \in Nat
  OBVIOUS
<1>2. q \in Seq({q[i] : i \in 1 .. Len(s)}) /\ Len(q) = Len(s)
  <2> DEFINE Q == {q[i] : i \in 1 .. Len(s)}
  <2>1. q \in [1 .. Len(s) -> Q]
    OBVIOUS
  <2> HIDE DEF q, Q
  <2>2. q \in Seq(Q) /\ Len(q) = Len(s)
    BY <1>1, <2>1
  <2> QED BY <2>2 DEF Q
<1>3. \A i \in 1 .. k : m + i - 1 \in 1 .. Len(s)
  BY <1>1
<1>4. \A i \in 1 .. k : q[m + i - 1] = s[m + i - 1].rows
  BY <1>3
<1> HIDE DEF q
<1>5. SubSeq(q, m, n) = [i \in 1 .. k |-> q[m + i - 1]]
  BY <1>2, SubSeqFunction
<1>6. SubSeq(s, m, n) = [i \in 1 .. k |-> s[m + i - 1]]
  BY SubSeqFunction
<1>7. SubSeq(s, m, n) \in Seq(S) /\ DOMAIN SubSeq(s, m, n) = 1 .. k
  BY <1>6
<1>8. Len(SubSeq(s, m, n)) = k
  BY <1>1, <1>7
<1>9. [i \in 1 .. k |-> SubSeq(s, m, n)[i].rows] = [i \in 1 .. k |-> q[m + i - 1]]
  BY <1>4, <1>6
<1> QED BY <1>5, <1>8, <1>9 DEF q

LEMMA RecordPart ==
  ASSUME RefInv, RefInv', RowsRecorded, NEW m \in Nat \ {0}, NEW n \in Nat,
         n <= Depth, m <= n + 1, Snapshots' = SubSeq(Snapshots, m, n),
         begun' = SubSeq(begun, m, n)
  PROVE  RowsRecorded'
<1>1. /\ Len(Snapshots) = Depth
      /\ Snapshots \in Seq({Snapshots[i] : i \in 1 .. Depth})
      /\ begun = [i \in 1 .. Len(Snapshots) |-> Snapshots[i].rows]
  BY RecordedFacts
<1>2. [i \in 1 .. Len(Snapshots') |-> Snapshots'[i].rows] = SubSeq(begun, m, n)
  BY <1>1, RowsOfPart
<1> QED BY <1>2, RecordedFactsNext

LEMMA NextRecorded ==
  ASSUME RetryRefused = FALSE, RefInv, RowsRecorded, [HNext]_hvars
  PROVE  RowsRecorded'
<1>1. [Next]_vars
  BY DEF HNext, hvars
<1>2. RefInv' /\ TableStep
  BY <1>1, NextRefInv
<1>3. /\ Depth \in Nat /\ Len(Snapshots) = Depth /\ revision \in Int
      /\ Snapshots \in Seq({Snapshots[i] : i \in 1 .. Depth})
      /\ begun = [i \in 1 .. Depth |-> Snapshots[i].rows]
  BY RecordedFacts DEF RefInv, IndInv, TypeOK
<1>4. /\ Depth' \in Nat /\ Len(Snapshots') = Depth' /\ Depth' = Len(undo_stack')
      /\ RowsRecorded' <=> begun' = [i \in 1 .. Depth' |-> Snapshots'[i].rows]
  BY <1>2, RecordedFactsNext DEF Depth
<1>5. /\ Depth' > Depth => begun' = Append(begun, Rows)
      /\ Depth' = Depth => begun' = begun
      /\ Depth' < Depth /\ revision' = revision
           => begun' = SubSeq(begun, Depth - Depth' + 1, Depth)
      /\ Depth' < Depth /\ revision' # revision
           => begun' = SubSeq(begun, 1, Depth - 1)
  <2>1. CASE HNext
    <3> DEFINE d == Len(undo_stack')
    <3>1. begun' = CASE d > Depth -> Append(begun, Rows)
                     [] d = Depth -> begun
                     [] OTHER -> IF revision' = revision
                                 THEN SubSeq(begun, Depth - d + 1, Depth)
                                 ELSE SubSeq(begun, 1, Depth - 1)
      BY <2>1 DEF HNext
    <3>2. d = Depth' /\ d \in Nat /\ Depth \in Nat
      BY <1>3, <1>4
    <3> HIDE DEF d
    <3>3. CASE d > Depth
      BY <3>1, <3>2, <3>3
    <3>4. CASE d = Depth
      BY <3>1, <3>2, <3>4
    <3>5. CASE d < Depth
      <4>1. ~(d > Depth) /\ d # Depth
        BY <3>2, <3>5
      <4>2. begun' = IF revision' = revision
                     THEN SubSeq(begun, Depth - d + 1, Depth)
                     ELSE SubSeq(begun, 1, Depth - 1)
        BY <3>1, <4>1, Zenon
      <4> QED BY <3>2, <4>1, <4>2
    <3> QED BY <3>2, <3>3, <3>4, <3>5
  <2>2. CASE UNCHANGED hvars
    BY <1>3, <1>4, <2>2 DEF hvars, vars, Depth
  <2> QED BY <2>1, <2>2
<1>6. CASE UNCHANGED Snapshots
  BY <1>3, <1>4, <1>5, <1>6
<1>7. CASE Table!StartSession
  <2> DEFINE e == [rows |-> Rows, next_id |-> next_id]
             T == {Snapshots[i] : i \in 1 .. Depth} \cup {e}
  <2>1. Snapshots' = Append(Snapshots, e)
    BY <1>7 DEF Table!StartSession
  <2>2. Snapshots \in Seq(T) /\ e \in T
    <3>1. {Snapshots[i] : i \in 1 .. Depth} \subseteq T
      OBVIOUS
    <3> QED BY <1>3, <3>1
  <2>3. e.rows = Rows
    OBVIOUS
  <2> HIDE DEF e, T
  <2>4. /\ Depth' = Depth + 1 /\ Snapshots'[Depth + 1].rows = Rows
        /\ \A i \in 1 .. Depth : Snapshots'[i] = Snapshots[i]
    BY <1>3, <1>4, <2>1, <2>2, <2>3, AppendProperties
  <2> DEFINE B == {begun[i] : i \in 1 .. Depth} \cup {Rows}
  <2>5. begun \in Seq(B) /\ Len(begun) = Depth /\ Rows \in B
    <3>1. DOMAIN begun = 1 .. Depth
      BY <1>3
    <3>2. begun \in [1 .. Depth -> B]
      BY <1>3, <3>1
    <3> HIDE DEF B
    <3>3. Rows \in B
      BY DEF B
    <3> QED BY <1>3, <3>1, <3>2, <3>3
  <2> HIDE DEF B
  <2>6. begun' = Append(begun, Rows)
    BY <1>3, <1>5, <2>4
  <2>7. begun' = [i \in 1 .. Depth + 1 |-> IF i = Depth + 1 THEN Rows ELSE begun[i]]
    BY <2>5, <2>6, AppendFunction
  <2>8. \A i \in 1 .. Depth + 1 :
          (IF i = Depth + 1 THEN Rows ELSE begun[i]) = Snapshots'[i].rows
    BY <1>3, <2>4
  <2> QED BY <1>4, <2>4, <2>7, <2>8
<1>8. CASE Table!Undo \/ Table!Squash
  <2>1. /\ revision' # revision /\ Snapshots # <<>>
        /\ Snapshots' = SubSeq(Snapshots, 1, Depth - 1)
    BY <1>3, <1>8 DEF Table!Undo, Table!Squash
  <2>2. Depth - 1 \in Nat
    BY <1>3, <2>1, EmptySeq
  <2>3. Depth' = Depth - 1
    BY <1>3, <1>4, <2>1, <2>2
  <2>4. Depth \in Nat /\ Depth' < Depth
    BY <1>3, <2>3
  <2>5. begun' = SubSeq(begun, 1, Depth - 1)
    BY <1>5, <2>1, <2>4
  <2>6. Depth - 1 <= Depth /\ 1 <= Depth - 1 + 1 /\ 1 \in Nat \ {0}
    BY <2>2, <2>4
  <2> QED BY <1>2, <2>1, <2>2, <2>5, <2>6, RecordPart
<1>9. ASSUME NEW r \in 0 .. MaxRevision, Table!Commit(r) PROVE RowsRecorded'
  <2>1. /\ revision' = revision /\ (r < revision => revision - r < Depth)
        /\ Snapshots' = IF r >= revision THEN <<>>
                        ELSE SubSeq(Snapshots, Depth - (revision - r) + 1, Depth)
    BY <1>3, <1>9 DEF Table!Commit
  <2>2. CASE r >= revision
    <3>1. Depth' = 0
      BY <1>4, <2>1, <2>2
    <3>2. begun' = <<>>
      BY <1>3, <1>5, <2>1, <3>1
    <3>3. [i \in 1 .. Depth' |-> Snapshots'[i].rows] = <<>>
      BY <3>1
    <3> QED BY <1>4, <3>2, <3>3
  <2>3. CASE r < revision
    <3> DEFINE k == revision - r
    <3>1. k \in Nat /\ k < Depth /\ k >= 1
      BY <1>3, <2>1, <2>3
    <3>2. Snapshots' = SubSeq(Snapshots, Depth - k + 1, Depth)
      <4>1. ~(r >= revision)
        BY <1>3, <2>3
      <4> QED BY <2>1, <4>1
    <3> HIDE DEF k
    <3>3. Depth' = k
      BY <1>3, <1>4, <3>1, <3>2
    <3>4. begun' = SubSeq(begun, Depth - k + 1, Depth)
      BY <1>5, <2>1, <3>1, <3>3
    <3>5. /\ Depth - k + 1 \in Nat \ {0} /\ Depth - k + 1 <= Depth + 1
          /\ Depth \in Nat /\ Depth <= Depth
      BY <1>3, <3>1
    <3> QED BY <1>2, <3>2, <3>4, <3>5, RecordPart
  <2> QED BY <1>3, <2>2, <2>3
<1>10. ASSUME NEW r \in 0 .. MaxRevision, Table!SetRevision(r) PROVE UNCHANGED Snapshots
  BY <1>10 DEF Table!SetRevision
<1>11. ASSUME NEW v \in Value, Table!Create(v) PROVE UNCHANGED Snapshots
  BY <1>11 DEF Table!Create
<1>12. ASSUME NEW x, NEW v, Table!Modify(x, v) PROVE UNCHANGED Snapshots
  BY <1>12 DEF Table!Modify
<1>13. ASSUME NEW x, Table!Erase(x) PROVE UNCHANGED Snapshots
  BY <1>13 DEF Table!Erase
<1>14. CASE UNCHANGED Table!vars
  BY <1>6, <1>14 DEF Table!vars
<1> QED BY <1>2, <1>6, <1>7, <1>8, <1>9, <1>10, <1>11, <1>12, <1>13, <1>14
        DEF TableStep, Table!Next

LEMMA UndoGivesBack ==
  ASSUME RetryRefused = FALSE, RefInv, RowsRecorded, [HNext]_hvars, Undo
  PROVE  Rows' = begun[Depth]
<1>1. RefInv'
  BY NextRefInv DEF HNext, hvars
<1>2. Rows' = RowsAtStart(Top)
  BY <1>1, UndoRows DEF RefInv, IndInv
<1>3. Depth \in 1 .. Depth
  BY StackFacts DEF RefInv, IndInv, Undo
<1> QED BY <1>2, <1>3 DEF RowsRecorded, Top

(* undo leaves exactly the rows of the start of the session, whatever was  *)
(* created, modified, refused, removed, squashed or undone since, when no  *)
(* client modifies again an object whose modification was refused: that    *)
(* second modification is the only way to the violation that TLC finds     *)
(* without the condition.                                                  *)
THEOREM UndoAlwaysRestores == RetryRefused = FALSE => (HSpec => UndoRestores)
<1> SUFFICES ASSUME RetryRefused = FALSE PROVE HSpec => UndoRestores
  OBVIOUS
<1> DEFINE HInv == RefInv /\ RowsRecorded
<1>1. HInit => HInv
  <2> SUFFICES ASSUME HInit PROVE HInv
    OBVIOUS
  <2>1. RefInv /\ undo_stack = <<>> /\ begun = <<>>
    BY InitRefInv DEF HInit, Init
  <2>2. Depth = 0
    BY <2>1, EmptySeq DEF Depth
  <2>3. [i \in 1 .. Depth |-> RowsAtStart(undo_stack[i])] = <<>>
    BY <2>2
  <2> QED BY <2>1, <2>3 DEF RowsRecorded
<1>2. HInv /\ [HNext]_hvars => HInv'
  BY NextRefInv, NextRecorded DEF HNext, hvars
<1>3. HInv /\ [HNext]_hvars => [Undo => Rows' = begun[Depth]]_hvars
  BY UndoGivesBack
<1> QED BY <1>1, <1>2, <1>3, PTL DEF HSpec, UndoRestores
=============================================================================
