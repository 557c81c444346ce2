--------------------------- MODULE ReentrancyProofs ---------------------------
(***************************************************************************)
(* Proofs about Reentrancy: the two assumptions that undo_index makes      *)
(* after its callbacks are each broken by one kind of callback only, for   *)
(* any number of nodes and keys and any other nesting of calls.            *)
(***************************************************************************)
EXTENDS Reentrancy, TLAPS, SequenceTheorems

LEMMA Prepended ==
  ASSUME NEW S, NEW s \in Seq(S), NEW e \in S
  PROVE  /\ <<e>> \o s \in Seq(S) /\ <<e>> \o s # <<>>
         /\ Len(<<e>> \o s) = Len(s) + 1
         /\ (<<e>> \o s)[1] = e
         /\ \A i \in 1 .. Len(s) : (<<e>> \o s)[i + 1] = s[i]
         /\ \A i \in 2 .. Len(s) + 1 : (<<e>> \o s)[i] = s[i - 1]
         /\ Head(<<e>> \o s) = e /\ Tail(<<e>> \o s) = s
<1>1. <<e>> \in Seq(S) /\ Len(<<e>>) = 1 /\ <<e>>[1] = e
  OBVIOUS
<1>2. /\ <<e>> \o s \in Seq(S)
      /\ Len(<<e>> \o s) = Len(s) + 1
      /\ \A i \in 1 .. Len(s) + 1 :
           (<<e>> \o s)[i] = IF i <= 1 THEN <<e>>[i] ELSE s[i - 1]
  BY <1>1, ConcatProperties
<1>3. Len(s) \in Nat
  OBVIOUS
<1>4. /\ <<e>> \o s # <<>> /\ (<<e>> \o s)[1] = e
      /\ \A i \in 1 .. Len(s) : (<<e>> \o s)[i + 1] = s[i]
      /\ \A i \in 2 .. Len(s) + 1 : (<<e>> \o s)[i] = s[i - 1]
  BY <1>1, <1>2, <1>3
<1>5. Head(<<e>> \o s) = e /\ Tail(<<e>> \o s) = s
  <2>1. Head(<<e>> \o s) = (<<e>> \o s)[1]
    BY <1>2, <1>4
  <2>2. /\ Tail(<<e>> \o s) \in Seq(S)
        /\ Len(Tail(<<e>> \o s)) = Len(s)
        /\ \A i \in 1 .. Len(s) : Tail(<<e>> \o s)[i] = s[i]
    BY <1>2, <1>3, <1>4, HeadTailProperties
  <2> QED BY <1>4, <2>1, <2>2, SeqEqual
<1> QED BY <1>2, <1>4, <1>5

(* One element is taken out, and the others keep their order. *)
LEMMA TakenOut ==
  ASSUME NEW S, NEW s \in Seq(S), NEW i \in DOMAIN s
  PROVE  /\ RemoveAt(s, i) \in Seq(S) /\ Len(RemoveAt(s, i)) = Len(s) - 1
         /\ \A j \in 1 .. Len(s) - 1 :
              RemoveAt(s, i)[j] = IF j < i THEN s[j] ELSE s[j + 1]
<1> DEFINE a == SubSeq(s, 1, i - 1)
           b == SubSeq(s, i + 1, Len(s))
<1>1. Len(s) \in Nat /\ i \in 1 .. Len(s) /\ \A j \in 1 .. Len(s) : s[j] \in S
  OBVIOUS
<1>2. a \in Seq(S) /\ Len(a) = i - 1 /\ \A j \in 1 .. i - 1 : a[j] = s[j]
  <2>1. \A j \in 1 .. i - 1 : s[j] \in S
    BY <1>1
  <2> QED BY <1>1, <2>1, SubSeqProperties
<1>3. b \in Seq(S) /\ Len(b) = Len(s) - i /\ \A j \in 1 .. Len(s) - i : b[j] = s[i + j]
  <2>1. \A j \in i + 1 .. Len(s) : s[j] \in S
    BY <1>1
  <2> QED BY <1>1, <2>1, SubSeqProperties
<1> HIDE DEF a, b
<1>4. /\ a \o b \in Seq(S) /\ Len(a \o b) = Len(s) - 1
      /\ \A j \in 1 .. Len(s) - 1 :
           (a \o b)[j] = IF j <= i - 1 THEN a[j] ELSE b[j - (i - 1)]
  <2>1. /\ a \o b \in Seq(S) /\ Len(a \o b) = Len(a) + Len(b)
        /\ \A j \in 1 .. Len(a) + Len(b) :
             (a \o b)[j] = IF j <= Len(a) THEN a[j] ELSE b[j - Len(a)]
    BY <1>2, <1>3, ConcatProperties
  <2>2. Len(a) = i - 1 /\ Len(a) + Len(b) = Len(s) - 1
    BY <1>1, <1>2, <1>3
  <2> QED BY <2>1, <2>2
<1>5. RemoveAt(s, i) = a \o b
  BY DEF RemoveAt, a, b
<1>6. ASSUME NEW j \in 1 .. Len(s) - 1
      PROVE  (a \o b)[j] = IF j < i THEN s[j] ELSE s[j + 1]
  <2>1. CASE j < i
    BY <1>1, <1>2, <1>4, <2>1
  <2>2. CASE ~(j < i)
    <3>1. PICK m \in 1 .. Len(s) - i : m = j - (i - 1)
      BY <1>1, <2>2
    <3>2. i + m = j + 1 /\ ~(j <= i - 1) /\ ~(j < i)
      BY <1>1, <2>2, <3>1
    <3>3. (a \o b)[j] = b[m]
      BY <1>4, <3>1, <3>2
    <3>4. b[m] = s[i + m]
      BY <1>3
    <3> QED BY <3>2, <3>3, <3>4
  <2> QED BY <2>1, <2>2
<1> QED BY <1>4, <1>5, <1>6
-----------------------------------------------------------------------------
(* What holds whatever the callbacks call. *)

NodeType == [id : Nat, key : Key, in : BOOLEAN, stamped : BOOLEAN]
Call == [op : {"emplace", "modify"}, node : Nat, key : Key, backup : BOOLEAN]
Backup == [node : Nat, key : Key]

Types ==
  /\ nodes \in Seq(NodeType)
  /\ by_id \in Seq(Nat) /\ \A i \in DOMAIN by_id : by_id[i] \in DOMAIN nodes
  /\ _next_id \in Nat
  /\ calls \in Seq(Call)
  /\ \A i \in DOMAIN calls : calls[i].node \in DOMAIN nodes

(* Unless a constructor emplaces: the row that is to be inserted has the   *)
(* id that is next, and all others have a smaller one.                     *)
IdsBelow == \A i \in DOMAIN by_id : nodes[by_id[i]].id < _next_id
EmplaceKnows ==
  \A i \in DOMAIN calls :
    calls[i].op = "emplace" => nodes[calls[i].node].id = _next_id

(* Unless a modifier modifies: a modify that has made a backup finds it in *)
(* front.                                                                  *)
ModifyKnows ==
  \A i \in DOMAIN calls :
    calls[i].op = "modify" /\ calls[i].backup =>
      _old_values # <<>> /\ Head(_old_values).node = calls[i].node

IdInv == Types /\ IdsBelow /\ EmplaceKnows /\ SortedById
BackupInv == Types /\ _old_values \in Seq(Backup) /\ ModifyKnows

LEMMA InvInit == Init => IdInv /\ BackupInv
BY DEF Init, IdInv, BackupInv, Types, IdsBelow, EmplaceKnows, ModifyKnows, SortedById

(* A call begins. *)
LEMMA BeginCalls ==
  ASSUME Types, NEW c \in Call, calls' = <<c>> \o calls
  PROVE  /\ calls' \in Seq(Call)
         /\ \A i \in DOMAIN calls' :
              calls'[i] = c \/ (\E j \in DOMAIN calls : calls'[i] = calls[j])
         /\ NoneNested(c.op)' => \A j \in DOMAIN calls : calls[j].op # c.op
<1>1. /\ calls \in Seq(Call) /\ Len(calls) \in Nat /\ DOMAIN calls = 1 .. Len(calls)
  BY DEF Types
<1>2. /\ calls' \in Seq(Call)
      /\ DOMAIN calls' = 1 .. Len(calls) + 1 /\ calls'[1] = c
      /\ \A i \in 1 .. Len(calls) : calls'[i + 1] = calls[i]
      /\ \A i \in 2 .. Len(calls) + 1 : calls'[i] = calls[i - 1]
  BY <1>1, Prepended
<1>3. \A i \in DOMAIN calls' :
        i = 1 \/ (i - 1 \in DOMAIN calls /\ calls'[i] = calls[i - 1])
  BY <1>1, <1>2
<1>4. ASSUME NoneNested(c.op)', NEW j \in DOMAIN calls
      PROVE  calls[j].op # c.op
  <2>1. /\ j + 1 \in DOMAIN calls' /\ 1 \in DOMAIN calls' /\ j + 1 # 1
        /\ calls'[j + 1] = calls[j]
    BY <1>1, <1>2
  <2> QED BY <1>2, <1>4, <2>1 DEF NoneNested
<1> QED BY <1>1, <1>2, <1>3, <1>4

(* A call ends. *)
LEMMA EndCalls ==
  ASSUME Types, calls # <<>>, calls' = Tail(calls)
  PROVE  /\ calls' \in Seq(Call)
         /\ Head(calls) = calls[1] /\ 1 \in DOMAIN calls /\ calls[1] \in Call
         /\ \A i \in DOMAIN calls' : \E j \in DOMAIN calls :
              /\ calls'[i] = calls[j]
              /\ NoneNested(Head(calls).op) => calls[j].op # Head(calls).op
<1>1. /\ calls \in Seq(Call)
      /\ Len(calls) \in Nat /\ DOMAIN calls = 1 .. Len(calls) /\ 1 \in DOMAIN calls
  BY EmptySeq DEF Types
<1>2. /\ calls' \in Seq(Call)
      /\ DOMAIN calls' = 1 .. Len(calls) - 1
      /\ \A i \in DOMAIN calls' : calls'[i] = calls[i + 1]
  BY <1>1, HeadTailProperties
<1>3. \A i \in DOMAIN calls' : i + 1 \in DOMAIN calls /\ i \in Nat /\ i + 1 # 1
  BY <1>1, <1>2
<1>4. Head(calls) = calls[1] /\ calls[1] \in Call
  <2> HIDE DEF Call
  <2> QED BY <1>1, ElementOfSeq
<1>5. ASSUME NEW i \in DOMAIN calls', NoneNested(Head(calls).op)
      PROVE  calls[i + 1].op # Head(calls).op
  BY <1>1, <1>3, <1>4, <1>5 DEF NoneNested
<1> QED BY <1>1, <1>2, <1>3, <1>4, <1>5
-----------------------------------------------------------------------------
LEMMA EmplaceBeginStep ==
  ASSUME Types, NEW k \in Key, EmplaceBegin(k)
  PROVE  /\ Types'
         /\ IdInv /\ NoneNested("emplace")' => IdInv'
         /\ BackupInv => BackupInv'
<1> DEFINE n == Len(nodes) + 1
           row == [id |-> _next_id, key |-> k, in |-> FALSE, stamped |-> FALSE]
           c == [op |-> "emplace", node |-> n, key |-> k, backup |-> FALSE]
<1>1. /\ nodes' = Append(nodes, row) /\ calls' = <<c>> \o calls
      /\ UNCHANGED <<by_id, _next_id, _old_values>>
  BY DEF EmplaceBegin
<1>2. /\ Len(nodes) \in Nat /\ DOMAIN nodes = 1 .. Len(nodes)
      /\ row \in NodeType /\ row.id = _next_id
      /\ c \in Call /\ c.op = "emplace" /\ c.node = n
  BY DEF Types, NodeType, Call
<1>3. /\ nodes' \in Seq(NodeType) /\ DOMAIN nodes' = 1 .. n /\ nodes'[n] = row
      /\ \A m \in DOMAIN nodes : nodes'[m] = nodes[m] /\ m \in DOMAIN nodes'
  BY <1>1, <1>2, AppendProperties DEF Types
<1>4. /\ calls' \in Seq(Call)
      /\ \A i \in DOMAIN calls' :
           calls'[i] = c \/ (\E j \in DOMAIN calls : calls'[i] = calls[j])
      /\ NoneNested("emplace")' => \A j \in DOMAIN calls : calls[j].op # "emplace"
  <2> HIDE DEF c, row
  <2> QED BY <1>1, <1>2, BeginCalls
<1> HIDE DEF n, row, c
<1>5. Types'
  <2>1. n \in DOMAIN nodes'
    BY <1>2, <1>3 DEF n
  <2> QED BY <1>1, <1>2, <1>3, <1>4, <2>1 DEF Types
<1>6. ASSUME IdInv, NoneNested("emplace")' PROVE IdInv'
  <2>1. IdsBelow' /\ SortedById'
    BY <1>1, <1>3, <1>6 DEF IdInv, Types, IdsBelow, SortedById
  <2>2. EmplaceKnows'
    BY <1>1, <1>2, <1>3, <1>4, <1>6 DEF EmplaceKnows
  <2> QED BY <1>5, <2>1, <2>2 DEF IdInv
<1>7. ASSUME BackupInv PROVE BackupInv'
  <2>1. ModifyKnows'
    BY <1>1, <1>2, <1>4, <1>7 DEF BackupInv, ModifyKnows
  <2> QED BY <1>1, <1>5, <1>7, <2>1 DEF BackupInv
<1> QED BY <1>5, <1>6, <1>7

LEMMA EmplaceEndStep ==
  ASSUME Types, EmplaceEnd
  PROVE  /\ Types'
         /\ IdInv /\ NoneNested("emplace") => IdInv'
         /\ BackupInv => BackupInv'
<1> DEFINE n == Head(calls).node
<1>1. /\ calls # <<>> /\ Head(calls).op = "emplace" /\ calls' = Tail(calls)
      /\ UNCHANGED _old_values
  BY DEF EmplaceEnd, Running
<1>2. /\ calls' \in Seq(Call)
      /\ Head(calls) = calls[1] /\ 1 \in DOMAIN calls
      /\ \A i \in DOMAIN calls' : \E j \in DOMAIN calls :
           calls'[i] = calls[j] /\ (NoneNested("emplace") => calls[j].op # "emplace")
  BY <1>1, EndCalls
<1>3. n \in DOMAIN nodes /\ n \in Nat /\ (IdInv => nodes[n].id = _next_id)
  BY <1>1, <1>2 DEF IdInv, Types, EmplaceKnows
<1>4. BackupInv => ModifyKnows'
  BY <1>1, <1>2 DEF BackupInv, ModifyKnows
<1>5. CASE UNCHANGED <<nodes, by_id, _next_id>>
  <2>1. Types'
    BY <1>1, <1>2, <1>5 DEF Types
  <2>2. ASSUME IdInv, NoneNested("emplace") PROVE IdInv'
    <3>1. EmplaceKnows'
      BY <1>2, <2>2 DEF EmplaceKnows
    <3> QED BY <1>5, <2>1, <2>2, <3>1 DEF IdInv, IdsBelow, SortedById
  <2> QED BY <1>1, <1>4, <2>1, <2>2 DEF BackupInv
<1>6. CASE /\ nodes' = [nodes EXCEPT ![n].in = TRUE, ![n].stamped = TRUE]
           /\ by_id' = Append(by_id, n)
           /\ _next_id' = _next_id + 1
  <2>1. /\ nodes' \in Seq(NodeType) /\ DOMAIN nodes' = DOMAIN nodes
        /\ \A m \in DOMAIN nodes : nodes'[m].id = nodes[m].id /\ nodes[m].id \in Nat
    <3>1. Len(nodes) \in Nat /\ DOMAIN nodes = 1 .. Len(nodes)
          /\ nodes \in [1 .. Len(nodes) -> NodeType]
      BY DEF Types
    <3>2. /\ nodes' \in [1 .. Len(nodes) -> NodeType]
          /\ \A m \in DOMAIN nodes : nodes'[m].id = nodes[m].id /\ nodes[m].id \in Nat
      BY <1>3, <1>6, <3>1 DEF NodeType
    <3> QED BY <3>1, <3>2
  <2>2. /\ by_id \in Seq(Nat) /\ Len(by_id) \in Nat /\ DOMAIN by_id = 1 .. Len(by_id)
        /\ \A i \in DOMAIN by_id : by_id[i] \in DOMAIN nodes
        /\ _next_id \in Nat
    BY DEF Types
  <2>3. /\ by_id' \in Seq(Nat) /\ DOMAIN by_id' = 1 .. Len(by_id) + 1
        /\ by_id'[Len(by_id) + 1] = n
        /\ \A i \in DOMAIN by_id : by_id'[i] = by_id[i]
    BY <1>3, <1>6, <2>2, AppendProperties
  <2> HIDE DEF n
  <2>4. \A i \in DOMAIN by_id' : i \in DOMAIN by_id \/ i = Len(by_id) + 1
    BY <2>2, <2>3
  <2>5. Types'
    <3>1. \A i \in DOMAIN by_id' : by_id'[i] \in DOMAIN nodes'
      BY <1>3, <2>1, <2>2, <2>3, <2>4
    <3>2. _next_id' \in Nat
      BY <1>6, <2>2
    <3>3. \A i \in DOMAIN calls' : calls'[i].node \in DOMAIN nodes'
      BY <1>2, <2>1 DEF Types
    <3> QED BY <1>2, <2>1, <2>3, <3>1, <3>2, <3>3 DEF Types
  <2>6. ASSUME IdInv, NoneNested("emplace") PROVE IdInv'
    <3>1. \A i \in DOMAIN by_id :
            nodes'[by_id'[i]].id < _next_id /\ nodes'[by_id'[i]].id \in Nat
      BY <2>1, <2>2, <2>3, <2>6 DEF IdInv, IdsBelow
    <3>2. nodes'[by_id'[Len(by_id) + 1]].id = _next_id
      BY <1>3, <2>1, <2>3, <2>6
    <3>3. IdsBelow'
      <4>1. \A i \in DOMAIN by_id : nodes'[by_id'[i]].id < _next_id + 1
        BY <2>2, <3>1
      <4>2. _next_id < _next_id + 1
        BY <2>2
      <4> QED BY <1>6, <2>4, <3>2, <4>1, <4>2 DEF IdsBelow
    <3>4. SortedById'
      <4>1. SUFFICES ASSUME NEW i \in DOMAIN by_id', NEW j \in DOMAIN by_id', i < j
                     PROVE  nodes'[by_id'[i]].id < nodes'[by_id'[j]].id
        BY DEF SortedById
      <4>2. i \in DOMAIN by_id
        BY <2>2, <2>3, <2>4, <4>1
      <4>3. CASE j \in DOMAIN by_id
        BY <2>1, <2>2, <2>3, <2>6, <4>1, <4>2, <4>3 DEF IdInv, SortedById
      <4>4. CASE j = Len(by_id) + 1
        BY <3>1, <3>2, <4>2, <4>4
      <4> QED BY <2>4, <4>3, <4>4
    <3>5. EmplaceKnows'
      BY <1>2, <2>6 DEF EmplaceKnows
    <3> QED BY <2>5, <3>3, <3>4, <3>5 DEF IdInv
  <2> QED BY <1>1, <1>4, <2>5, <2>6 DEF BackupInv
<1> QED BY <1>5, <1>6 DEF EmplaceEnd

LEMMA NewSessionStep ==
  ASSUME Types, NewSession
  PROVE  /\ Types'
         /\ IdInv => IdInv'
         /\ BackupInv => BackupInv'
<1>1. /\ calls = <<>> /\ calls' = <<>> /\ _old_values' = <<>>
      /\ nodes' = [n \in DOMAIN nodes |-> [nodes[n] EXCEPT !.stamped = FALSE]]
      /\ UNCHANGED <<by_id, _next_id>>
  BY DEF NewSession
<1>2. /\ Len(nodes) \in Nat /\ DOMAIN nodes = 1 .. Len(nodes)
      /\ \A n \in DOMAIN nodes : nodes[n] \in NodeType
  BY DEF Types
<1>3. /\ nodes' \in [1 .. Len(nodes) -> NodeType] /\ DOMAIN nodes' = DOMAIN nodes
      /\ \A n \in DOMAIN nodes : nodes'[n].id = nodes[n].id
  BY <1>1, <1>2 DEF NodeType
<1>4. nodes' \in Seq(NodeType)
  BY <1>2, <1>3
<1>5. Types'
  BY <1>1, <1>3, <1>4 DEF Types
<1>6. IdInv => IdInv'
  BY <1>1, <1>3, <1>5 DEF IdInv, Types, EmplaceKnows, IdsBelow, SortedById
<1>7. BackupInv => BackupInv'
  BY <1>1, <1>5 DEF BackupInv, ModifyKnows
<1> QED BY <1>5, <1>6, <1>7

LEMMA ModifyBeginStep ==
  ASSUME Types, NEW n \in Rows, ModifyBegin(n)
  PROVE  /\ Types'
         /\ IdInv => IdInv'
         /\ BackupInv /\ NoneNested("modify")' => BackupInv'
<1> DEFINE v == [node |-> n, key |-> nodes[n].key]
           c == [op |-> "modify", node |-> n, key |-> nodes[n].key,
                 backup |-> ~nodes[n].stamped]
<1>1. /\ calls' = <<c>> \o calls
      /\ nodes' = [nodes EXCEPT ![n].stamped = TRUE]
      /\ _old_values' = IF nodes[n].stamped THEN _old_values ELSE <<v>> \o _old_values
      /\ UNCHANGED <<by_id, _next_id>>
  BY DEF ModifyBegin
<1>2. /\ Len(nodes) \in Nat /\ DOMAIN nodes = 1 .. Len(nodes)
      /\ \A m \in DOMAIN nodes : nodes[m] \in NodeType
      /\ n \in DOMAIN nodes /\ n \in Nat
  BY DEF Types, Rows
<1>3. /\ c \in Call /\ v \in Backup
      /\ c.op = "modify" /\ c.node = n /\ v.node = n /\ c.backup = ~nodes[n].stamped
  BY <1>2 DEF Call, Backup, NodeType
<1>4. /\ nodes' \in Seq(NodeType) /\ DOMAIN nodes' = DOMAIN nodes
      /\ \A m \in DOMAIN nodes : nodes'[m].id = nodes[m].id
  <2>1. nodes' \in [1 .. Len(nodes) -> NodeType]
    BY <1>1, <1>2 DEF NodeType
  <2>2. \A m \in DOMAIN nodes : nodes'[m].id = nodes[m].id
    BY <1>1, <1>2 DEF NodeType
  <2> QED BY <1>2, <2>1, <2>2
<1> HIDE DEF v, c
<1>5. /\ calls' \in Seq(Call)
      /\ \A i \in DOMAIN calls' :
           calls'[i] = c \/ (\E j \in DOMAIN calls : calls'[i] = calls[j])
      /\ NoneNested("modify")' => \A j \in DOMAIN calls : calls[j].op # "modify"
  BY <1>1, <1>3, BeginCalls
<1>6. Types'
  <2>1. \A i \in DOMAIN calls' : calls'[i].node \in DOMAIN nodes'
    BY <1>2, <1>3, <1>4, <1>5 DEF Types
  <2> QED BY <1>1, <1>4, <1>5, <2>1 DEF Types
<1>7. ASSUME IdInv PROVE IdInv'
  <2>1. EmplaceKnows'
    BY <1>1, <1>3, <1>4, <1>5, <1>7 DEF IdInv, Types, EmplaceKnows
  <2> QED BY <1>1, <1>4, <1>6, <1>7, <2>1 DEF IdInv, Types, IdsBelow, SortedById
<1>8. ASSUME BackupInv, NoneNested("modify")' PROVE BackupInv'
  <2>1. _old_values \in Seq(Backup)
    BY <1>8 DEF BackupInv
  <2>2. /\ _old_values' \in Seq(Backup)
        /\ c.backup => _old_values' # <<>> /\ Head(_old_values').node = n
    <3>1. CASE nodes[n].stamped
      BY <1>1, <1>3, <2>1, <3>1
    <3>2. CASE ~nodes[n].stamped
      BY <1>1, <1>3, <2>1, <3>2, Prepended
    <3> QED BY <3>1, <3>2
  <2>3. ModifyKnows'
    BY <1>3, <1>5, <1>8, <2>2 DEF ModifyKnows
  <2> QED BY <1>6, <2>2, <2>3 DEF BackupInv
<1> QED BY <1>6, <1>7, <1>8

LEMMA ModifyEndStep ==
  ASSUME Types, NEW k \in Key, ModifyEnd(k)
  PROVE  /\ Types'
         /\ IdInv => IdInv'
         /\ BackupInv /\ NoneNested("modify") => BackupInv'
<1> DEFINE n == Head(calls).node
           was == Head(calls).key
<1>1. /\ calls # <<>> /\ Head(calls).op = "modify" /\ calls' = Tail(calls)
      /\ UNCHANGED _next_id
      /\ \/ /\ nodes' = [nodes EXCEPT ![n].key = k]
            /\ UNCHANGED <<_old_values, by_id>>
         \/ /\ Head(calls).backup
            /\ nodes' = [nodes EXCEPT ![n].key = was]
            /\ _old_values' = Tail(_old_values)
            /\ UNCHANGED by_id
         \/ /\ nodes' = [nodes EXCEPT ![n].in = FALSE]
            /\ \E i \in DOMAIN by_id : by_id[i] = n /\ by_id' = RemoveAt(by_id, i)
            /\ UNCHANGED _old_values
  BY DEF ModifyEnd, Running
<1>2. /\ calls' \in Seq(Call)
      /\ Head(calls) = calls[1] /\ 1 \in DOMAIN calls /\ calls[1] \in Call
      /\ \A i \in DOMAIN calls' : \E j \in DOMAIN calls :
           calls'[i] = calls[j] /\ (NoneNested("modify") => calls[j].op # "modify")
  BY <1>1, EndCalls
<1>3. /\ Len(nodes) \in Nat /\ DOMAIN nodes = 1 .. Len(nodes)
      /\ \A m \in DOMAIN nodes : nodes[m] \in NodeType
      /\ n \in DOMAIN nodes /\ was \in Key
  BY <1>2 DEF Types, Call
<1> HIDE DEF n, was
<1>4. /\ nodes' \in Seq(NodeType) /\ DOMAIN nodes' = DOMAIN nodes
      /\ \A m \in DOMAIN nodes : nodes'[m].id = nodes[m].id
  <2>1. ASSUME NEW x \in Key, nodes' = [nodes EXCEPT ![n].key = x]
        PROVE  /\ nodes' \in [1 .. Len(nodes) -> NodeType]
               /\ \A m \in DOMAIN nodes : nodes'[m].id = nodes[m].id
    BY <1>3, <2>1 DEF NodeType
  <2>2. ASSUME nodes' = [nodes EXCEPT ![n].in = FALSE]
        PROVE  /\ nodes' \in [1 .. Len(nodes) -> NodeType]
               /\ \A m \in DOMAIN nodes : nodes'[m].id = nodes[m].id
    BY <1>3, <2>2 DEF NodeType
  <2>3. /\ nodes' \in [1 .. Len(nodes) -> NodeType]
        /\ \A m \in DOMAIN nodes : nodes'[m].id = nodes[m].id
    BY <1>1, <1>3, <2>1, <2>2
  <2> QED BY <1>3, <2>3
<1>5. \/ UNCHANGED by_id
      \/ \E r \in DOMAIN by_id : by_id' = RemoveAt(by_id, r)
  BY <1>1
<1>6. /\ by_id' \in Seq(Nat)
      /\ \A i \in DOMAIN by_id' : by_id'[i] \in DOMAIN nodes
      /\ IdInv => \A i \in DOMAIN by_id' : nodes[by_id'[i]].id < _next_id
      /\ IdInv => \A i, j \in DOMAIN by_id' :
                    i < j => nodes[by_id'[i]].id < nodes[by_id'[j]].id
  <2>1. CASE UNCHANGED by_id
    BY <2>1 DEF IdInv, Types, IdsBelow, SortedById
  <2>2. ASSUME NEW r \in DOMAIN by_id, by_id' = RemoveAt(by_id, r)
        PROVE  /\ by_id' \in Seq(Nat)
               /\ \A i \in DOMAIN by_id' : by_id'[i] \in DOMAIN nodes
               /\ IdInv => \A i \in DOMAIN by_id' : nodes[by_id'[i]].id < _next_id
               /\ IdInv => \A i, j \in DOMAIN by_id' :
                             i < j => nodes[by_id'[i]].id < nodes[by_id'[j]].id
    <3>1. /\ by_id \in Seq(Nat) /\ Len(by_id) \in Nat /\ DOMAIN by_id = 1 .. Len(by_id)
      BY DEF Types
    <3>2. /\ by_id' \in Seq(Nat) /\ DOMAIN by_id' = 1 .. Len(by_id) - 1
          /\ \A j \in 1 .. Len(by_id) - 1 :
               by_id'[j] = IF j < r THEN by_id[j] ELSE by_id[j + 1]
      <4>1. /\ RemoveAt(by_id, r) \in Seq(Nat)
            /\ Len(RemoveAt(by_id, r)) = Len(by_id) - 1
            /\ \A j \in 1 .. Len(by_id) - 1 :
                 RemoveAt(by_id, r)[j] = IF j < r THEN by_id[j] ELSE by_id[j + 1]
        BY <3>1, TakenOut
      <4>2. DOMAIN RemoveAt(by_id, r) = 1 .. Len(by_id) - 1
        BY <4>1
      <4> QED BY <2>2, <4>1, <4>2
    <3> DEFINE old(j) == IF j < r THEN j ELSE j + 1
    <3>3. /\ \A j \in DOMAIN by_id' : old(j) \in DOMAIN by_id /\ by_id'[j] = by_id[old(j)]
          /\ \A i, j \in DOMAIN by_id' : i < j => old(i) < old(j)
      <4>1. r \in 1 .. Len(by_id)
        BY <2>2, <3>1
      <4>2. \A j \in 1 .. Len(by_id) - 1 : old(j) \in 1 .. Len(by_id)
        BY <3>1, <4>1
      <4>3. \A i, j \in 1 .. Len(by_id) - 1 : i < j => old(i) < old(j)
        BY <3>1, <4>1
      <4>4. \A j \in 1 .. Len(by_id) - 1 : by_id'[j] = by_id[old(j)]
        BY <3>2
      <4> HIDE DEF old
      <4> QED BY <3>1, <3>2, <4>2, <4>3, <4>4
    <3> HIDE DEF old
    <3> QED BY <3>2, <3>3 DEF IdInv, Types, IdsBelow, SortedById
  <2> QED BY <1>5, <2>1, <2>2
<1>7. Types'
  <2>1. \A i \in DOMAIN calls' : calls'[i].node \in DOMAIN nodes'
    BY <1>2, <1>4 DEF Types
  <2> QED BY <1>1, <1>2, <1>4, <1>6, <2>1 DEF Types
<1>8. ASSUME IdInv PROVE IdInv'
  <2>1. IdsBelow' /\ SortedById'
    BY <1>1, <1>4, <1>6, <1>8 DEF IdsBelow, SortedById
  <2>2. EmplaceKnows'
    <3>1. \A j \in DOMAIN calls : calls[j].node \in DOMAIN nodes
      BY DEF Types
    <3>2. \A i \in DOMAIN calls' : \E j \in DOMAIN calls : calls'[i] = calls[j]
      BY <1>2
    <3> QED BY <1>1, <1>4, <1>8, <3>1, <3>2 DEF IdInv, EmplaceKnows
  <2> QED BY <1>7, <2>1, <2>2 DEF IdInv
<1>9. ASSUME BackupInv, NoneNested("modify") PROVE BackupInv'
  <2>1. _old_values' \in Seq(Backup)
    <3>1. CASE UNCHANGED _old_values
      BY <1>9, <3>1 DEF BackupInv
    <3>2. CASE Head(calls).backup /\ _old_values' = Tail(_old_values)
      <4>1. _old_values # <<>> /\ _old_values \in Seq(Backup)
        BY <1>1, <1>2, <1>9, <3>2 DEF BackupInv, ModifyKnows
      <4> QED BY <3>2, <4>1, HeadTailProperties
    <3> QED BY <1>1, <3>1, <3>2
  <2>2. ModifyKnows'
    BY <1>2, <1>9 DEF ModifyKnows
  <2> QED BY <1>7, <2>1, <2>2 DEF BackupInv
<1> QED BY <1>7, <1>8, <1>9
-----------------------------------------------------------------------------
LEMMA ReentrancyStep ==
  ASSUME Types, [Next]_vars
  PROVE  /\ Types'
         /\ IdInv /\ NoneNested("emplace") /\ NoneNested("emplace")' => IdInv'
         /\ BackupInv /\ NoneNested("modify") /\ NoneNested("modify")' => BackupInv'
<1>1. CASE UNCHANGED vars
  BY <1>1 DEF vars, IdInv, BackupInv, Types, IdsBelow, EmplaceKnows, ModifyKnows, SortedById
<1>2. CASE Next
  BY <1>2, EmplaceBeginStep, EmplaceEndStep, NewSessionStep, ModifyBeginStep, ModifyEndStep
     DEF Next
<1> QED BY <1>1, <1>2

(* A new row may be appended to the first index without a search, because  *)
(* its id is greater than all others: only a constructor that emplaces     *)
(* into the index that it is emplaced in can break this, whatever else     *)
(* constructors and modifiers call.                                        *)
THEOREM OnlyNestedEmplaceUnsorts ==
  Spec => ([]NoneNested("emplace") => []SortedById)
<1>1. IdInv => Types /\ SortedById
  BY DEF IdInv
<1>2. /\ IdInv /\ NoneNested("emplace") /\ NoneNested("emplace")' /\ [Next]_vars
      => IdInv'
  BY <1>1, ReentrancyStep
<1> QED BY <1>1, <1>2, InvInit, PTL DEF Spec

(* assert(backup == &_old_values.front()) in modify: only a modifier that  *)
(* modifies a row of its own index can make it fail, whatever else         *)
(* constructors and modifiers call.                                        *)
THEOREM OnlyNestedModifyMixes ==
  Spec => ([]NoneNested("modify") => FrontIsBackup)
<1> DEFINE Own == \A k \in Key : ModifyEnd(k) /\ Refused(k) =>
                      _old_values # <<>> /\ Head(_old_values).node = Head(calls).node
<1>1. BackupInv => Types
  BY DEF BackupInv
<1>2. /\ BackupInv /\ NoneNested("modify") /\ NoneNested("modify")' /\ [Next]_vars
      => BackupInv'
  BY <1>1, ReentrancyStep
<1>3. BackupInv => Own
  <2>1. SUFFICES ASSUME BackupInv, NEW k \in Key, ModifyEnd(k), Refused(k)
                 PROVE  _old_values # <<>> /\ Head(_old_values).node = Head(calls).node
    OBVIOUS
  <2>2. calls # <<>> /\ Head(calls).op = "modify" /\ Head(calls).backup
        /\ calls' = Tail(calls)
    BY <2>1 DEF ModifyEnd, Running, Refused
  <2>3. Head(calls) = calls[1] /\ 1 \in DOMAIN calls
    BY <1>1, <2>1, <2>2, EndCalls
  <2> QED BY <2>1, <2>2, <2>3 DEF BackupInv, ModifyKnows
<1>4. FrontIsBackup <=> [][Own]_vars
  BY DEF FrontIsBackup
<1> HIDE DEF Own
<1> QED BY <1>2, <1>3, <1>4, InvInit, PTL DEF Spec
===============================================================================
