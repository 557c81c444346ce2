------------------------------ MODULE Reentrancy ------------------------------
(***************************************************************************)
(* The calls that chainbase::undo_index makes to its client in the middle  *)
(* of an operation (include/chainbase/undo_index.hpp): emplace runs a      *)
(* constructor and modify a modifier, and these may call emplace and       *)
(* modify of the same index, of any row, as deep as they like: the code    *)
(* checks nothing.  One session is open all the time, and there is one     *)
(* unique secondary index.                                                 *)
(*                                                                         *)
(* A callback writes its object after its own calls return, and catches    *)
(* what they throw.  Assertions are compiled out.  Nodes are named by the  *)
(* order of their allocation, since ids are what is in question.           *)
(***************************************************************************)
EXTENDS Integers, Sequences, SequencesExt

CONSTANTS Key,
          MaxNodes,   \* bound on the nodes that are ever allocated
          MaxCalls    \* bound on the depth of the calls

VARIABLES nodes,       \* node -> id, key, is it in the trees, is it stamped
          by_id,       \* the first index: nodes in order of id
          _next_id,
          _old_values, \* backups, newest first
          calls        \* running operations, innermost first; key: the one
                       \* that the row is created with or had before modify

vars == <<nodes, by_id, _next_id, _old_values, calls>>

Init ==
  /\ nodes = <<>> /\ by_id = <<>> /\ _next_id = 0
  /\ _old_values = <<>> /\ calls = <<>>

Rows == {n \in DOMAIN nodes : nodes[n].in}
Free(n, k) == \A m \in Rows \ {n} : nodes[m].key # k
Running(op) == calls # <<>> /\ Head(calls).op = op

(* emplace, up to the constructor: the id is taken from _next_id. *)
EmplaceBegin(k) ==
  /\ Len(nodes) < MaxNodes /\ Len(calls) < MaxCalls
  /\ nodes' = Append(nodes, [id |-> _next_id, key |-> k, in |-> FALSE,
                             stamped |-> FALSE])
  /\ calls' = <<[op |-> "emplace", node |-> Len(nodes) + 1, key |-> k,
                 backup |-> FALSE]>> \o calls
  /\ UNCHANGED <<by_id, _next_id, _old_values>>

(* The rest: the secondary index looks for duplicates, the first one is    *)
(* only appended to.  A row that does not fit is destroyed.                *)
EmplaceEnd ==
  /\ Running("emplace")
  /\ LET n == Head(calls).node
     IN IF Free(n, nodes[n].key)
        THEN /\ nodes' = [nodes EXCEPT ![n].in = TRUE, ![n].stamped = TRUE]
             /\ by_id' = Append(by_id, n)
             /\ _next_id' = _next_id + 1
        ELSE UNCHANGED <<nodes, by_id, _next_id>>
  /\ calls' = Tail(calls)
  /\ UNCHANGED _old_values

(* commit of everything, and add_session: no row has a backup, and none is *)
(* stamped as changed in the session.                                      *)
NewSession ==
  /\ calls = <<>>
  /\ nodes' = [n \in DOMAIN nodes |-> [nodes[n] EXCEPT !.stamped = FALSE]]
  /\ _old_values' = <<>>
  /\ UNCHANGED <<by_id, _next_id, calls>>

(* modify, up to the modifier: on_modify *)
ModifyBegin(n) ==
  /\ n \in Rows /\ Len(calls) < MaxCalls
  /\ _old_values' = IF nodes[n].stamped THEN _old_values
                    ELSE <<[node |-> n, key |-> nodes[n].key]>> \o _old_values
  /\ nodes' = [nodes EXCEPT ![n].stamped = TRUE]
  /\ calls' = <<[op |-> "modify", node |-> n, key |-> nodes[n].key,
                 backup |-> ~nodes[n].stamped]>> \o calls
  /\ UNCHANGED <<by_id, _next_id>>

(* The rest: key k stays, or the backup is moved back and the front of     *)
(* _old_values is popped, or the row, which this session has changed       *)
(* before, is removed.  A row whose old key is taken by now keeps its      *)
(* place among the duplicates (insert_before).  When an inner call has     *)
(* removed the row, post_modify follows links that are gone, which is      *)
(* undefined: the history ends there.                                      *)
ModifyEnd(k) ==
  /\ Running("modify")
  /\ LET c == Head(calls)
         n == c.node
     IN /\ nodes[n].in
        /\ CASE Free(n, k) ->
                  /\ nodes' = [nodes EXCEPT ![n].key = k]
                  /\ UNCHANGED <<_old_values, by_id>>
             [] ~Free(n, k) /\ c.backup ->
                  /\ nodes' = [nodes EXCEPT ![n].key = c.key]
                  /\ _old_values' = Tail(_old_values)
                  /\ UNCHANGED by_id
             [] ~Free(n, k) /\ ~c.backup ->
                  /\ nodes' = [nodes EXCEPT ![n].in = FALSE]
                  /\ \E i \in DOMAIN by_id :
                       by_id[i] = n /\ by_id' = RemoveAt(by_id, i)
                  /\ UNCHANGED _old_values
  /\ calls' = Tail(calls)
  /\ UNCHANGED _next_id

Next ==
  \/ \E k \in Key : EmplaceBegin(k)
  \/ EmplaceEnd
  \/ NewSession
  \/ \E n \in Rows : ModifyBegin(n)
  \/ \E k \in Key : ModifyEnd(k)

Spec == Init /\ [][Next]_vars

-----------------------------------------------------------------------------
(* "cannot fail and we know that it will definitely insert at the end":    *)
(* the first index, to which emplace appends without comparing, is         *)
(* strictly sorted by id.  Only a constructor that emplaces can break it.  *)
SortedById ==
  \A i, j \in DOMAIN by_id : i < j => nodes[by_id[i]].id < nodes[by_id[j]].id

(* assert(backup == &_old_values.front()): the backup that a refused       *)
(* modify pops is its own, not one that its modifier made on the way.      *)
Refused(k) == ~Free(Head(calls).node, k) /\ Head(calls).backup
FrontIsBackup ==
  [][\A k \in Key : ModifyEnd(k) /\ Refused(k) =>
       _old_values # <<>> /\ Head(_old_values).node = Head(calls).node]_vars

(* No operation op is called while another one runs. *)
NoneNested(op) ==
  \A i, j \in DOMAIN calls : calls[i].op = op /\ calls[j].op = op => i = j
===============================================================================
