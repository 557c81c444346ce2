---------------------------- MODULE NodeAllocator ----------------------------
(***************************************************************************)
(* chainbase::chainbase_node_allocator: nodes are taken from the segment   *)
(* in batches, and a node that is given back goes to a free list whose     *)
(* links are stored in the free nodes themselves.  Addresses are counted   *)
(* in nodes; 0 is the null pointer.                                        *)
(***************************************************************************)
EXTENDS Integers, FiniteSets

CONSTANTS BatchSize,   \* allocation_batch_size
          Capacity     \* nodes the segment has room for

ASSUME NodeAllocatorAssumption == BatchSize \in Nat \ {0} /\ Capacity \in Nat

VARIABLES taken,           \* nodes of the segment handed to this allocator
          used,            \* nodes in the hands of the container
          _freelist,       \* address of the first free node
          _next,           \* free node -> the link stored in it
          _freelist_size

vars == <<taken, used, _freelist, _next, _freelist_size>>
Node == 1 .. Capacity

Init == /\ taken = 0 /\ used = {}
        /\ _freelist = 0 /\ _next = [n \in {} |-> 0] /\ _freelist_size = 0

(* The list that get_some builds in a batch that starts behind node b *)
Batch == taken + 1 .. taken + BatchSize
BatchLinks_open == [n \in Batch |-> n + 1]   \* seeded bug: no last node
BatchLinks == [n \in Batch |-> IF n = taken + BatchSize THEN 0 ELSE n + 1]

(* allocate(1) from the free list L that begins at node n: the link in n   *)
(* is destroyed, the caller owns n.                                        *)
Pop(n, L) ==
  /\ used' = used \cup {n}
  /\ _freelist' = L[n]
  /\ _next' = [m \in DOMAIN L \ {n} |-> L[m]]

AllocateFree ==
  /\ _freelist # 0
  /\ Pop(_freelist, _next)
  /\ _freelist_size' = _freelist_size - 1
  /\ UNCHANGED taken

(* With an empty free list get_some comes first.  When the segment is full *)
(* it throws before it has changed anything.                               *)
AllocateBatch ==
  /\ _freelist = 0
  /\ taken + BatchSize <= Capacity
  /\ Pop(taken + 1, BatchLinks)
  /\ taken' = taken + BatchSize
  /\ _freelist_size' = _freelist_size + BatchSize - 1

Deallocate_uncounted(n) ==   \* seeded bug
  /\ _freelist' = n
  /\ _next' = [m \in DOMAIN _next \cup {n} |-> IF m = n THEN _freelist ELSE _next[m]]
  /\ used' = used \ {n}
  /\ UNCHANGED <<taken, _freelist_size>>
Deallocate(n) ==
  /\ _freelist' = n
  /\ _next' = [m \in DOMAIN _next \cup {n} |-> IF m = n THEN _freelist ELSE _next[m]]
  /\ _freelist_size' = _freelist_size + 1
  /\ used' = used \ {n}
  /\ UNCHANGED taken

Next == AllocateFree \/ AllocateBatch \/ \E n \in used : Deallocate(n)
Spec == Init /\ [][Next]_vars

(* The k-th node of the free list, 0 behind its end *)
Nth == LET at[k \in 0 .. Capacity] ==
             IF k = 0 THEN _freelist
             ELSE IF at[k - 1] \in DOMAIN _next THEN _next[at[k - 1]] ELSE 0
       IN at
Listed == {Nth[k] : k \in 0 .. Capacity} \ {0}

(* Every node of the allocator is in exactly one place: in the hands of    *)
(* the container or on the free list.  No node is handed out twice, none   *)
(* is lost, and the list does not lead out of the allocator's nodes.       *)
NodesPartitioned ==
  /\ used \cap Listed = {}
  /\ used \cup Listed = 1 .. taken
  /\ Listed = DOMAIN _next

(* The list ends after _freelist_size nodes: freelist_memory_usage tells   *)
(* how much of the segment can be reclaimed, and never underflows.         *)
SizeExact == _freelist_size = Cardinality(Listed)
=============================================================================
