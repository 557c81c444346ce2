------------------------- MODULE NodeAllocatorProofs -------------------------
(***************************************************************************)
(* Proofs about NodeAllocator: the free list holds every free node once,   *)
(* for any size of a batch and of the segment.                             *)
(***************************************************************************)
EXTENDS NodeAllocator, TLAPS, FiniteSetTheorems, WellFoundedInduction

(* s lists the free nodes in the order of the links, _freelist_size of them *)
IsFreeList(s) ==
  /\ s \in [1 .. _freelist_size -> 1 .. taken]
  /\ \A j, k \in 1 .. _freelist_size : s[j] = s[k] => j = k
  /\ \A x : x \in DOMAIN _next <=> \E k \in 1 .. _freelist_size : s[k] = x
  /\ _freelist = IF _freelist_size = 0 THEN 0 ELSE s[1]
  /\ \A k \in 1 .. _freelist_size :
       _next[s[k]] = IF k = _freelist_size THEN 0 ELSE s[k + 1]

(* The inductive invariant: there is such a list, of the nodes that are    *)
(* not in use.                                                             *)
AllocInv ==
  /\ taken \in 0 .. Capacity /\ _freelist_size \in Nat
  /\ used \cap DOMAIN _next = {} /\ used \cup DOMAIN _next = 1 .. taken
  /\ \E s : IsFreeList(s)

----------------------------------------------------------------------------
LEMMA LeastNumber ==
  ASSUME NEW T, T \subseteq Nat, T # {}
  PROVE  \E x \in T : \A y \in T : x <= y
<1>1. PICK x \in T : \A y \in T : ~(<<y, x>> \in OpToRel(<, Nat))
  BY NatLessThanWellFounded, WFMin, Zenon
<1>2. \A y \in T : ~(y < x)
  BY <1>1 DEF OpToRel
<1> QED BY <1>2

(* A list of distinct nodes is not longer than the segment. *)
LEMMA ListBounded ==
  ASSUME AllocInv, NEW s, IsFreeList(s)
  PROVE  _freelist_size <= Capacity
<1>1. taken \in Nat /\ taken <= Capacity /\ Capacity \in Nat /\ _freelist_size \in Nat
  BY NodeAllocatorAssumption DEF AllocInv
<1>2. s \in Injection(1 .. _freelist_size, 1 .. taken)
  BY DEF IsFreeList, Injection, IsInjective
<1>3. /\ IsFiniteSet(1 .. taken) /\ Cardinality(1 .. taken) = taken
      /\ Cardinality(1 .. _freelist_size) = _freelist_size
  <2>1. /\ IsFiniteSet(1 .. taken)
        /\ Cardinality(1 .. taken) = IF 1 > taken THEN 0 ELSE taken - 1 + 1
    BY <1>1, FS_Interval
  <2>2. Cardinality(1 .. _freelist_size)
          = IF 1 > _freelist_size THEN 0 ELSE _freelist_size - 1 + 1
    BY <1>1, FS_Interval
  <2> QED BY <1>1, <2>1, <2>2
<1>4. Cardinality(1 .. _freelist_size) <= Cardinality(1 .. taken)
  BY <1>2, <1>3, FS_Injection
<1> QED BY <1>1, <1>3, <1>4

(* Following the links from _freelist gives the list, and then 0. *)
LEMMA NthFacts ==
  ASSUME AllocInv, NEW s, IsFreeList(s)
  PROVE  \A k \in 0 .. Capacity :
           Nth[k] = IF k < _freelist_size THEN s[k + 1] ELSE 0
<1> DEFINE at(f) == [k \in 0 .. Capacity |->
                       IF k = 0 THEN _freelist
                       ELSE IF f[k - 1] \in DOMAIN _next THEN _next[f[k - 1]] ELSE 0]
           g == [k \in 0 .. Capacity |-> IF k < _freelist_size THEN s[k + 1] ELSE 0]
<1>1. Capacity \in Nat /\ _freelist_size \in Nat /\ taken \in Nat
  BY NodeAllocatorAssumption DEF AllocInv
<1>2. 0 \notin DOMAIN _next
  BY <1>1 DEF AllocInv
<1>3. ASSUME NEW k \in 1 .. Capacity
      PROVE  g[k] = IF g[k - 1] \in DOMAIN _next THEN _next[g[k - 1]] ELSE 0
  <2>1. k - 1 \in 0 .. Capacity /\ k \in 0 .. Capacity
    BY <1>1
  <2>2. CASE k - 1 < _freelist_size
    <3>1. k \in 1 .. _freelist_size /\ g[k - 1] = s[k]
      BY <1>1, <2>1, <2>2
    <3>2. s[k] \in DOMAIN _next
      BY <3>1 DEF IsFreeList
    <3>3. _next[s[k]] = IF k = _freelist_size THEN 0 ELSE s[k + 1]
      BY <3>1 DEF IsFreeList
    <3>4. g[k] = IF k = _freelist_size THEN 0 ELSE s[k + 1]
      BY <1>1, <2>1, <3>1
    <3> QED BY <3>1, <3>2, <3>3, <3>4
  <2>3. CASE ~(k - 1 < _freelist_size)
    <3>1. g[k - 1] = 0 /\ g[k] = 0
      BY <1>1, <2>1, <2>3
    <3> QED BY <1>2, <3>1
  <2> QED BY <2>2, <2>3
<1>4. g[0] = _freelist
  <2>1. _freelist = IF _freelist_size = 0 THEN 0 ELSE s[1]
    BY DEF IsFreeList
  <2>2. g[0] = IF 0 < _freelist_size THEN s[0 + 1] ELSE 0
    BY <1>1
  <2> QED BY <1>1, <2>1, <2>2
<1>5. at(g) = g
  <2>1. \A k \in 0 .. Capacity : at(g)[k] = g[k]
    <3> SUFFICES ASSUME NEW k \in 0 .. Capacity PROVE at(g)[k] = g[k]
      OBVIOUS
    <3>1. CASE k = 0
      BY <1>4, <3>1
    <3>2. CASE k # 0
      <4>1. k \in 1 .. Capacity
        BY <1>1, <3>2
      <4>2. at(g)[k] = IF g[k - 1] \in DOMAIN _next THEN _next[g[k - 1]] ELSE 0
        BY <3>2
      <4> QED BY <1>3, <4>1, <4>2
    <3> QED BY <3>1, <3>2
  <2> HIDE DEF g
  <2>2. DOMAIN at(g) = 0 .. Capacity /\ at(g) = [k \in 0 .. Capacity |-> at(g)[k]]
    OBVIOUS
  <2>3. DOMAIN g = 0 .. Capacity /\ g = [k \in 0 .. Capacity |-> g[k]]
    BY DEF g
  <2> HIDE DEF at
  <2> QED BY <2>1, <2>2, <2>3
<1>6. Nth = at(Nth)
  <2>1. Nth = CHOOSE f : f = at(f)
    BY DEF Nth
  <2> HIDE DEF at, g
  <2> QED BY <1>5, <2>1
<1>7. \A k \in 0 .. Capacity : Nth[k] = g[k]
  <2> DEFINE T == {k \in 0 .. Capacity : Nth[k] # g[k]}
  <2>1. SUFFICES ASSUME T # {} PROVE FALSE
    OBVIOUS
  <2>2. PICK k \in T : \A j \in T : k <= j
    <3>1. T \subseteq Nat
      OBVIOUS
    <3> HIDE DEF T
    <3> QED BY <2>1, <3>1, LeastNumber
  <2>3. k \in 0 .. Capacity /\ Nth[k] # g[k]
    OBVIOUS
  <2>4. Nth[k] = IF k = 0 THEN _freelist
                 ELSE IF Nth[k - 1] \in DOMAIN _next THEN _next[Nth[k - 1]] ELSE 0
    BY <1>6, <2>3
  <2>5. k # 0
    BY <1>4, <2>3, <2>4
  <2>6. k \in 1 .. Capacity /\ k - 1 \in 0 .. Capacity /\ ~(k <= k - 1)
    BY <1>1, <2>3, <2>5
  <2>7. Nth[k - 1] = g[k - 1]
    BY <2>2, <2>6
  <2> HIDE DEF g
  <2> QED BY <1>3, <2>3, <2>4, <2>5, <2>6, <2>7
<1> QED BY <1>7

(* Following the links meets the free nodes, all of them. *)
LEMMA ListedFree ==
  ASSUME AllocInv
  PROVE  Listed = DOMAIN _next /\ _freelist_size = Cardinality(Listed)
<1>1. PICK s : IsFreeList(s)
  BY DEF AllocInv
<1>2. /\ Capacity \in Nat /\ _freelist_size \in Nat /\ taken \in Nat
      /\ _freelist_size <= Capacity
  BY <1>1, ListBounded, NodeAllocatorAssumption DEF AllocInv
<1>3. \A k \in 0 .. Capacity : Nth[k] = IF k < _freelist_size THEN s[k + 1] ELSE 0
  BY <1>1, NthFacts
<1>4. \A k \in 1 .. _freelist_size : s[k] \in 1 .. taken
  BY <1>1 DEF IsFreeList
<1>5. \A x : x \in Listed <=> \E k \in 1 .. _freelist_size : s[k] = x
  <2> SUFFICES ASSUME NEW x
               PROVE  x \in Listed <=> \E k \in 1 .. _freelist_size : s[k] = x
    OBVIOUS
  <2>1. ASSUME x \in Listed PROVE \E k \in 1 .. _freelist_size : s[k] = x
    <3>1. PICK k \in 0 .. Capacity : x = Nth[k] /\ x # 0
      BY <2>1 DEF Listed
    <3>2. k < _freelist_size /\ x = s[k + 1]
      BY <1>3, <3>1
    <3>3. k + 1 \in 1 .. _freelist_size
      BY <1>2, <3>2
    <3> QED BY <3>2, <3>3
  <2>2. ASSUME NEW k \in 1 .. _freelist_size, s[k] = x PROVE x \in Listed
    <3>1. k - 1 \in 0 .. Capacity /\ k - 1 < _freelist_size /\ (k - 1) + 1 = k
      BY <1>2
    <3>2. Nth[k - 1] = s[k]
      BY <1>3, <3>1
    <3>3. s[k] # 0
      BY <1>2, <1>4
    <3> QED BY <2>2, <3>1, <3>2, <3>3 DEF Listed
  <2> QED BY <2>1, <2>2
<1>6. Listed = DOMAIN _next
  BY <1>1, <1>5 DEF IsFreeList
<1>7. s \in Bijection(1 .. _freelist_size, Listed)
  <2>1. s \in Injection(1 .. _freelist_size, Listed)
    <3>1. s \in [1 .. _freelist_size -> 1 .. taken] /\ \A k \in 1 .. _freelist_size : s[k] \in Listed
      BY <1>1, <1>5 DEF IsFreeList
    <3>2. s \in [1 .. _freelist_size -> Listed]
      BY <3>1
    <3> QED BY <1>1, <3>2 DEF IsFreeList, Injection, IsInjective
  <2>2. s \in Surjection(1 .. _freelist_size, Listed)
    BY <1>5, <2>1 DEF Surjection, Injection
  <2> QED BY <2>1, <2>2 DEF Bijection
<1>8. /\ IsFiniteSet(1 .. _freelist_size)
      /\ Cardinality(1 .. _freelist_size) = _freelist_size
  <2>1. /\ IsFiniteSet(1 .. _freelist_size)
        /\ Cardinality(1 .. _freelist_size)
             = IF 1 > _freelist_size THEN 0 ELSE _freelist_size - 1 + 1
    BY <1>2, FS_Interval
  <2> QED BY <1>2, <2>1
<1>9. Cardinality(Listed) = Cardinality(1 .. _freelist_size)
  BY <1>7, <1>8, FS_Bijection DEF ExistsBijection
<1> QED BY <1>6, <1>8, <1>9

----------------------------------------------------------------------------
(* The steps *)

LEMMA InitAlloc == Init => AllocInv
<1> SUFFICES ASSUME Init PROVE AllocInv
  OBVIOUS
<1> DEFINE s == [k \in 1 .. 0 |-> 0]
<1>1. IsFreeList(s)
  BY DEF Init, IsFreeList
<1> HIDE DEF s
<1>2. \E t : IsFreeList(t)
  BY <1>1
<1>3. taken \in 0 .. Capacity /\ _freelist_size \in Nat
  BY NodeAllocatorAssumption DEF Init
<1>4. used \cap DOMAIN _next = {} /\ used \cup DOMAIN _next = 1 .. taken
  BY DEF Init
<1> QED BY <1>2, <1>3, <1>4 DEF AllocInv

(* allocate takes the first node of the list. *)
LEMMA AllocateFreeStep ==
  ASSUME AllocInv, AllocateFree
  PROVE  AllocInv'
<1>1. PICK s : IsFreeList(s)
  BY DEF AllocInv
<1>2. /\ _freelist_size \in Nat /\ taken \in Nat /\ _freelist # 0
      /\ _freelist_size # 0 /\ _freelist = s[1] /\ 1 \in 1 .. _freelist_size
  BY <1>1 DEF AllocInv, AllocateFree, IsFreeList
<1>3. /\ s \in [1 .. _freelist_size -> 1 .. taken]
      /\ \A j, k \in 1 .. _freelist_size : s[j] = s[k] => j = k
      /\ \A x : x \in DOMAIN _next <=> \E k \in 1 .. _freelist_size : s[k] = x
      /\ \A k \in 1 .. _freelist_size :
           _next[s[k]] = IF k = _freelist_size THEN 0 ELSE s[k + 1]
  BY <1>1 DEF IsFreeList
<1>4. /\ used' = used \cup {s[1]} /\ _freelist' = _next[s[1]]
      /\ _next' = [m \in DOMAIN _next \ {s[1]} |-> _next[m]]
      /\ _freelist_size' = _freelist_size - 1 /\ taken' = taken
      /\ _freelist_size' \in Nat
  BY <1>2 DEF AllocateFree, Pop
<1> PICK t : t = [k \in 1 .. _freelist_size - 1 |-> s[k + 1]]
  OBVIOUS
<1>5. \A k \in 1 .. _freelist_size - 1 :
        t[k] = s[k + 1] /\ k + 1 \in 1 .. _freelist_size /\ k \in 1 .. _freelist_size
  BY <1>2
<1>6. IsFreeList(t)'
  <2>1. t \in [1 .. _freelist_size - 1 -> 1 .. taken]
    BY <1>3, <1>5
  <2>2. \A j, k \in 1 .. _freelist_size - 1 : t[j] = t[k] => j = k
    <3> SUFFICES ASSUME NEW j \in 1 .. _freelist_size - 1,
                        NEW k \in 1 .. _freelist_size - 1, t[j] = t[k]
                 PROVE  j = k
      OBVIOUS
    <3>1. j + 1 = k + 1
      BY <1>3, <1>5
    <3> QED BY <1>2, <3>1
  <2>3. \A x : x \in DOMAIN _next' <=> \E k \in 1 .. _freelist_size - 1 : t[k] = x
    <3>1. DOMAIN _next' = DOMAIN _next \ {s[1]}
      BY <1>4
    <3> SUFFICES ASSUME NEW x
                 PROVE  x \in DOMAIN _next' <=> \E k \in 1 .. _freelist_size - 1 : t[k] = x
      OBVIOUS
    <3>2. ASSUME x \in DOMAIN _next' PROVE \E k \in 1 .. _freelist_size - 1 : t[k] = x
      <4>1. PICK k \in 1 .. _freelist_size : s[k] = x
        BY <1>3, <3>1, <3>2
      <4>2. k # 1
        BY <3>1, <3>2, <4>1
      <4>3. k - 1 \in 1 .. _freelist_size - 1 /\ (k - 1) + 1 = k
        BY <1>2, <4>2
      <4> QED BY <1>5, <4>1, <4>3
    <3>3. ASSUME NEW k \in 1 .. _freelist_size - 1, t[k] = x PROVE x \in DOMAIN _next'
      <4>1. x = s[k + 1] /\ k + 1 \in 1 .. _freelist_size /\ k + 1 # 1
        BY <1>2, <1>5, <3>3
      <4>2. s[k + 1] # s[1]
        BY <1>2, <1>3, <4>1
      <4> QED BY <1>3, <3>1, <4>1, <4>2
    <3> QED BY <3>2, <3>3
  <2>4. _freelist' = IF _freelist_size - 1 = 0 THEN 0 ELSE t[1]
    <3>1. _next[s[1]] = IF 1 = _freelist_size THEN 0 ELSE s[1 + 1]
      BY <1>2, <1>3
    <3>2. 1 # _freelist_size => 1 \in 1 .. _freelist_size - 1
      BY <1>2
    <3> QED BY <1>2, <1>4, <1>5, <3>1, <3>2
  <2>5. \A k \in 1 .. _freelist_size - 1 :
          _next'[t[k]] = IF k = _freelist_size - 1 THEN 0 ELSE t[k + 1]
    <3> SUFFICES ASSUME NEW k \in 1 .. _freelist_size - 1
                 PROVE  _next'[t[k]] = IF k = _freelist_size - 1 THEN 0 ELSE t[k + 1]
      OBVIOUS
    <3>1. t[k] = s[k + 1] /\ k + 1 \in 1 .. _freelist_size
      BY <1>5
    <3>2. t[k] \in DOMAIN _next'
      BY <2>3
    <3>3. _next'[t[k]] = _next[s[k + 1]]
      BY <1>4, <3>1, <3>2
    <3>4. _next[s[k + 1]] = IF k + 1 = _freelist_size THEN 0 ELSE s[(k + 1) + 1]
      BY <1>3, <3>1
    <3>5. k # _freelist_size - 1 => k + 1 \in 1 .. _freelist_size - 1
      BY <1>2
    <3> QED BY <1>2, <1>5, <3>3, <3>4, <3>5
  <2> QED BY <1>4, <2>1, <2>2, <2>3, <2>4, <2>5 DEF IsFreeList
<1>7. \E l : IsFreeList(l)'
  BY <1>6
<1>8. /\ used' \cap DOMAIN _next' = {} /\ used' \cup DOMAIN _next' = 1 .. taken'
  <2>1. s[1] \in DOMAIN _next /\ DOMAIN _next' = DOMAIN _next \ {s[1]}
    BY <1>2, <1>3, <1>4
  <2> QED BY <1>4, <2>1 DEF AllocInv
<1> QED BY <1>4, <1>7, <1>8 DEF AllocInv

(* get_some builds a list of a whole batch, and allocate takes its first. *)
LEMMA AllocateBatchStep ==
  ASSUME AllocInv, AllocateBatch
  PROVE  AllocInv'
<1>1. PICK s : IsFreeList(s)
  BY DEF AllocInv
<1>2. /\ taken \in Nat /\ BatchSize \in Nat \ {0} /\ Capacity \in Nat
      /\ _freelist = 0 /\ taken + BatchSize <= Capacity /\ _freelist_size \in Nat
  BY NodeAllocatorAssumption DEF AllocInv, AllocateBatch
<1>3. _freelist_size = 0
  <2>1. SUFFICES ASSUME _freelist_size # 0 PROVE FALSE
    OBVIOUS
  <2>2. 1 \in 1 .. _freelist_size /\ _freelist = s[1] /\ s[1] \in 1 .. taken
    BY <1>1, <1>2, <2>1 DEF IsFreeList
  <2> QED BY <1>2, <2>2
<1>4. used = 1 .. taken
  <2>1. DOMAIN _next = {}
    BY <1>1, <1>3 DEF IsFreeList
  <2> QED BY <2>1 DEF AllocInv
<1> DEFINE first == taken + 1
           n == BatchSize - 1
<1> PICK t : t = [k \in 1 .. n |-> first + k]
  OBVIOUS
<1>5. /\ used' = used \cup {first} /\ _freelist' = BatchLinks[first]
      /\ _next' = [m \in Batch \ {first} |-> BatchLinks[m]]
      /\ _freelist_size' = n /\ taken' = taken + BatchSize
  BY <1>2, <1>3 DEF AllocateBatch, Pop, BatchLinks
<1>6. \A m \in Batch : BatchLinks[m] = IF m = taken + BatchSize THEN 0 ELSE m + 1
  BY DEF BatchLinks
<1>7. IsFreeList(t)'
  <2>1. t \in [1 .. n -> 1 .. taken'] /\ \A k \in 1 .. n : t[k] = first + k
    BY <1>2, <1>5
  <2>2. \A j, k \in 1 .. n : t[j] = t[k] => j = k
    BY <1>2
  <2>3. \A x : x \in DOMAIN _next' <=> \E k \in 1 .. n : t[k] = x
    <3>1. DOMAIN _next' = Batch \ {first}
      BY <1>5
    <3> SUFFICES ASSUME NEW x
                 PROVE  x \in Batch \ {first} <=> \E k \in 1 .. n : t[k] = x
      BY <3>1
    <3>2. ASSUME x \in Batch \ {first} PROVE \E k \in 1 .. n : t[k] = x
      <4>1. x - first \in 1 .. n /\ first + (x - first) = x
        BY <1>2, <3>2 DEF Batch
      <4> HIDE DEF n, first
      <4> QED BY <2>1, <4>1
    <3>3. ASSUME NEW k \in 1 .. n, t[k] = x PROVE x \in Batch \ {first}
      BY <1>2, <3>3 DEF Batch
    <3> QED BY <3>2, <3>3
  <2>4. _freelist' = IF n = 0 THEN 0 ELSE t[1]
    <3>1. first \in Batch
      BY <1>2 DEF Batch
    <3>2. _freelist' = IF first = taken + BatchSize THEN 0 ELSE first + 1
      BY <1>5, <1>6, <3>1
    <3>3. n # 0 => t[1] = first + 1
      BY <1>2
    <3> QED BY <1>2, <3>2, <3>3
  <2>5. \A k \in 1 .. n : _next'[t[k]] = IF k = n THEN 0 ELSE t[k + 1]
    <3> SUFFICES ASSUME NEW k \in 1 .. n
                 PROVE  _next'[t[k]] = IF k = n THEN 0 ELSE t[k + 1]
      OBVIOUS
    <3>1. first + k \in Batch \ {first} /\ t[k] = first + k
      BY <1>2 DEF Batch
    <3>2. _next'[t[k]] = IF first + k = taken + BatchSize THEN 0 ELSE (first + k) + 1
      BY <1>5, <1>6, <3>1
    <3>3. k # n => t[k + 1] = first + (k + 1)
      BY <1>2
    <3> QED BY <1>2, <3>2, <3>3
  <2> HIDE DEF n
  <2> QED BY <1>5, <2>1, <2>2, <2>3, <2>4, <2>5 DEF IsFreeList
<1>8. \E l : IsFreeList(l)'
  BY <1>7
<1>9. /\ used' \cap DOMAIN _next' = {} /\ used' \cup DOMAIN _next' = 1 .. taken'
  <2>1. used' = 1 .. first /\ DOMAIN _next' = first + 1 .. taken + BatchSize
    BY <1>2, <1>4, <1>5 DEF Batch
  <2> QED BY <1>2, <1>5, <2>1
<1> QED BY <1>2, <1>5, <1>8, <1>9 DEF AllocInv

(* deallocate puts the node in front of the list. *)
LEMMA DeallocateStep ==
  ASSUME AllocInv, NEW n \in used, Deallocate(n)
  PROVE  AllocInv'
<1>1. PICK s : IsFreeList(s)
  BY DEF AllocInv
<1>2. /\ _freelist_size \in Nat /\ taken \in Nat
      /\ n \in 1 .. taken /\ n \notin DOMAIN _next
  BY DEF AllocInv
<1>3. /\ s \in [1 .. _freelist_size -> 1 .. taken]
      /\ \A j, k \in 1 .. _freelist_size : s[j] = s[k] => j = k
      /\ \A x : x \in DOMAIN _next <=> \E k \in 1 .. _freelist_size : s[k] = x
      /\ _freelist = IF _freelist_size = 0 THEN 0 ELSE s[1]
      /\ \A k \in 1 .. _freelist_size :
           _next[s[k]] = IF k = _freelist_size THEN 0 ELSE s[k + 1]
  BY <1>1 DEF IsFreeList
<1>4. /\ used' = used \ {n} /\ _freelist' = n
      /\ DOMAIN _next' = DOMAIN _next \cup {n}
      /\ _next'[n] = _freelist
      /\ \A m \in DOMAIN _next : _next'[m] = _next[m]
      /\ _freelist_size' = _freelist_size + 1 /\ taken' = taken
      /\ _freelist_size' \in Nat
  BY <1>2 DEF Deallocate
<1> PICK t : t = [k \in 1 .. _freelist_size + 1 |-> IF k = 1 THEN n ELSE s[k - 1]]
  OBVIOUS
<1>5. \A k \in 2 .. _freelist_size + 1 :
        t[k] = s[k - 1] /\ k - 1 \in 1 .. _freelist_size /\ k # 1
  BY <1>2
<1>6. t[1] = n /\ \A k \in 1 .. _freelist_size + 1 : k = 1 \/ k \in 2 .. _freelist_size + 1
  BY <1>2
<1>7. \A k \in 2 .. _freelist_size + 1 : t[k] \in DOMAIN _next
  <2> QED BY <1>3, <1>5
<1>8. IsFreeList(t)'
  <2>1. t \in [1 .. _freelist_size + 1 -> 1 .. taken]
    BY <1>2, <1>3, <1>5
  <2>2. \A j, k \in 1 .. _freelist_size + 1 : t[j] = t[k] => j = k
    <3> SUFFICES ASSUME NEW j \in 1 .. _freelist_size + 1,
                        NEW k \in 1 .. _freelist_size + 1, t[j] = t[k]
                 PROVE  j = k
      OBVIOUS
    <3>1. CASE j = 1 \/ k = 1
      BY <1>2, <1>6, <1>7, <3>1
    <3>2. CASE j # 1 /\ k # 1
      <4>1. j - 1 = k - 1
        BY <1>3, <1>5, <1>6, <3>2
      <4> QED BY <1>2, <4>1
    <3> QED BY <3>1, <3>2
  <2>3. \A x : x \in DOMAIN _next' <=> \E k \in 1 .. _freelist_size + 1 : t[k] = x
    <3> SUFFICES ASSUME NEW x
                 PROVE  x \in DOMAIN _next' <=> \E k \in 1 .. _freelist_size + 1 : t[k] = x
      OBVIOUS
    <3>1. ASSUME x \in DOMAIN _next' PROVE \E k \in 1 .. _freelist_size + 1 : t[k] = x
      <4>1. CASE x = n
        <5>1. 1 \in 1 .. _freelist_size + 1
          BY <1>2
        <5> QED BY <1>6, <4>1, <5>1
      <4>2. CASE x # n
        <5>1. PICK k \in 1 .. _freelist_size : s[k] = x
          BY <1>3, <1>4, <3>1, <4>2
        <5>2. /\ k + 1 \in 2 .. _freelist_size + 1 /\ (k + 1) - 1 = k
              /\ k + 1 \in 1 .. _freelist_size + 1
          BY <1>2
        <5>3. t[k + 1] = s[(k + 1) - 1]
          BY <1>5, <5>2
        <5> QED BY <5>1, <5>2, <5>3
      <4> QED BY <4>1, <4>2
    <3>2. ASSUME NEW k \in 1 .. _freelist_size + 1, t[k] = x PROVE x \in DOMAIN _next'
      BY <1>4, <1>6, <1>7, <3>2
    <3> QED BY <3>1, <3>2
  <2>4. _freelist' = IF _freelist_size + 1 = 0 THEN 0 ELSE t[1]
    BY <1>2, <1>4, <1>6
  <2>5. \A k \in 1 .. _freelist_size + 1 :
          _next'[t[k]] = IF k = _freelist_size + 1 THEN 0 ELSE t[k + 1]
    <3> SUFFICES ASSUME NEW k \in 1 .. _freelist_size + 1
                 PROVE  _next'[t[k]] = IF k = _freelist_size + 1 THEN 0 ELSE t[k + 1]
      OBVIOUS
    <3>1. k # _freelist_size + 1 => k + 1 \in 2 .. _freelist_size + 1 /\ (k + 1) - 1 = k
      BY <1>2
    <3>2. k # _freelist_size + 1 => t[k + 1] = s[k]
      BY <1>5, <3>1
    <3>3. CASE k = 1
      BY <1>2, <1>3, <1>4, <1>6, <3>2, <3>3
    <3>4. CASE k # 1
      <4>1. t[k] = s[k - 1] /\ k - 1 \in 1 .. _freelist_size /\ t[k] \in DOMAIN _next
        BY <1>5, <1>6, <1>7, <3>4
      <4>2. _next[s[k - 1]] = IF k - 1 = _freelist_size THEN 0 ELSE s[(k - 1) + 1]
        BY <1>3, <4>1
      <4>3. (k - 1) + 1 = k /\ (k - 1 = _freelist_size <=> k = _freelist_size + 1)
        BY <1>2
      <4> QED BY <1>4, <3>2, <4>1, <4>2, <4>3
    <3> QED BY <3>3, <3>4
  <2> QED BY <1>4, <2>1, <2>2, <2>3, <2>4, <2>5 DEF IsFreeList
<1>9. \E l : IsFreeList(l)'
  BY <1>8
<1>10. /\ used' \cap DOMAIN _next' = {} /\ used' \cup DOMAIN _next' = 1 .. taken'
  BY <1>4 DEF AllocInv
<1> QED BY <1>4, <1>9, <1>10 DEF AllocInv

LEMMA NextAlloc == AllocInv /\ [Next]_vars => AllocInv'
<1> SUFFICES ASSUME AllocInv, [Next]_vars PROVE AllocInv'
  OBVIOUS
<1>1. CASE AllocateFree
  BY <1>1, AllocateFreeStep
<1>2. CASE AllocateBatch
  BY <1>2, AllocateBatchStep
<1>3. ASSUME NEW n \in used, Deallocate(n) PROVE AllocInv'
  BY <1>3, DeallocateStep
<1>4. CASE UNCHANGED vars
  <2>1. UNCHANGED <<taken, used, _freelist, _next, _freelist_size>>
    BY <1>4 DEF vars
  <2> QED BY <2>1 DEF AllocInv, IsFreeList
<1> QED BY <1>1, <1>2, <1>3, <1>4 DEF Next

(* A free list of distinct nodes, all of those that are not in use, always *)
(* exists (allocate, deallocate and get_some keep it).                     *)
THEOREM AlwaysFreeList == Spec => []AllocInv
<1>1. Init => AllocInv
  BY InitAlloc
<1>2. AllocInv /\ [Next]_vars => AllocInv'
  BY NextAlloc
<1> QED BY <1>1, <1>2, PTL DEF Spec

(* Every node of the allocator is in the hands of the container or on the  *)
(* free list, and in one of them only: allocate hands out no node twice    *)
(* and deallocate loses none.                                              *)
THEOREM NodesAlwaysPartitioned == Spec => []NodesPartitioned
<1>1. AllocInv => NodesPartitioned
  BY ListedFree DEF AllocInv, NodesPartitioned
<1> QED BY <1>1, AlwaysFreeList, PTL

(* _freelist_size is the length of the free list: freelist_memory_usage    *)
(* tells what can be reclaimed.                                            *)
THEOREM SizeAlwaysExact == Spec => []SizeExact
<1>1. AllocInv => SizeExact
  BY ListedFree DEF SizeExact
<1> QED BY <1>1, AlwaysFreeList, PTL
=============================================================================
