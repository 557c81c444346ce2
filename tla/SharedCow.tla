------------------------------ MODULE SharedCow ------------------------------
(***************************************************************************)
(* chainbase::shared_cow_vector (include/chainbase/shared_cow_vector.hpp): *)
(* handles share a counted block and copy it when they write.              *)
(*                                                                         *)
(* A handle lives in the heap or in a mapped segment (Home), and the       *)
(* allocator it uses is the one of the place it lives in (get_allocator):  *)
(* only handles of one home share a block, others copy.  The elements are  *)
(* values whose copying does not throw; a failing allocation changes       *)
(* nothing.                                                                *)
(***************************************************************************)
EXTENDS Integers, Sequences, FiniteSets

CONSTANTS Handle, Place,
          Home,       \* Handle -> Place: the allocator of the handle
          Block,      \* addresses of blocks
          Null,       \* the null pointer
          Contents,   \* sequences of elements
          RefLimit    \* reference_count is an integer modulo RefLimit

ASSUME SharedCowAssumption ==
  /\ IsFiniteSet(Handle)
  /\ Home \in [Handle -> Place]
  /\ Null \notin Block
  /\ RefLimit \in Nat /\ Cardinality(Handle) < RefLimit
  /\ <<>> \in Contents
  /\ \A v \in Contents : Len(v) = 0 => v = <<>>

VARIABLES data,   \* live handle -> _data
          impl    \* allocated block -> count, contents and home

vars == <<data, impl>>

Impl == [reference_count : 0 .. RefLimit - 1, val : Contents, home : Place]

Init == data = [h \in {} |-> Null] /\ impl = [b \in {} |-> Null]

Put(f, k, v) == [x \in DOMAIN f \cup {k} |-> IF x = k THEN v ELSE f[x]]

Held(h) == IF h \in DOMAIN data THEN data[h] ELSE Null
Val(h) == IF data[h] = Null THEN <<>> ELSE impl[data[h]].val

(* dec_refcount: the last reference frees the block. *)
DecRef_eager(I, b) == [c \in DOMAIN I \ {b} |-> I[c]]   \* seeded bug
DecRef_keep(I, b) ==   \* seeded bug: freed never
  IF b = Null THEN I
  ELSE [I EXCEPT ![b].reference_count = (@ - 1) % RefLimit]
DecRef(I, b) ==
  IF b = Null THEN I
  ELSE IF I[b].reference_count = 1
  THEN [c \in DOMAIN I \ {b} |-> I[c]]
  ELSE [I EXCEPT ![b].reference_count = (@ - 1) % RefLimit]

IncRef(I, b) ==
  IF b = Null THEN I
  ELSE [I EXCEPT ![b].reference_count = (@ + 1) % RefLimit]

(* _alloc: a block of its own for h, in place of the one it held.  Empty   *)
(* contents are the null pointer.                                          *)
Alloc(h, v) ==
  IF v = <<>>
  THEN /\ data' = Put(data, h, Null)
       /\ impl' = DecRef(impl, Held(h))
  ELSE \E b \in Block \ DOMAIN impl :
         /\ data' = Put(data, h, b)
         /\ impl' = DecRef(Put(impl, b, [reference_count |-> 1, val |-> v,
                                         home |-> Home[h]]),
                           Held(h))

(* h takes part in the block that o holds. *)
Share(h, o) ==
  /\ data' = Put(data, h, data[o])
  /\ impl' = IncRef(DecRef(impl, Held(h)), data[o])

(* h takes over the block that o holds; o is left empty. *)
Steal(h, o) ==
  /\ data' = [Put(data, h, data[o]) EXCEPT ![o] = Null]
  /\ impl' = DecRef(impl, Held(h))

(* Does h own a block of the size of v, that it may write to? *)
InPlace_shared(h, v) == Held(h) # Null /\ Len(impl[data[h]].val) = Len(v)   \* seeded bug
InPlace(h, v) == /\ Held(h) # Null
                 /\ impl[data[h]].reference_count = 1
                 /\ Len(impl[data[h]].val) = Len(v)

(* clear_and_construct, _assign: in place when possible *)
Write(h, v) ==
  IF InPlace(h, v)
  THEN impl' = [impl EXCEPT ![data[h]].val = v] /\ UNCHANGED data
  ELSE Alloc(h, v)

----------------------------------------------------------------------------
(* Constructors, destructor and assignments *)

New(h) == h \in Handle \ DOMAIN data

Construct(h, v) == New(h) /\ Alloc(h, v)

SameHome_any(h, o) == TRUE   \* seeded bug
SameHome(h, o) == Home[h] = Home[o]

CopyConstruct(h, o) ==
  /\ New(h)
  /\ IF SameHome(h, o) THEN Share(h, o) ELSE Alloc(h, Val(o))

MoveConstruct(h, o) ==
  /\ New(h)
  /\ IF SameHome(h, o) THEN Steal(h, o) ELSE Alloc(h, Val(o))

Destroy(h) ==
  /\ h \in DOMAIN data
  /\ data' = [g \in DOMAIN data \ {h} |-> data[g]]
  /\ impl' = DecRef(impl, data[h])

CopyAssign(h, o) ==
  /\ h \in DOMAIN data /\ h # o
  /\ IF SameHome(h, o) THEN Share(h, o) ELSE Write(h, Val(o))

(* From another home the elements are copied: o keeps its own. *)
MoveAssign(h, o) ==
  /\ h \in DOMAIN data /\ h # o
  /\ IF SameHome(h, o) THEN Steal(h, o) ELSE Write(h, Val(o))

(* operator= from a list or a std::vector *)
Assign(h, v) == h \in DOMAIN data /\ Write(h, v)

Clear(h) ==
  /\ h \in DOMAIN data
  /\ data' = [data EXCEPT ![h] = Null]
  /\ impl' = DecRef(impl, data[h])

(* emplace_back, of an element that is not one of h's own *)
EmplaceBack(h, v) ==
  /\ h \in DOMAIN data
  /\ Len(v) = Len(Val(h)) + 1 /\ SubSeq(v, 1, Len(Val(h))) = Val(h)
  /\ Write(h, v)

Next ==
  \E h \in Handle :
    \/ \E v \in Contents : Construct(h, v)
    \/ \E o \in DOMAIN data : CopyConstruct(h, o)
    \/ \E o \in DOMAIN data : MoveConstruct(h, o)
    \/ Destroy(h)
    \/ \E o \in DOMAIN data : CopyAssign(h, o)
    \/ \E o \in DOMAIN data : MoveAssign(h, o)
    \/ \E v \in Contents : Assign(h, v)
    \/ Clear(h)
    \/ \E v \in Contents : EmplaceBack(h, v)

Spec == Init /\ [][Next]_vars

----------------------------------------------------------------------------
(* Properties *)

Holders(b) == {h \in DOMAIN data : data[h] = b}

(* A handle points to nothing or to an allocated block, a block is never   *)
(* of size zero (dec_refcount asserts it).                                 *)
TypeOK ==
  /\ DOMAIN data \subseteq Handle
  /\ \A h \in DOMAIN data : data[h] \in DOMAIN impl \cup {Null}
  /\ DOMAIN impl \subseteq Block
  /\ \A b \in DOMAIN impl : impl[b] \in Impl /\ impl[b].val # <<>>

(* reference_count counts the handles that hold the block, and a block     *)
(* that none holds has been freed: no handle is left with a freed block,   *)
(* no block leaks, whatever is copied, moved, assigned and destroyed.      *)
CountsExact ==
  \A b \in DOMAIN impl :
    /\ impl[b].reference_count = Cardinality(Holders(b))
    /\ Holders(b) # {}

(* The allocator a handle frees its block with is the one the block came   *)
(* from.                                                                   *)
HomesMatch ==
  \A h \in DOMAIN data : data[h] # Null => impl[data[h]].home = Home[h]

Values == [h \in DOMAIN data |-> Val(h)]
V == INSTANCE ValueHandles WITH val <- Values

(* Copy-on-write is not observable: the handles behave as if each had      *)
(* contents of its own.                                                    *)
ImplementsValues == V!Spec
=============================================================================
