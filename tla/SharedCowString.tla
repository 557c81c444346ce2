--------------------------- MODULE SharedCowString ---------------------------
(***************************************************************************)
(* chainbase::shared_cow_string (include/chainbase/shared_cow_string.hpp). *)
(* Its counting and its constructors and assignments are those of          *)
(* shared_cow_vector with characters for elements (copy_in_place and       *)
(* _alloc are InPlace and Alloc); it also lets a client write to the block *)
(* directly.                                                               *)
(***************************************************************************)
EXTENDS SharedCow

(* operator=(string_view), assign *)
StringAssign(h, v) == h \in DOMAIN data /\ Write(h, v)

(* resize_and_fill: the caller's function writes v into a block of h's     *)
(* own.  A size of zero is left out: the function would be called with the *)
(* data of a null pointer.                                                 *)
ResizeAndFill(h, v) ==
  /\ h \in DOMAIN data /\ v # <<>>
  /\ Write(h, v)

(* mutable_data, and a client that writes through it.  It asserts that h   *)
(* holds the only reference.                                               *)
MutableData_unchecked(h, v) ==   \* seeded bug
  /\ h \in DOMAIN data /\ data[h] # Null /\ Len(v) = Len(Val(h))
  /\ impl' = [impl EXCEPT ![data[h]].val = v]
  /\ UNCHANGED data
MutableData(h, v) ==
  /\ h \in DOMAIN data /\ InPlace(h, v)
  /\ impl' = [impl EXCEPT ![data[h]].val = v]
  /\ UNCHANGED data

StringNext ==
  \E h \in Handle :
    \/ \E v \in Contents : Construct(h, v)
    \/ \E o \in DOMAIN data : CopyConstruct(h, o)
    \/ \E o \in DOMAIN data : MoveConstruct(h, o)
    \/ Destroy(h)
    \/ \E o \in DOMAIN data : CopyAssign(h, o)
    \/ \E o \in DOMAIN data : MoveAssign(h, o)
    \/ \E v \in Contents : StringAssign(h, v)
    \/ \E v \in Contents : ResizeAndFill(h, v)
    \/ \E v \in Contents : MutableData(h, v)

(* Each object is of one class: all handles are vectors, or all are        *)
(* strings.  The properties of SharedCow are stated about both.            *)
VARIABLE class

CowInit == Init /\ class \in {"vector", "string"}

CowNext ==
  /\ \/ class = "vector" /\ Next
     \/ class = "string" /\ StringNext
  /\ UNCHANGED class

CowSpec == CowInit /\ [][CowNext]_<<vars, class>>

=============================================================================
