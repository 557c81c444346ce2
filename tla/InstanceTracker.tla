--------------------------- MODULE InstanceTracker ----------------------------
(***************************************************************************)
(* The pinnable_mapped_file objects of one process and the soft-dirty bits *)
(* they share (src/pinnable_mapped_file.cpp, pagemap_accessor.hpp): which  *)
(* pages reach the files when instances are opened, written, moved and     *)
(* closed.  All are writable and in a mode with memory of its own.         *)
(*                                                                         *)
(* The kernel marks a page when it is written, and all pages of a new      *)
(* mapping.  A move leaves the address of an object in _instance_tracker,  *)
(* and nothing erases that of an object that was moved from.  Saving it    *)
(* then either finds the members as the move left them, with no region to  *)
(* save, or ends the process (an assertion, or memory that is gone).       *)
(***************************************************************************)
EXTENDS Integers, Sequences, SequencesExt

CONSTANTS Slot,       \* addresses of objects
          File, Page,
          Mode,       \* modes that are used
          Moved,      \* an object that was moved from
          MaxTracked  \* bound on the addresses in the tracker

Private == "mapped_private"
Heap == "heap"   \* and locked

(* unsaved: pages that differ from the file; soft: those that are marked. *)
Instance == [file : File, mode : Mode, unsaved : SUBSET Page, soft : SUBSET Page]

ASSUME InstanceTrackerAssumption ==
  Mode \subseteq {Private, Heap} /\ Moved \notin Instance /\ MaxTracked \in Nat

VARIABLES obj,       \* address -> the instance there
          _instance_tracker,
          _pagemap_supported,   \* does the system have soft-dirty bits?
          _pagemap_support_checked,
          dirty,     \* file -> its flag
          lost       \* history: file -> pages that the last close left stale

vars == <<obj, _instance_tracker, _pagemap_supported,
          _pagemap_support_checked, dirty, lost>>

pagemap == <<_pagemap_supported, _pagemap_support_checked>>

Init ==
  /\ obj = [s \in {} |-> Moved]
  /\ _instance_tracker = <<>>
  /\ _pagemap_supported \in BOOLEAN
  /\ _pagemap_support_checked = FALSE
  /\ dirty = [f \in File |-> FALSE]
  /\ lost = [f \in File |-> {}]

Tracked == ToSet(_instance_tracker)
Open == {s \in DOMAIN obj : obj[s] # Moved}
Put(f, k, v) == [x \in DOMAIN f \cup {k} |-> IF x = k THEN v ELSE f[x]]
Without(f, k) == [x \in DOMAIN f \ {k} |-> f[x]]

(* What pagemap says of the pages of an instance. *)
Marked(s) == obj[s].soft

(* save_database_file, update_file_from_region: the marked pages of a      *)
(* tracked address, else all.                                              *)
Saved(s) ==
  [obj[s] EXCEPT !.unsaved = IF s \in Tracked THEN @ \ Marked(s) ELSE {}]

ClearRefs(O) == [s \in DOMAIN O |->
                   IF O[s] = Moved THEN Moved ELSE [O[s] EXCEPT !.soft = {}]]

(* check_pagemap_support_and_clear_refs: the bits of the process, once. *)
Cleared(O) == IF _pagemap_support_checked THEN O ELSE ClearRefs(O)

(* A new instance, in a mapping that is new as well. *)
New(f, mode) == [file |-> f, mode |-> mode, unsaved |-> {}, soft |-> Page]

(* setup_copy_on_write_mapping: save the tracked ones, map, clear. *)
OpenPrivate_unsaved(s, f) ==   \* seeded bug: clears each time and saves nobody
  /\ Private \in Mode
  /\ s \notin DOMAIN obj /\ ~dirty[f] /\ Len(_instance_tracker) < MaxTracked
  /\ obj' = ClearRefs(Put(obj, s, New(f, Private)))
  /\ _pagemap_support_checked' = TRUE
  /\ _instance_tracker' =
       _instance_tracker \o (IF _pagemap_supported THEN <<s>> ELSE <<>>)
  /\ dirty' = [dirty EXCEPT ![f] = TRUE]
  /\ UNCHANGED <<_pagemap_supported, lost>>
OpenPrivate(s, f) ==
  /\ Private \in Mode
  /\ s \notin DOMAIN obj /\ ~dirty[f] /\ Len(_instance_tracker) < MaxTracked
  /\ LET saved == [t \in DOMAIN obj |->
                     IF t \in Tracked \cap Open THEN Saved(t) ELSE obj[t]]
     IN obj' = Cleared(Put(saved, s, New(f, Private)))
  /\ _pagemap_support_checked' = TRUE
  /\ _instance_tracker' =
       _instance_tracker \o (IF _pagemap_supported THEN <<s>> ELSE <<>>)
  /\ dirty' = [dirty EXCEPT ![f] = TRUE]
  /\ UNCHANGED <<_pagemap_supported, lost>>

(* The process ends when it saves an object that was moved from or is gone. *)
OpenAborts(f) ==
  /\ Private \in Mode
  /\ ~dirty[f] /\ ~(Tracked \subseteq Open)
  /\ obj' = [s \in {} |-> Moved]
  /\ _instance_tracker' = <<>>
  /\ _pagemap_support_checked' = FALSE
  /\ dirty' = [dirty EXCEPT ![f] = TRUE]
  /\ UNCHANGED <<_pagemap_supported, lost>>

OpenHeap(s, f) ==
  /\ Heap \in Mode
  /\ s \notin DOMAIN obj /\ ~dirty[f]
  /\ obj' = Put(obj, s, New(f, Heap))
  /\ dirty' = [dirty EXCEPT ![f] = TRUE]
  /\ UNCHANGED <<_instance_tracker, pagemap, lost>>

Write(s, g) ==
  /\ s \in Open
  /\ obj' = [obj EXCEPT ![s].unsaved = @ \cup {g}, ![s].soft = @ \cup {g}]
  /\ UNCHANGED <<_instance_tracker, pagemap, dirty, lost>>

(* A move swaps the members, and the addresses stay where they are. *)
MoveConstruct_copies(s, t) ==   \* seeded bug: the old object keeps its members
  /\ s \in Open /\ t \notin DOMAIN obj
  /\ obj' = Put(obj, t, obj[s])
  /\ UNCHANGED <<_instance_tracker, pagemap, dirty, lost>>
MoveConstruct(s, t) ==
  /\ s \in Open /\ t \notin DOMAIN obj
  /\ obj' = [Put(obj, t, obj[s]) EXCEPT ![s] = Moved]
  /\ UNCHANGED <<_instance_tracker, pagemap, dirty, lost>>

MoveAssign(s, t) ==
  /\ s \in Open /\ t \in DOMAIN obj \ {s}
  /\ obj' = [obj EXCEPT ![s] = obj[t], ![t] = obj[s]]
  /\ UNCHANGED <<_instance_tracker, pagemap, dirty, lost>>

IsFirst(i, s) == /\ _instance_tracker[i] = s
                 /\ \A j \in 1 .. i - 1 : _instance_tracker[j] # s

(* The destructor saves all, and only then forgets the address. *)
Close(s) ==
  /\ s \in Open
  /\ lost' = [lost EXCEPT ![obj[s].file] = Saved(s).unsaved]
  /\ dirty' = [dirty EXCEPT ![obj[s].file] = FALSE]
  /\ IF obj[s].mode = Private /\ s \in Tracked
     THEN \E i \in DOMAIN _instance_tracker :
            /\ IsFirst(i, s)
            /\ _instance_tracker' = RemoveAt(_instance_tracker, i)
     ELSE UNCHANGED _instance_tracker
  /\ obj' = Without(obj, s)
  /\ UNCHANGED pagemap

(* The destructor of an object that was moved from. *)
Discard(s) ==
  /\ s \in DOMAIN obj \ Open
  /\ obj' = Without(obj, s)
  /\ UNCHANGED <<_instance_tracker, pagemap, dirty, lost>>

Next ==
  \/ \E s \in Slot, f \in File : OpenPrivate(s, f) \/ OpenHeap(s, f)
  \/ \E f \in File : OpenAborts(f)
  \/ \E s \in Slot, g \in Page : Write(s, g)
  \/ \E s, t \in Slot : MoveConstruct(s, t) \/ MoveAssign(s, t)
  \/ \E s \in Slot : Close(s) \/ Discard(s)

Spec == Init /\ [][Next]_vars

-----------------------------------------------------------------------------
(* Types; and each file is open in one object, with its flag set. *)
TypeOK ==
  /\ DOMAIN obj \subseteq Slot
  /\ \A s \in DOMAIN obj : obj[s] \in Instance \cup {Moved}
  /\ _instance_tracker \in Seq(Slot)
  /\ _pagemap_support_checked \in BOOLEAN
  /\ dirty \in [File -> BOOLEAN]
  /\ lost \in [File -> SUBSET Page]
  /\ _pagemap_supported \in BOOLEAN
  /\ \A s, t \in Open : obj[s].file = obj[t].file => s = t
  /\ \A s \in Open : dirty[obj[s].file]

(* When the flag of a file goes clear each page that was modified is in    *)
(* the file, wherever its instance and the others were moved, and whatever *)
(* addresses are left in the tracker.  The exception: an instance in heap  *)
(* mode that was moved to a tracked address is saved by its marks, which   *)
(* were cleared when the first private instance was opened.                *)
PagesSaved ==
  [][\A s \in Open :
       ~dirty'[obj[s].file] =>
         lost'[obj[s].file] = {} \/ (obj[s].mode = Heap /\ s \in Tracked)]_vars
===============================================================================
