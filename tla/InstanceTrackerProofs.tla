------------------------ MODULE InstanceTrackerProofs ------------------------
(***************************************************************************)
(* Proofs about InstanceTracker: the marks of an instance in private mode  *)
(* tell all that has to be saved, wherever it is moved.                    *)
(***************************************************************************)
EXTENDS InstanceTracker, TLAPS, SequenceTheorems

LEMMA AppendTracked ==
  ASSUME NEW t \in Seq(Slot), NEW s \in Slot
  PROVE  /\ t \o <<s>> \in Seq(Slot) /\ ToSet(t \o <<s>>) = ToSet(t) \cup {s}
<1>1. <<s>> \in Seq(Slot) /\ Len(<<s>>) = 1 /\ <<s>>[1] = s
  OBVIOUS
<1>2. /\ t \o <<s>> \in Seq(Slot)
      /\ Len(t \o <<s>>) = Len(t) + 1
      /\ \A i \in 1 .. Len(t) + 1 :
           (t \o <<s>>)[i] = IF i <= Len(t) THEN t[i] ELSE <<s>>[i - Len(t)]
  BY <1>1, ConcatProperties
<1>3. Len(t) \in Nat /\ DOMAIN t = 1 .. Len(t) /\ DOMAIN (t \o <<s>>) = 1 .. Len(t) + 1
  BY <1>2
<1>4. \A i \in 1 .. Len(t) + 1 : (t \o <<s>>)[i] = IF i <= Len(t) THEN t[i] ELSE s
  BY <1>1, <1>2, <1>3
<1>5. ToSet(t \o <<s>>) \subseteq ToSet(t) \cup {s}
  BY <1>3, <1>4 DEF ToSet
<1>6. ToSet(t) \cup {s} \subseteq ToSet(t \o <<s>>)
  BY <1>3, <1>4 DEF ToSet
<1> QED BY <1>2, <1>5, <1>6

LEMMA RemovedTracked ==
  ASSUME NEW t \in Seq(Slot), NEW i \in DOMAIN t
  PROVE  RemoveAt(t, i) \in Seq(Slot) /\ ToSet(RemoveAt(t, i)) \subseteq ToSet(t)
<1> DEFINE a == SubSeq(t, 1, i - 1)
           b == SubSeq(t, i + 1, Len(t))
<1>1. Len(t) \in Nat /\ DOMAIN t = 1 .. Len(t) /\ i \in 1 .. Len(t)
      /\ \A j \in 1 .. Len(t) : t[j] \in ToSet(t) /\ t[j] \in Slot
  BY DEF ToSet
<1>2. a \in Seq(Slot \cap ToSet(t))
  <2>1. \A j \in 1 .. i - 1 : t[j] \in Slot \cap ToSet(t)
    BY <1>1
  <2> QED BY <1>1, <2>1, SubSeqProperties
<1>3. b \in Seq(Slot \cap ToSet(t))
  <2>1. \A j \in i + 1 .. Len(t) : t[j] \in Slot \cap ToSet(t)
    BY <1>1
  <2> QED BY <1>1, <2>1, SubSeqProperties
<1>4. RemoveAt(t, i) \in Seq(Slot \cap ToSet(t))
  BY <1>2, <1>3, ConcatProperties DEF RemoveAt
<1>5. \A j \in DOMAIN RemoveAt(t, i) : RemoveAt(t, i)[j] \in Slot \cap ToSet(t)
  BY <1>4
<1>6. RemoveAt(t, i) \in Seq(Slot)
  BY <1>4
<1> QED BY <1>5, <1>6 DEF ToSet

-----------------------------------------------------------------------------
(* The pages that a private instance has changed are marked: the bits are  *)
(* cleared once, before there is any such instance.                        *)

Selective(s) == obj[s].mode = Private

MarksTell ==
  /\ \A s \in Open : Selective(s) => obj[s].unsaved \subseteq obj[s].soft
  /\ ~_pagemap_support_checked => \A s \in Open : ~Selective(s)

Inv == TypeOK /\ MarksTell

LEMMA InvInit == Init => Inv
<1> SUFFICES ASSUME Init PROVE Inv
  OBVIOUS
<1>1. DOMAIN obj = {} /\ Open = {} /\ <<>> \in Seq(Slot)
  BY DEF Init, Open
<1>2. TypeOK
  BY <1>1 DEF Init, TypeOK
<1>3. MarksTell
  BY <1>1 DEF MarksTell
<1> QED BY <1>2, <1>3 DEF Inv

LEMMA OpenFacts ==
  ASSUME TypeOK, NEW s \in Open
  PROVE  /\ s \in Slot /\ s \in DOMAIN obj /\ obj[s] \in Instance /\ obj[s] # Moved
         /\ dirty[obj[s].file] /\ obj[s].file \in File
BY DEF TypeOK, Open, Instance

LEMMA SavedFacts ==
  ASSUME TypeOK, NEW t \in Open
  PROVE  /\ Saved(t) \in Instance /\ Saved(t).file = obj[t].file
         /\ Saved(t).mode = obj[t].mode /\ Saved(t).soft = obj[t].soft
         /\ Saved(t).unsaved \subseteq obj[t].unsaved
BY OpenFacts DEF Saved, Marked, Instance

LEMMA OpenPrivateStep ==
  ASSUME Inv, NEW s \in Slot, NEW f \in File, OpenPrivate(s, f)
  PROVE  Inv'
<1> DEFINE saved == [t \in DOMAIN obj |->
                       IF t \in Tracked \cap Open THEN Saved(t) ELSE obj[t]]
           new == New(f, Private)
           all == Put(saved, s, new)
<1>1. /\ s \notin DOMAIN obj /\ ~dirty[f] /\ Private \in Mode
      /\ obj' = Cleared(all)
      /\ _pagemap_support_checked' = TRUE
      /\ _instance_tracker' =
           _instance_tracker \o (IF _pagemap_supported THEN <<s>> ELSE <<>>)
      /\ dirty' = [dirty EXCEPT ![f] = TRUE]
      /\ UNCHANGED <<_pagemap_supported, lost>>
  BY DEF OpenPrivate
<1>2. /\ DOMAIN all = DOMAIN obj \cup {s} /\ all[s] = new
      /\ \A t \in DOMAIN obj : all[t] = IF t \in Tracked \cap Open THEN Saved(t) ELSE obj[t]
  BY <1>1 DEF Put
<1>3. new \in Instance /\ new.file = f /\ new.unsaved = {} /\ new.mode = Private
  BY <1>1 DEF New, Instance
<1>4. \A t \in DOMAIN obj \ Open : all[t] = Moved
  BY <1>2 DEF Open
<1>5. ASSUME NEW t \in Open
      PROVE  /\ all[t] \in Instance /\ all[t] # Moved /\ all[t].file = obj[t].file
             /\ all[t].mode = obj[t].mode /\ all[t].soft = obj[t].soft
             /\ all[t].unsaved \subseteq obj[t].unsaved
  BY <1>2, SavedFacts, OpenFacts, InstanceTrackerAssumption DEF Inv
<1> HIDE DEF all, new, saved
<1>6. /\ DOMAIN obj' = DOMAIN all
      /\ \A t \in DOMAIN all : all[t] = Moved => obj'[t] = Moved
      /\ \A t \in DOMAIN all : all[t] \in Instance /\ all[t] # Moved =>
           /\ obj'[t] \in Instance /\ obj'[t].file = all[t].file
           /\ obj'[t].mode = all[t].mode /\ obj'[t].unsaved = all[t].unsaved
           /\ obj'[t].soft = IF _pagemap_support_checked THEN all[t].soft ELSE {}
  BY <1>1 DEF Cleared, ClearRefs, Instance
<1>7. Open' = Open \cup {s}
  BY <1>2, <1>3, <1>4, <1>5, <1>6, InstanceTrackerAssumption DEF Open
<1>8. _instance_tracker' \in Seq(Slot) /\ Tracked' \subseteq Tracked \cup {s}
  <2>1. _instance_tracker \in Seq(Slot)
    BY DEF Inv, TypeOK
  <2>2. CASE _pagemap_supported
    BY <1>1, <2>1, <2>2, AppendTracked DEF Tracked
  <2>3. CASE ~_pagemap_supported
    BY <1>1, <2>1, <2>3, ConcatEmptySeq DEF Tracked
  <2> QED BY <2>2, <2>3
<1>9. TypeOK'
  <2>1. /\ DOMAIN obj' \subseteq Slot
        /\ \A t \in DOMAIN obj' : obj'[t] \in Instance \cup {Moved}
    BY <1>2, <1>3, <1>4, <1>5, <1>6, InstanceTrackerAssumption DEF Inv, TypeOK, Open
  <2>2. \A t \in Open : obj'[t].file = obj[t].file
    BY <1>2, <1>5, <1>6 DEF Open
  <2>3. obj'[s].file = f
    BY <1>2, <1>3, <1>6, InstanceTrackerAssumption
  <2>4. \A t \in Open : obj[t].file # f
    BY <1>1, OpenFacts DEF Inv
  <2>5. \A t, u \in Open' : obj'[t].file = obj'[u].file => t = u
    BY <1>7, <2>2, <2>3, <2>4 DEF Inv, TypeOK
  <2>6. \A t \in Open' : dirty'[obj'[t].file]
    BY <1>1, <1>7, <2>2, <2>3, OpenFacts DEF Inv, TypeOK
  <2> QED BY <1>1, <1>8, <2>1, <2>5, <2>6 DEF Inv, TypeOK
<1>10. MarksTell'
  <2>1. obj'[s].unsaved = {}
    BY <1>2, <1>3, <1>6, InstanceTrackerAssumption
  <2>2. ASSUME NEW t \in Open, Selective(t)' PROVE obj'[t].unsaved \subseteq obj'[t].soft
    <3>1. t # s /\ obj'[t].mode = obj[t].mode
      BY <1>1, <1>2, <1>5, <1>6, OpenFacts DEF Open
    <3>2. Selective(t)
      BY <1>8, <2>2, <3>1 DEF Selective
    <3>3. _pagemap_support_checked /\ obj[t].unsaved \subseteq obj[t].soft
      BY <3>2 DEF Inv, MarksTell
    <3> QED BY <1>2, <1>5, <1>6, <3>3 DEF Open
  <2> QED BY <1>1, <1>7, <2>1, <2>2 DEF MarksTell
<1> QED BY <1>9, <1>10 DEF Inv

(* The process ends: every file that was open keeps its flag. *)
LEMMA OpenAbortsStep ==
  ASSUME Inv, NEW f \in File, OpenAborts(f)
  PROVE  Inv'
<1>1. /\ obj' = [s \in {} |-> Moved] /\ _instance_tracker' = <<>>
      /\ _pagemap_support_checked' = FALSE
      /\ dirty' = [dirty EXCEPT ![f] = TRUE]
      /\ UNCHANGED <<_pagemap_supported, lost>>
  BY DEF OpenAborts
<1>2. DOMAIN obj' = {} /\ Open' = {} /\ <<>> \in Seq(Slot)
  BY <1>1 DEF Open
<1>3. TypeOK'
  BY <1>1, <1>2 DEF Inv, TypeOK
<1>4. MarksTell'
  BY <1>2 DEF MarksTell
<1> QED BY <1>3, <1>4 DEF Inv

LEMMA OpenHeapStep ==
  ASSUME Inv, NEW s \in Slot, NEW f \in File, OpenHeap(s, f)
  PROVE  Inv'
<1> DEFINE new == New(f, Heap)
<1>1. /\ s \notin DOMAIN obj /\ ~dirty[f] /\ Heap \in Mode
      /\ obj' = Put(obj, s, new)
      /\ dirty' = [dirty EXCEPT ![f] = TRUE]
      /\ UNCHANGED <<_instance_tracker, pagemap, lost>>
  BY DEF OpenHeap
<1>2. /\ DOMAIN obj' = DOMAIN obj \cup {s} /\ obj'[s] = new
      /\ \A t \in DOMAIN obj : obj'[t] = obj[t]
  BY <1>1 DEF Put
<1>3. /\ new \in Instance /\ new.file = f /\ new.unsaved = {} /\ new.mode = Heap
      /\ new.soft = Page
  BY <1>1 DEF New, Instance
<1> HIDE DEF new
<1>4. Open' = Open \cup {s} /\ Tracked' = Tracked
  BY <1>1, <1>2, <1>3, InstanceTrackerAssumption DEF Open, Tracked
<1>5. TypeOK'
  <2>1. \A t \in Open : obj[t].file # f
    BY <1>1, OpenFacts DEF Inv
  <2>2. \A t \in Open' : dirty'[obj'[t].file]
    BY <1>1, <1>2, <1>3, <1>4, OpenFacts DEF Inv, TypeOK
  <2>3. \A t, u \in Open' : obj'[t].file = obj'[u].file => t = u
    BY <1>2, <1>3, <1>4, <2>1, OpenFacts DEF Inv, TypeOK
  <2> QED BY <1>1, <1>2, <1>3, <2>2, <2>3 DEF Inv, TypeOK, pagemap
<1>6. MarksTell'
  <2>1. \A t \in Open : t # s /\ (Selective(t)' <=> Selective(t)) /\ obj'[t] = obj[t]
    BY <1>1, <1>2, <1>4, OpenFacts DEF Selective, Inv
  <2>2. ~_pagemap_support_checked => ~Selective(s)'
    BY <1>2, <1>3, <1>4 DEF Inv, MarksTell, Selective, Heap, Private
  <2> QED BY <1>1, <1>2, <1>3, <1>4, <2>1, <2>2 DEF Inv, MarksTell, pagemap
<1> QED BY <1>5, <1>6 DEF Inv

LEMMA WriteStep ==
  ASSUME Inv, NEW s \in Slot, NEW g \in Page, Write(s, g)
  PROVE  Inv'
<1>1. /\ s \in Open /\ s \in DOMAIN obj
      /\ obj' = [obj EXCEPT ![s].unsaved = @ \cup {g}, ![s].soft = @ \cup {g}]
      /\ UNCHANGED <<_instance_tracker, pagemap, dirty, lost>>
  BY DEF Write, Open
<1>2. /\ DOMAIN obj' = DOMAIN obj
      /\ \A t \in DOMAIN obj \ {s} : obj'[t] = obj[t]
      /\ obj'[s] \in Instance /\ obj'[s].file = obj[s].file /\ obj'[s].mode = obj[s].mode
      /\ obj'[s].unsaved = obj[s].unsaved \cup {g} /\ obj'[s].soft = obj[s].soft \cup {g}
  BY <1>1, OpenFacts DEF Inv, Instance
<1>3. Open' = Open /\ Tracked' = Tracked
  BY <1>1, <1>2, InstanceTrackerAssumption DEF Open, Tracked
<1>4. \A t \in Open : /\ obj'[t].file = obj[t].file /\ obj'[t].mode = obj[t].mode
                      /\ obj[t].unsaved \subseteq obj[t].soft
                           => obj'[t].unsaved \subseteq obj'[t].soft
  BY <1>2, OpenFacts DEF Inv
<1>5. TypeOK'
  <2>1. \A t \in DOMAIN obj' : obj'[t] \in Instance \cup {Moved}
    BY <1>2 DEF Inv, TypeOK
  <2>2. \A t, u \in Open' : obj'[t].file = obj'[u].file => t = u
    BY <1>3, <1>4 DEF Inv, TypeOK
  <2>3. \A t \in Open' : dirty'[obj'[t].file]
    BY <1>1, <1>3, <1>4 DEF Inv, TypeOK
  <2> QED BY <1>1, <1>2, <2>1, <2>2, <2>3 DEF Inv, TypeOK, pagemap
<1>6. MarksTell'
  BY <1>1, <1>3, <1>4 DEF Inv, MarksTell, Selective, pagemap
<1> QED BY <1>5, <1>6 DEF Inv

(* Of two addresses t and s the instance at s comes to t; what was at t,   *)
(* if there was anything, comes to s.                                      *)
LEMMA MoveStep ==
  ASSUME Inv, NEW s \in Open, NEW t \in Slot, t # s,
         DOMAIN obj' = DOMAIN obj \cup {t},
         obj'[t] = obj[s], obj'[s] = (IF t \in Open THEN obj[t] ELSE Moved),
         \A u \in DOMAIN obj \ {s, t} : obj'[u] = obj[u],
         UNCHANGED <<_instance_tracker, pagemap, dirty, lost>>
  PROVE  Inv'
<1>1. /\ t \in Open' /\ (s \in Open' <=> t \in Open)
      /\ \A u : u \notin {s, t} => (u \in Open' <=> u \in Open)
      /\ Tracked' = Tracked
  BY DEF Open, Tracked
<1>2. \A u \in Open : /\ u \in Slot /\ obj[u] \in Instance /\ dirty[obj[u].file]
                      /\ \A v \in Open : obj[u].file = obj[v].file => u = v
  BY OpenFacts DEF Inv, TypeOK
<1>3. TypeOK'
  <2>1. /\ DOMAIN obj' \subseteq Slot
        /\ \A u \in DOMAIN obj' : obj'[u] \in Instance \cup {Moved}
    BY <1>2 DEF Inv, TypeOK
  <2>2. \A u, v \in Open' : obj'[u].file = obj'[v].file => u = v
    BY <1>1, <1>2 DEF Open
  <2>3. \A u \in Open' : dirty'[obj'[u].file]
    BY <1>1, <1>2 DEF Open
  <2> QED BY <2>1, <2>2, <2>3 DEF Inv, TypeOK, pagemap
<1>4. MarksTell'
  <2>1. /\ Selective(t)' <=> Selective(s)
        /\ t \in Open => (Selective(s)' <=> Selective(t))
    BY DEF Selective
  <2>2. ASSUME NEW u \in Open', u \notin {s, t}
        PROVE  u \in Open /\ obj'[u] = obj[u] /\ (Selective(u)' <=> Selective(u))
    BY <1>1, <2>2 DEF Open, Selective
  <2>3. \A u \in Open' : Selective(u)' => obj'[u].unsaved \subseteq obj'[u].soft
    BY <1>1, <2>1, <2>2 DEF Inv, MarksTell
  <2>4. ~_pagemap_support_checked => \A u \in Open' : ~Selective(u)'
    BY <1>1, <2>1, <2>2 DEF Inv, MarksTell
  <2> QED BY <2>3, <2>4 DEF MarksTell, pagemap
<1> QED BY <1>3, <1>4 DEF Inv

LEMMA MovesStep ==
  ASSUME Inv, NEW s \in Slot, NEW t \in Slot,
         MoveConstruct(s, t) \/ MoveAssign(s, t)
  PROVE  Inv'
<1>1. s \in DOMAIN obj /\ s \in Open
  BY DEF MoveConstruct, MoveAssign, Open
<1>2. CASE MoveConstruct(s, t)
  <2>1. /\ t \notin DOMAIN obj
        /\ obj' = [Put(obj, t, obj[s]) EXCEPT ![s] = Moved]
        /\ UNCHANGED <<_instance_tracker, pagemap, dirty, lost>>
    BY <1>2 DEF MoveConstruct
  <2>2. /\ t # s /\ t \notin Open
        /\ DOMAIN obj' = DOMAIN obj \cup {t}
        /\ obj'[t] = obj[s] /\ obj'[s] = Moved
        /\ \A u \in DOMAIN obj \ {s, t} : obj'[u] = obj[u]
    BY <1>1, <2>1 DEF Put, Open
  <2> QED BY <1>1, <2>1, <2>2, MoveStep
<1>3. CASE MoveAssign(s, t)
  <2>1. /\ t \in DOMAIN obj \ {s}
        /\ obj' = [obj EXCEPT ![s] = obj[t], ![t] = obj[s]]
        /\ UNCHANGED <<_instance_tracker, pagemap, dirty, lost>>
    BY <1>1, <1>3 DEF MoveAssign
  <2>2. /\ DOMAIN obj' = DOMAIN obj \cup {t}
        /\ obj'[t] = obj[s] /\ obj'[s] = obj[t]
        /\ \A u \in DOMAIN obj \ {s, t} : obj'[u] = obj[u]
    BY <1>1, <2>1
  <2>3. obj'[s] = (IF t \in Open THEN obj[t] ELSE Moved)
    BY <2>1, <2>2 DEF Open
  <2> QED BY <1>1, <2>1, <2>2, <2>3, MoveStep
<1> QED BY <1>2, <1>3

(* An object goes, and with it possibly its address. *)
LEMMA GoneStep ==
  ASSUME Inv, NEW s \in Slot, obj' = Without(obj, s), UNCHANGED pagemap,
         _instance_tracker' \in Seq(Slot), Tracked' \subseteq Tracked,
         dirty' \in [File -> BOOLEAN], lost' \in [File -> SUBSET Page],
         \A u \in Open \ {s} : dirty'[obj[u].file]
  PROVE  Inv'
<1>1. /\ DOMAIN obj' = DOMAIN obj \ {s}
      /\ \A u \in DOMAIN obj' : obj'[u] = obj[u]
      /\ Open' = Open \ {s}
  BY DEF Without, Open
<1>2. \A u \in Open' : u \in Open /\ obj'[u] = obj[u]
  BY <1>1 DEF Open
<1>3. TypeOK'
  <2>1. /\ DOMAIN obj' \subseteq Slot
        /\ \A u \in DOMAIN obj' : obj'[u] \in Instance \cup {Moved}
    BY <1>1 DEF Inv, TypeOK
  <2>2. \A u, v \in Open' : obj'[u].file = obj'[v].file => u = v
    BY <1>2 DEF Inv, TypeOK
  <2>3. \A u \in Open' : dirty'[obj'[u].file]
    BY <1>1, <1>2
  <2> QED BY <2>1, <2>2, <2>3 DEF Inv, TypeOK, pagemap
<1>4. MarksTell'
  <2>1. \A u \in Open' : Selective(u)' => Selective(u)
    BY <1>2 DEF Selective
  <2> QED BY <1>2, <2>1 DEF Inv, MarksTell, pagemap
<1> QED BY <1>3, <1>4 DEF Inv

LEMMA CloseStep ==
  ASSUME Inv, NEW s \in Slot, Close(s)
  PROVE  Inv'
<1>1. /\ s \in Open
      /\ lost' = [lost EXCEPT ![obj[s].file] = Saved(s).unsaved]
      /\ dirty' = [dirty EXCEPT ![obj[s].file] = FALSE]
      /\ obj' = Without(obj, s) /\ UNCHANGED pagemap
  BY DEF Close
<1>2. /\ obj[s] \in Instance /\ obj[s].file \in File
      /\ \A u \in Open \ {s} : obj[u].file # obj[s].file /\ dirty[obj[u].file]
                              /\ obj[u].file \in File
  BY <1>1, OpenFacts DEF Inv, TypeOK
<1>3. Saved(s).unsaved \subseteq obj[s].unsaved
  BY <1>1, SavedFacts DEF Inv
<1>4. _instance_tracker' \in Seq(Slot) /\ Tracked' \subseteq Tracked
  <2>1. _instance_tracker \in Seq(Slot)
    BY DEF Inv, TypeOK
  <2>2. CASE UNCHANGED _instance_tracker
    BY <2>1, <2>2 DEF Tracked
  <2>3. CASE ~UNCHANGED _instance_tracker
    <3>1. PICK i \in DOMAIN _instance_tracker :
            _instance_tracker' = RemoveAt(_instance_tracker, i)
      BY <2>3 DEF Close
    <3> QED BY <2>1, <3>1, RemovedTracked DEF Tracked
  <2> QED BY <2>2, <2>3
<1>5. dirty' \in [File -> BOOLEAN] /\ lost' \in [File -> SUBSET Page]
  BY <1>1, <1>2, <1>3 DEF Inv, TypeOK, Instance
<1>6. \A u \in Open \ {s} : dirty'[obj[u].file]
  BY <1>1, <1>2 DEF Inv, TypeOK
<1> QED BY <1>1, <1>4, <1>5, <1>6, GoneStep

LEMMA DiscardStep ==
  ASSUME Inv, NEW s \in Slot, Discard(s)
  PROVE  Inv'
<1>1. /\ s \notin Open /\ obj' = Without(obj, s)
      /\ UNCHANGED <<_instance_tracker, pagemap, dirty, lost>>
  BY DEF Discard
<1>2. /\ _instance_tracker' \in Seq(Slot) /\ Tracked' = Tracked
      /\ dirty' \in [File -> BOOLEAN] /\ lost' \in [File -> SUBSET Page]
      /\ \A u \in Open : dirty'[obj[u].file]
  BY <1>1 DEF Inv, TypeOK, Tracked
<1> QED BY <1>1, <1>2, GoneStep

LEMMA TrackerStep ==
  ASSUME Inv, [Next]_vars
  PROVE  Inv'
<1>1. CASE UNCHANGED vars
  BY <1>1 DEF vars, pagemap, Inv, TypeOK, MarksTell, Open, Tracked, Selective
<1>2. CASE Next
  BY <1>2, OpenPrivateStep, OpenAbortsStep, OpenHeapStep, WriteStep, MovesStep,
     CloseStep, DiscardStep DEF Next
<1> QED BY <1>1, <1>2

(* No two open objects have the same file, and the flag of a file is set   *)
(* while it is open, whatever is moved.                                    *)
THEOREM TrackerTypeCorrect == Spec => []TypeOK
<1>1. Inv => TypeOK
  BY DEF Inv
<1> QED BY <1>1, InvInit, TrackerStep, PTL DEF Spec

(* What Close saves of the instance at s. *)
LEMMA ClosedSaved ==
  ASSUME Inv, NEW s \in Open, obj[s].mode = Private \/ s \notin Tracked
  PROVE  Saved(s).unsaved = {}
<1>1. obj[s] \in Instance
  BY OpenFacts DEF Inv
<1>2. CASE s \in Tracked
  <2>1. obj[s].unsaved \subseteq obj[s].soft
    BY <1>2 DEF Inv, MarksTell, Selective
  <2>2. Saved(s).unsaved = obj[s].unsaved \ obj[s].soft
    BY <1>1, <1>2 DEF Saved, Marked, Instance
  <2> QED BY <2>1, <2>2
<1>3. CASE s \notin Tracked
  BY <1>1, <1>3 DEF Saved, Instance
<1> QED BY <1>2, <1>3

LEMMA PagesStep ==
  ASSUME Inv, [Next]_vars, NEW s \in Open, ~dirty'[obj[s].file]
  PROVE  lost'[obj[s].file] = {} \/ (obj[s].mode = Heap /\ s \in Tracked)
<1>1. /\ dirty \in [File -> BOOLEAN] /\ lost \in [File -> SUBSET Page]
      /\ obj[s].file \in File /\ dirty[obj[s].file] /\ obj[s] \in Instance
      /\ \A t \in Open : obj[t].file = obj[s].file => t = s
  BY OpenFacts DEF Inv, TypeOK
<1>2. Next
  BY <1>1 DEF vars
<1>3. ASSUME NEW t \in Slot, NEW f \in File, OpenPrivate(t, f) \/ OpenHeap(t, f)
      PROVE  FALSE
  BY <1>1, <1>3 DEF OpenPrivate, OpenHeap
<1>4. ASSUME NEW f \in File, OpenAborts(f)
      PROVE  FALSE
  BY <1>1, <1>4 DEF OpenAborts
<1>5. UNCHANGED dirty => FALSE
  BY <1>1
<1>6. \A t, u \in Slot, g \in Page :
        ~(Write(t, g) \/ MoveConstruct(t, u) \/ MoveAssign(t, u) \/ Discard(t))
  BY <1>5 DEF Write, MoveConstruct, MoveAssign, Discard
<1>7. PICK t \in Slot : Close(t)
  <2>1. \A t, u \in Slot : ~MoveConstruct(t, u) /\ ~MoveAssign(t, u) /\ ~Discard(t)
    BY <1>5 DEF MoveConstruct, MoveAssign, Discard
  <2> QED BY <1>2, <1>3, <1>4, <1>6, <2>1 DEF Next
<1>8. /\ t \in Open /\ dirty' = [dirty EXCEPT ![obj[t].file] = FALSE]
      /\ lost' = [lost EXCEPT ![obj[t].file] = Saved(t).unsaved]
  BY <1>7 DEF Close
<1>9. t = s
  BY <1>1, <1>8
<1>10. lost'[obj[s].file] = Saved(s).unsaved
  BY <1>1, <1>8, <1>9
<1>11. obj[s].mode = Private \/ obj[s].mode = Heap
  BY <1>1, InstanceTrackerAssumption DEF Instance
<1> QED BY <1>10, <1>11, ClosedSaved

(* A page that was written is in its file when the flag goes clear, for    *)
(* any number of instances, of addresses that are used again and of moves, *)
(* with soft-dirty bits or without; but for one in heap mode that was      *)
(* moved to a tracked address.                                             *)
THEOREM PagesAlwaysSaved == Spec => PagesSaved
<1>1. Inv /\ [Next]_vars =>
        [\A s \in Open :
           ~dirty'[obj[s].file] =>
             lost'[obj[s].file] = {} \/ (obj[s].mode = Heap /\ s \in Tracked)]_vars
  BY PagesStep
<1> QED BY <1>1, InvInit, TrackerStep, PTL DEF Spec, PagesSaved
==============================================================================
