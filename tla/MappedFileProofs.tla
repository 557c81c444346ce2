--------------------------- MODULE MappedFileProofs ---------------------------
(***************************************************************************)
(* Proofs about MappedFile, for any processes, contents, sizes and bounds. *)
(***************************************************************************)
EXTENDS MappedFile, TLAPS, SequenceTheorems

LEMMA MaxOfTwo ==
  ASSUME NEW m \in Nat, NEW n \in Nat
  PROVE  Max({m, n}) = IF m > n THEN m ELSE n
BY DEF Max

LEMMA ZerosSeq ==
  ASSUME NEW n \in Nat
  PROVE  /\ Zeros(n) \in Seq(Val) /\ Len(Zeros(n)) = n
         /\ \A c \in 1 .. n : Zeros(n)[c] = Zero
<1>1. Zero \in Val
  BY MappedFileAssumption
<1> QED BY <1>1, IsASeq DEF Zeros

LEMMA ExtendedSeq ==
  ASSUME NEW s \in Seq(Val), NEW n \in Nat
  PROVE  /\ Extended(s, n) \in Seq(Val)
         /\ Len(Extended(s, n)) = Len(s) + n
         /\ \A c \in 1 .. Len(s) : Extended(s, n)[c] = s[c]
         /\ \A c \in Len(s) + 1 .. Len(s) + n : Extended(s, n)[c] = Zero
<1>1. /\ Zeros(n) \in Seq(Val) /\ Len(Zeros(n)) = n
      /\ \A c \in 1 .. n : Zeros(n)[c] = Zero
  BY ZerosSeq
<1>2. /\ s \o Zeros(n) \in Seq(Val)
      /\ Len(s \o Zeros(n)) = Len(s) + n
      /\ \A c \in 1 .. Len(s) + n :
           (s \o Zeros(n))[c] = IF c <= Len(s) THEN s[c] ELSE Zeros(n)[c - Len(s)]
  BY <1>1, ConcatProperties
<1>3. \A c \in Len(s) + 1 .. Len(s) + n : Zeros(n)[c - Len(s)] = Zero
  BY <1>1
<1> QED BY <1>2, <1>3 DEF Extended

(* A chunk is overwritten, or nothing is when there is no such chunk. *)
LEMMA ExceptAny ==
  ASSUME NEW s \in Seq(Val), NEW i, NEW e \in Val
  PROVE  /\ [s EXCEPT ![i] = e] \in Seq(Val)
         /\ Len([s EXCEPT ![i] = e]) = Len(s)
         /\ \A c \in 1 .. Len(s) : [s EXCEPT ![i] = e][c] = IF c = i THEN e ELSE s[c]
<1>1. Len(s) \in Nat /\ s \in [1 .. Len(s) -> Val]
  BY LenProperties
<1>2. [s EXCEPT ![i] = e] \in [1 .. Len(s) -> Val]
  BY <1>1
<1>3. [s EXCEPT ![i] = e] \in Seq(Val)
  BY <1>1, <1>2, SeqDef
<1>4. Len([s EXCEPT ![i] = e]) = Len(s)
  BY <1>1, <1>2, <1>3, LenProperties
<1>5. \A c \in 1 .. Len(s) : [s EXCEPT ![i] = e][c] = IF c = i THEN e ELSE s[c]
  BY <1>1
<1> QED BY <1>3, <1>4, <1>5

-----------------------------------------------------------------------------
(* The lock, in a process that opens no file twice: who writes holds it.   *)

WriterLocks ==
  /\ pc \in [Process -> Busy \cup {"out", "in"}]
  /\ DOMAIN opt = Process
  /\ \A p \in Process : Writing(p) => lock = p

LEMMA WriterLocksInit == Init => WriterLocks
BY DEF Init, WriterLocks, Writing, NoOpt, Busy, Constructing

LEMMA WriterLocksStep ==
  ASSUME ~SecondOpen, WriterLocks, [Next]_vars
  PROVE  WriterLocks'
<1>1. CASE UNCHANGED vars
  BY <1>1 DEF vars, WriterLocks, Writing
<1>2. ASSUME NEW p \in Process, Step(p)
      PROVE  WriterLocks'
  <2> USE WriterLocks DEF WriterLocks, Writing, Goto, Busy, Constructing
  <2>1. ASSUME NEW o \in Options, Check(p, o) PROVE WriterLocks'
    BY <2>1 DEF Check
  <2>2. CASE Create(p) \/ Format(p) \/ ResizeFile(p) \/ GrowSegment(p)
    BY <2>2 DEF Create, Format, ResizeFile, GrowSegment
  <2>3. CASE TryLock(p)
    BY <2>3, MappedFileAssumption DEF TryLock, Leave, Released, NoOpt
  <2>4. CASE MapShared(p) \/ MapPrivate(p) \/ MapHeap(p) \/ LoadChunk(p)
    BY <2>4 DEF MapShared, MapPrivate, MapHeap, LoadChunk, Leave, Released, NoOpt
  <2>5. CASE SaveChunk(p) \/ ClearDirty(p) \/ FailSetup(p)
    BY <2>5 DEF SaveChunk, ClearDirty, FailSetup, Leave, Released, NoOpt
  <2>6. ASSUME NEW c, NEW v, Write(p, c, v) PROVE WriterLocks'
    BY <2>6 DEF Write
  <2>7. CASE Close(p) \/ Crash(p)
    BY <2>7 DEF Close, Crash, Leave, Released, NoOpt
  <2>8. CASE OpenAgain(p)
    BY <2>8 DEF OpenAgain
  <2> QED BY <1>2, <2>1, <2>2, <2>3, <2>4, <2>5, <2>6, <2>7, <2>8 DEF Step, Continue
<1> QED BY <1>1, <1>2 DEF Next

(* In a program that does not open a file twice, two processes never have  *)
(* it open for writing at the same time, in whatever order they construct, *)
(* fail, close and die ("Could not gain write access"). *)
THEOREM OneWriterOnly == ~SecondOpen => (Spec => []OneWriter)
<1> SUFFICES ASSUME ~SecondOpen PROVE Spec => []OneWriter
  OBVIOUS
<1>1. Init => WriterLocks
  BY WriterLocksInit
<1>2. WriterLocks /\ [Next]_vars => WriterLocks'
  BY WriterLocksStep
<1>3. WriterLocks => OneWriter
  BY DEF WriterLocks, OneWriter
<1> QED BY <1>1, <1>2, <1>3, PTL DEF Spec
-----------------------------------------------------------------------------
(* Types.  That loading and saving stay inside of the file and of memory   *)
(* rests on the sizes: no file shrinks, and no offset reaches the end.     *)

SizesOf(p) ==
  /\ opt[p].writable => opt[p].size > 0
  /\ pc[p] \in {"attach", "format", "grow", "lock", "save", "clear"} => opt[p].writable
  /\ pc[p] \in {"format", "grow", "lock", "setup", "load", "in", "save", "clear"}
       /\ opt[p].writable => opt[p].size <= Len(file.data)
  /\ pc[p] \in {"load", "in", "save", "clear"} /\ opt[p].writable /\ ~Shared(p)
       => opt[p].size <= Len(mem[p].data)
  /\ pc[p] = "load" => Len(mem[p].data) <= Len(file.data)
  /\ pc[p] = "load" => opt[p].mode = "heap"
  /\ pc[p] = "save" => ~Shared(p)
  /\ pc[p] \in {"load", "save"} => off[p] < opt[p].size
  /\ pc[p] \notin {"grow", "load", "save"} => off[p] = 0

Sizes == /\ file.header = "absent" => file.data = <<>>
         /\ \A p \in Process : SizesOf(p)

LEMMA TypeInit == Init => TypeOK
<1>1. FirstChunk \in Val /\ <<FirstChunk>> \in Seq(Val) /\ <<>> \in Seq(Val)
  BY MappedFileAssumption
<1> QED BY <1>1 DEF Init, TypeOK, NoMem, NoOpt, Mode, Busy, Constructing

LEMMA LeaveType ==
  ASSUME TypeOK, NEW p \in Process, Leave(p)
  PROVE  /\ lock' \in Process \cup {NoOne}
         /\ pc' \in [Process -> Busy \cup {"out", "in"}]
         /\ opt' \in [Process -> [writable : BOOLEAN, allow_dirty : BOOLEAN,
                                  mode : Mode, size : Nat]]
         /\ mem' \in [Process -> [data : Seq(Val), seg : Nat]]
         /\ off' \in [Process -> Nat]
<1>1. <<>> \in Seq(Val)
  OBVIOUS
<1>2. NoMem \in [data : Seq(Val), seg : Nat]
  BY <1>1 DEF NoMem
<1>3. NoOpt \in [writable : BOOLEAN, allow_dirty : BOOLEAN, mode : Mode, size : Nat]
  BY DEF NoOpt, Mode
<1> QED BY <1>2, <1>3 DEF TypeOK, Leave, Released, Goto

(* What the file looks like after the steps that change it. *)
LEMMA ResizeFacts ==
  ASSUME TypeOK, NEW p \in Process, ResizeFile(p)
  PROVE  /\ Grown(p) \in Nat
         /\ file'.data = Extended(file.data, Grown(p))
         /\ held' = Extended(held, Grown(p))
         /\ opt'[p].size = Len(file.data) + Grown(p)
         /\ file' = [file EXCEPT !.data = file'.data]
         /\ opt' = [opt EXCEPT ![p].size = opt'[p].size]
<1>1. opt[p].size \in Nat /\ Len(file.data) \in Nat
  BY DEF TypeOK
<1>2. Max({opt[p].size, Len(file.data)}) = Len(file.data) + Grown(p)
  BY <1>1, MaxOfTwo DEF Grown
<1>3. Max({opt[p].size, Len(file.data)}) - Len(file.data) = Grown(p)
  BY <1>1, <1>2 DEF Grown
<1> QED BY <1>1, <1>2, <1>3 DEF TypeOK, ResizeFile, Grown

(* What a step of the two loops does to the chunks. *)
LEMMA LoadFacts ==
  ASSUME TypeOK, Sizes, NEW p \in Process, LoadChunk(p),
         off[p] + 1 <= Len(mem[p].data)
  PROVE  LET c == off[p] + 1
         IN  /\ c \in 1 .. Len(file.data) /\ c \in 1 .. Len(mem[p].data)
             /\ mem'[p].data \in Seq(Val) /\ mem'[p].seg \in Nat
             /\ mem' = [mem EXCEPT ![p] = mem'[p]]
             /\ Len(mem'[p].data) = Len(mem[p].data)
             /\ \A k \in 1 .. Len(mem[p].data) :
                  mem'[p].data[k] = IF k = c THEN file.data[k] ELSE mem[p].data[k]
             /\ UNCHANGED <<file, lock, opt, held>>
             /\ pc[p] = "load"
             /\ off' = [off EXCEPT ![p] = IF c = opt[p].size THEN 0 ELSE c]
             /\ pc' = [pc EXCEPT ![p] = IF c = opt[p].size THEN "in" ELSE "load"]
<1> DEFINE c == off[p] + 1
           d == [mem[p].data EXCEPT ![c] = file.data[c]]
           g == IF c = 1 THEN file.seg ELSE mem[p].seg
<1>1. /\ c \in 1 .. Len(file.data) /\ c \in 1 .. Len(mem[p].data)
      /\ file.data \in Seq(Val) /\ mem[p].data \in Seq(Val)
  <2>1. /\ pc[p] = "load" /\ off[p] \in Nat
        /\ file.data \in Seq(Val) /\ mem[p].data \in Seq(Val)
        /\ Len(mem[p].data) \in Nat /\ Len(file.data) \in Nat
    BY DEF TypeOK, LoadChunk
  <2>2. Len(mem[p].data) <= Len(file.data)
    BY <2>1 DEF Sizes, SizesOf
  <2> QED BY <2>1, <2>2
<1>2. file.data[c] \in Val
  BY <1>1, ElementOfSeq
<1>3. d \in Seq(Val) /\ g \in Nat /\ Len(d) = Len(mem[p].data)
      /\ \A k \in 1 .. Len(mem[p].data) :
           d[k] = IF k = c THEN file.data[c] ELSE mem[p].data[k]
  BY <1>1, <1>2, ExceptAny DEF TypeOK
<1>4. /\ mem' = [mem EXCEPT ![p].data = d, ![p].seg = g]
      /\ UNCHANGED <<file, lock, opt, held>> /\ pc[p] = "load"
      /\ off' = [off EXCEPT ![p] = IF c = opt[p].size THEN 0 ELSE c]
      /\ pc' = [pc EXCEPT ![p] = IF c = opt[p].size THEN "in" ELSE "load"]
  BY DEF LoadChunk, TypeOK, IsLast, Goto
<1> HIDE DEF d, g
<1>5. /\ mem'[p].data = d /\ mem'[p].seg = g
      /\ mem' = [mem EXCEPT ![p] = mem'[p]]
  BY <1>4 DEF TypeOK
<1> QED BY <1>1, <1>3, <1>4, <1>5

(* There is a chunk to load, or the process dies. *)
LEMMA LoadCases ==
  ASSUME TypeOK, NEW p \in Process, LoadChunk(p)
  PROVE  \/ off[p] + 1 <= Len(mem[p].data)
         \/ Leave(p) /\ UNCHANGED <<file, held>> /\ pc[p] = "load"
BY DEF LoadChunk

LEMMA SaveFacts ==
  ASSUME TypeOK, Sizes, NEW p \in Process, SaveChunk(p)
  PROVE  LET c == off[p] + 1
         IN  /\ c \in 1 .. Len(mem[p].data)
             /\ file' \in [header : {"absent", "blank", "valid"}, dirty : BOOLEAN,
                           seg : Nat, data : Seq(Val)]
             /\ file'.header = file.header /\ file'.dirty = file.dirty
             /\ Len(file'.data) = Len(file.data)
             /\ \A k \in 1 .. Len(file.data) :
                  file'.data[k] = IF k = c /\ mem[p].data[k] # Zero
                                  THEN mem[p].data[k] ELSE file.data[k]
<1> DEFINE c == off[p] + 1
           d == [file.data EXCEPT ![c] = mem[p].data[c]]
           g == IF c = 1 THEN mem[p].seg ELSE file.seg
<1>1. /\ c \in 1 .. Len(mem[p].data)
      /\ file.data \in Seq(Val) /\ mem[p].data \in Seq(Val)
  BY DEF TypeOK, Sizes, SizesOf, SaveChunk
<1>2. mem[p].data[c] \in Val
  BY <1>1, ElementOfSeq
<1>3. d \in Seq(Val) /\ g \in Nat /\ Len(d) = Len(file.data)
      /\ \A k \in 1 .. Len(file.data) :
           d[k] = IF k = c THEN mem[p].data[c] ELSE file.data[k]
  BY <1>1, <1>2, ExceptAny DEF TypeOK
<1>4. \/ mem[p].data[c] = Zero /\ file' = file
      \/ mem[p].data[c] # Zero /\ file' = [file EXCEPT !.data = d, !.seg = g]
  BY DEF SaveChunk, TypeOK, all_zeros
<1> HIDE DEF d, g
<1>5. CASE mem[p].data[c] = Zero /\ file' = file
  BY <1>1, <1>5 DEF TypeOK
<1>6. CASE mem[p].data[c] # Zero /\ file' = [file EXCEPT !.data = d, !.seg = g]
  <2>1. file'.data = d /\ file'.header = file.header /\ file'.dirty = file.dirty
        /\ file' \in [header : {"absent", "blank", "valid"}, dirty : BOOLEAN,
                      seg : Nat, data : Seq(Val)]
    BY <1>3, <1>6 DEF TypeOK
  <2> QED BY <1>1, <1>3, <1>6, <2>1
<1> QED BY <1>4, <1>5, <1>6

LEMMA TypeStep ==
  ASSUME TypeOK, Sizes, [Next]_vars
  PROVE  TypeOK'
<1>1. CASE UNCHANGED vars
  BY <1>1 DEF vars, TypeOK
<1>2. ASSUME NEW p \in Process, Step(p)
      PROVE  TypeOK'
  <2>1. ASSUME NEW o \in Options, Check(p, o) PROVE TypeOK'
    BY <2>1, MappedFileAssumption DEF TypeOK, Check, Goto, Busy, Constructing
  <2>2. CASE Create(p)
    <3>1. Zeros(opt[p].size) \in Seq(Val)
      BY ZerosSeq DEF TypeOK
    <3> QED BY <2>2, <3>1 DEF TypeOK, Create, Goto, Busy, Constructing
  <2>3. CASE Format(p)
    <3>1. [file.data EXCEPT ![1] = FirstChunk] \in Seq(Val)
      BY MappedFileAssumption, ExceptAny DEF TypeOK
    <3> QED BY <2>3, <3>1 DEF TypeOK, Format, Goto, Busy, Constructing
  <2>4. CASE ResizeFile(p)
    <3>1. file'.data \in Seq(Val) /\ held' \in Seq(Val)
      BY <2>4, ResizeFacts, ExtendedSeq DEF TypeOK
    <3>2. opt'[p].size \in Nat /\ Grown(p) \in Nat
      BY <2>4, ResizeFacts DEF TypeOK
    <3>3. file' = [file EXCEPT !.data = file'.data]
          /\ opt' = [opt EXCEPT ![p].size = opt'[p].size]
      BY <2>4, ResizeFacts
    <3>4. file' \in [header : {"absent", "blank", "valid"}, dirty : BOOLEAN,
                     seg : Nat, data : Seq(Val)]
      <4> DEFINE d == file'.data
      <4>1. file' = [file EXCEPT !.data = d] /\ d \in Seq(Val)
        BY <3>1, <3>3
      <4> HIDE DEF d
      <4> QED BY <4>1 DEF TypeOK
    <3>5. opt' \in [Process -> [writable : BOOLEAN, allow_dirty : BOOLEAN,
                              mode : Mode, size : Nat]]
      <4> DEFINE n == opt'[p].size
      <4>1. opt' = [opt EXCEPT ![p].size = n] /\ n \in Nat
        BY <3>2, <3>3
      <4> HIDE DEF n
      <4> QED BY <4>1 DEF TypeOK
    <3>6. /\ off' = [off EXCEPT ![p] = Grown(p)]
          /\ pc' \in [Process -> Busy \cup {"out", "in"}]
          /\ UNCHANGED <<lock, mem>>
      BY <2>4 DEF TypeOK, ResizeFile, Goto, Busy, Constructing
    <3> QED BY <3>1, <3>2, <3>4, <3>5, <3>6 DEF TypeOK
  <2>5. CASE GrowSegment(p)
    <3>1. file' = [file EXCEPT !.seg = file.seg + off[p]] /\ file.seg + off[p] \in Nat
      BY <2>5 DEF TypeOK, GrowSegment
    <3>2. file' \in [header : {"absent", "blank", "valid"}, dirty : BOOLEAN,
                     seg : Nat, data : Seq(Val)]
      BY <3>1 DEF TypeOK
    <3> QED BY <2>5, <3>2 DEF TypeOK, GrowSegment, Goto, Busy, Constructing
  <2>6. CASE TryLock(p)
    BY <2>6, LeaveType DEF TypeOK, TryLock, Goto, Busy, Constructing
  <2>7. CASE MapShared(p)
    BY <2>7 DEF TypeOK, MapShared, Goto, Busy, Constructing
  <2>8. CASE MapPrivate(p)
    BY <2>8 DEF TypeOK, MapPrivate, Goto, Busy, Constructing
  <2>9. CASE MapHeap(p)
    <3> DEFINE n == IF opt[p].writable THEN opt[p].size ELSE Len(file.data)
    <3>1. Zeros(n) \in Seq(Val)
      BY ZerosSeq DEF TypeOK
    <3>2. mem' = [mem EXCEPT ![p] = [data |-> Zeros(n), seg |-> 0]]
      BY <2>9 DEF MapHeap
    <3> HIDE DEF n
    <3>3. mem' \in [Process -> [data : Seq(Val), seg : Nat]]
      BY <3>1, <3>2 DEF TypeOK
    <3> QED BY <2>9, <3>3 DEF TypeOK, MapHeap, Goto, Busy, Constructing
  <2>10. CASE LoadChunk(p)
    <3>1. CASE Leave(p) /\ UNCHANGED <<file, held>>
      BY <3>1, LeaveType DEF TypeOK
    <3>2. CASE off[p] + 1 <= Len(mem[p].data)
      <4>1. /\ mem' = [mem EXCEPT ![p] = mem'[p]]
            /\ mem'[p].data \in Seq(Val) /\ mem'[p].seg \in Nat
            /\ UNCHANGED <<file, lock, opt, held>>
            /\ off' = [off EXCEPT ![p] = IF off[p] + 1 = opt[p].size THEN 0 ELSE off[p] + 1]
            /\ pc' = [pc EXCEPT ![p] = IF off[p] + 1 = opt[p].size THEN "in" ELSE "load"]
        BY <2>10, <3>2, LoadFacts
      <4>2. mem'[p] \in [data : Seq(Val), seg : Nat]
        BY <2>10, <3>2, <4>1 DEF LoadChunk, TypeOK
      <4>3. mem' \in [Process -> [data : Seq(Val), seg : Nat]]
        BY <4>1, <4>2 DEF TypeOK
      <4>4. off' \in [Process -> Nat] /\ pc' \in [Process -> Busy \cup {"out", "in"}]
        BY <4>1 DEF TypeOK, Busy, Constructing
      <4> QED BY <4>1, <4>3, <4>4 DEF TypeOK
    <3> QED BY <2>10, <3>1, <3>2, LoadCases
  <2>11. CASE SaveChunk(p)
    <3>1. UNCHANGED <<lock, opt, mem, held>>
          /\ off' \in [Process -> Nat] /\ pc' \in [Process -> Busy \cup {"out", "in"}]
      BY <2>11 DEF TypeOK, SaveChunk, Goto, Busy, Constructing
    <3> QED BY <2>11, <3>1, SaveFacts DEF TypeOK
  <2>12. CASE ClearDirty(p)
    BY <2>12, LeaveType DEF TypeOK, ClearDirty, Contents
  <2>13. CASE FailSetup(p)
    BY <2>13, LeaveType DEF TypeOK, FailSetup
  <2>14. ASSUME NEW c \in 1 .. Len(file.data), NEW v \in Val, Write(p, c, v)
         PROVE  TypeOK'
    <3>1. [file.data EXCEPT ![c] = v] \in Seq(Val) /\ [mem[p].data EXCEPT ![c] = v] \in Seq(Val)
      BY ExceptAny DEF TypeOK
    <3> DEFINE d == [file.data EXCEPT ![c] = v]
               m == [mem[p].data EXCEPT ![c] = v]
    <3>2. /\ file' = file \/ file' = [file EXCEPT !.data = d]
          /\ mem' = mem \/ mem' = [mem EXCEPT ![p].data = m]
          /\ UNCHANGED <<lock, pc, opt, off, held>>
      BY <2>14 DEF TypeOK, Write
    <3> HIDE DEF d, m
    <3>3. d \in Seq(Val) /\ m \in Seq(Val)
      BY <3>1 DEF d, m
    <3>4. file' \in [header : {"absent", "blank", "valid"}, dirty : BOOLEAN,
                     seg : Nat, data : Seq(Val)]
      BY <3>2, <3>3 DEF TypeOK
    <3>5. mem' \in [Process -> [data : Seq(Val), seg : Nat]]
      <4>1. CASE mem' = mem
        BY <4>1 DEF TypeOK
      <4>2. CASE mem' = [mem EXCEPT ![p].data = m]
        BY <3>3, <4>2 DEF TypeOK
      <4> QED BY <3>2, <4>1, <4>2
    <3> QED BY <3>2, <3>4, <3>5 DEF TypeOK
  <2>15. CASE OpenAgain(p)
    BY <2>15 DEF TypeOK, OpenAgain
  <2>16. CASE Close(p)
    BY <2>16, LeaveType DEF TypeOK, Close, Goto, Busy, Constructing
  <2>17. CASE Crash(p)
    BY <2>17, LeaveType DEF TypeOK, Crash
  <2> QED BY <1>2, <2>1, <2>2, <2>3, <2>4, <2>5, <2>6, <2>7, <2>8, <2>9, <2>10,
             <2>11, <2>12, <2>13, <2>14, <2>15, <2>16, <2>17 DEF Step, Continue
<1> QED BY <1>1, <1>2 DEF Next

(* A step of one process leaves the others where they are. *)
LEMMA OthersStand ==
  ASSUME TypeOK, NEW p \in Process, Step(p), NEW q \in Process, q # p
  PROVE  opt'[q] = opt[q] /\ pc'[q] = pc[q] /\ mem'[q] = mem[q] /\ off'[q] = off[q]
BY DEF TypeOK, Step, Continue, Check, Create, Format, ResizeFile, GrowSegment, TryLock,
       MapShared, MapPrivate, MapHeap, LoadChunk, FailSetup, Write, OpenAgain, Close,
       SaveChunk, ClearDirty, Crash, Leave, Goto

LEMMA SizesInit == Init => Sizes
BY DEF Init, Sizes, SizesOf, NoOpt

(* No file shrinks, and none disappears. *)
LEMMA FileGrows ==
  ASSUME TypeOK, Sizes, NEW p \in Process, Step(p)
  PROVE  /\ Len(file.data) \in Nat /\ Len(file'.data) \in Nat
         /\ Len(file'.data) >= Len(file.data)
         /\ file'.header = "absent" => file'.data = <<>>
<1>1. /\ Len(file.data) \in Nat /\ file.data \in Seq(Val)
      /\ file.header = "absent" => file.data = <<>>
      /\ opt[p].size \in Nat
  BY DEF TypeOK, Sizes
<1>2. CASE file'.data = file.data /\ file'.header = file.header
  BY <1>1, <1>2
<1>3. CASE Create(p)
  BY <1>1, <1>3, ZerosSeq DEF Create
<1>4. CASE Format(p)
  <2>1. Len([file.data EXCEPT ![1] = FirstChunk]) = Len(file.data)
    BY <1>1, ExceptAny, MappedFileAssumption
  <2> QED BY <1>1, <1>4, <2>1 DEF Format
<1>5. CASE ResizeFile(p)
  <2>1. Grown(p) \in Nat /\ Len(file'.data) = Len(file.data) + Grown(p)
    BY <1>1, <1>5, ResizeFacts, ExtendedSeq
  <2>2. file'.header = file.header
    BY <1>5 DEF ResizeFile, TypeOK
  <2>3. file.header # "absent"
    BY <1>5 DEF ResizeFile
  <2> QED BY <1>1, <2>1, <2>2, <2>3
<1>6. CASE GrowSegment(p) \/ TryLock(p) \/ FailSetup(p) \/ ClearDirty(p)
  <2>1. file'.data = file.data /\ file'.header = file.header
    BY <1>6 DEF GrowSegment, TryLock, FailSetup, ClearDirty, TypeOK
  <2> QED BY <1>2, <2>1
<1>8. CASE SaveChunk(p)
  BY <1>1, <1>8, SaveFacts, EmptySeq
<1>9. ASSUME NEW c \in 1 .. Len(file.data), NEW v \in Val, Write(p, c, v)
      PROVE  Len(file'.data) = Len(file.data) /\ file'.header = file.header
  <2>1. CASE file' = file
    BY <2>1
  <2>2. CASE file' = [file EXCEPT !.data[c] = v]
    <3>1. Len([file.data EXCEPT ![c] = v]) = Len(file.data)
      BY <1>1, ExceptAny
    <3> QED BY <2>2, <3>1 DEF TypeOK
  <2> QED BY <1>9, <2>1, <2>2 DEF Write
<1> QED
  BY <1>1, <1>2, <1>3, <1>4, <1>5, <1>6, <1>8, <1>9 DEF Step, Continue, Check,
     MapShared, MapPrivate, MapHeap, LoadChunk, OpenAgain, Close, Crash

LEMMA LeaveSizes ==
  ASSUME TypeOK, NEW p \in Process, Leave(p)
  PROVE  SizesOf(p)'
<1>1. opt'[p] = NoOpt /\ pc'[p] = "out" /\ off'[p] = 0
  BY DEF TypeOK, Leave, Goto
<1> QED BY <1>1 DEF SizesOf, NoOpt

LEMMA SizesStep ==
  ASSUME TypeOK, Sizes, [Next]_vars
  PROVE  Sizes'
<1>1. CASE UNCHANGED vars
  BY <1>1 DEF vars, Sizes, SizesOf, Shared
<1>2. ASSUME NEW p \in Process, Step(p)
      PROVE  Sizes'
  <2>1. /\ Len(file.data) \in Nat /\ Len(file'.data) \in Nat
        /\ Len(file'.data) >= Len(file.data)
        /\ file'.header = "absent" => file'.data = <<>>
    BY <1>2, FileGrows
  <2>2. ASSUME NEW q \in Process, q # p
        PROVE  SizesOf(q)'
    <3>1. opt'[q] = opt[q] /\ pc'[q] = pc[q] /\ mem'[q] = mem[q] /\ off'[q] = off[q]
      BY <1>2, <2>2, OthersStand
    <3> QED BY <2>1, <3>1 DEF TypeOK, Sizes, SizesOf, Shared
  <2>3. SizesOf(p)'
    <3> USE DEF SizesOf, Shared
    <3>0. /\ TypeOK /\ TypeOK' /\ SizesOf(p)
      BY TypeStep DEF Sizes
    <3>1. ASSUME NEW o \in Options, Check(p, o) PROVE SizesOf(p)'
      BY <3>0, <3>1, MappedFileAssumption DEF TypeOK, Check, Goto
    <3>2. CASE Create(p)
      <4>1. Len(file'.data) = opt[p].size /\ opt[p].size \in Nat
        BY <3>0, <3>2, ZerosSeq DEF TypeOK, Create
      <4>2. opt' = opt /\ mem' = mem /\ off' = off /\ pc'[p] = "format"
        BY <3>0, <3>2 DEF TypeOK, Create, Goto
      <4> QED BY <3>0, <3>2, <4>1, <4>2 DEF Create
    <3>3. CASE Format(p)
      BY <2>1, <3>0, <3>3 DEF TypeOK, Format, Goto
    <3>4. CASE ResizeFile(p)
      <4>1. opt'[p].size = Len(file'.data)
        BY <3>0, <3>4, ResizeFacts, ExtendedSeq DEF TypeOK
      <4>2. opt'[p].writable = opt[p].writable /\ opt'[p].mode = opt[p].mode
        BY <3>0, <3>4 DEF TypeOK, ResizeFile
      <4>3. /\ pc[p] = "attach" /\ mem' = mem
            /\ \/ pc'[p] = "grow"
               \/ pc'[p] = "lock" /\ off'[p] = 0
        <5>1. Grown(p) \in Nat
          BY <3>0, <3>4, ResizeFacts
        <5> QED BY <3>0, <3>4, <5>1 DEF TypeOK, ResizeFile, Goto
      <4>4. Len(file.data) > 0 \/ opt'[p].size > 0
        <5>1. opt'[p].size = Len(file.data) + Grown(p) /\ opt[p].size \in Nat
          BY <3>0, <3>4, ResizeFacts DEF TypeOK
        <5> QED BY <2>1, <3>0, <4>3, <5>1 DEF Grown
      <4> QED BY <2>1, <3>0, <4>1, <4>2, <4>3, <4>4
    <3>5. CASE GrowSegment(p)
      BY <2>1, <3>0, <3>5 DEF TypeOK, GrowSegment, Goto
    <3>6. CASE TryLock(p)
      <4>1. CASE Leave(p)
        BY <3>0, <4>1, LeaveSizes
      <4>2. CASE Goto(p, "setup") /\ UNCHANGED <<opt, mem, off>>
        <5>1. pc[p] = "lock" /\ pc'[p] = "setup"
          BY <3>0, <3>6, <4>2 DEF TypeOK, TryLock, Goto
        <5> QED BY <2>1, <3>0, <4>2, <5>1 DEF TypeOK
      <4> QED BY <3>6, <4>1, <4>2 DEF TryLock
    <3>7. CASE MapShared(p)
      BY <2>1, <3>0, <3>7 DEF TypeOK, MapShared, Goto
    <3>8. CASE MapPrivate(p)
      <4>1. /\ pc[p] = "setup" /\ opt[p].mode = "mapped_private" /\ ~Shared(p)
            /\ opt' = opt /\ off' = off /\ file' = file /\ pc'[p] = "in"
            /\ mem'[p].data = file.data
        BY <3>0, <3>8 DEF TypeOK, MapPrivate, Goto
      <4> QED BY <2>1, <3>0, <4>1
    <3>9. CASE MapHeap(p)
      <4>1. Len(mem'[p].data) = IF opt[p].writable THEN opt[p].size ELSE Len(file.data)
        BY <2>1, <3>0, <3>9, ZerosSeq DEF TypeOK, MapHeap
      <4>2. /\ pc[p] = "setup" /\ opt[p].mode = "heap" /\ opt[p].size \in Nat
            /\ opt' = opt /\ off' = off /\ file' = file
            /\ pc'[p] = IF opt[p].size = 0 THEN "in" ELSE "load"
        BY <3>0, <3>9 DEF TypeOK, MapHeap, Goto
      <4> QED BY <2>1, <3>0, <4>1, <4>2
    <3>10. CASE LoadChunk(p)
      <4>1. CASE Leave(p)
        BY <3>0, <4>1, LeaveSizes
      <4>2. CASE off[p] + 1 <= Len(mem[p].data)
        <5>1. Len(mem'[p].data) = Len(mem[p].data)
          BY <3>0, <3>10, <4>2, LoadFacts DEF Sizes
        <5>2. /\ pc[p] = "load" /\ opt' = opt /\ file' = file
              /\ off' = [off EXCEPT ![p] = IF off[p] + 1 = opt[p].size
                                          THEN 0 ELSE off[p] + 1]
              /\ pc' = [pc EXCEPT ![p] = IF off[p] + 1 = opt[p].size
                                        THEN "in" ELSE "load"]
          BY <3>0, <3>10, <4>2, LoadFacts DEF Sizes
        <5>3. /\ opt[p].size \in Nat /\ off[p] \in Nat
              /\ \/ pc'[p] = "in" /\ off'[p] = 0
                 \/ off[p] + 1 # opt[p].size /\ pc'[p] = "load" /\ off'[p] = off[p] + 1
          BY <3>0, <5>2 DEF TypeOK
        <5> QED BY <2>1, <3>0, <5>1, <5>2, <5>3
      <4> QED BY <3>10, <4>1, <4>2, LoadCases
    <3>11. CASE SaveChunk(p)
      <4>1. /\ pc[p] = "save" /\ opt[p].size \in Nat /\ off[p] \in Nat
            /\ opt' = opt /\ mem' = mem
            /\ \/ pc'[p] = "clear" /\ off'[p] = 0
               \/ off[p] + 1 # opt[p].size /\ pc'[p] = "save" /\ off'[p] = off[p] + 1
        BY <3>0, <3>11 DEF TypeOK, SaveChunk, Goto, IsLast
      <4> QED BY <2>1, <3>0, <4>1
    <3>12. CASE ClearDirty(p) \/ FailSetup(p) \/ Crash(p)
      BY <3>0, <3>12, LeaveSizes DEF ClearDirty, FailSetup, Crash
    <3>13. ASSUME NEW c \in 1 .. Len(file.data), NEW v \in Val, Write(p, c, v)
           PROVE  SizesOf(p)'
      <4>1. Len(mem'[p].data) = Len(mem[p].data)
        <5>1. mem[p].data \in Seq(Val) /\ Len([mem[p].data EXCEPT ![c] = v]) = Len(mem[p].data)
          BY <3>0, ExceptAny DEF TypeOK
        <5> QED BY <3>0, <3>13, <5>1 DEF TypeOK, Write
      <4> QED BY <2>1, <3>0, <3>13, <4>1 DEF TypeOK, Write
    <3>14. CASE OpenAgain(p)
      BY <3>0, <3>14 DEF TypeOK, OpenAgain
    <3>15. CASE Close(p)
      <4>1. CASE Leave(p)
        BY <3>0, <4>1, LeaveSizes
      <4>2. CASE /\ opt[p].writable /\ Goto(p, IF Shared(p) THEN "clear" ELSE "save")
                 /\ UNCHANGED <<opt, mem, off>>
        <5>1. pc[p] = "in" /\ pc'[p] = IF Shared(p) THEN "clear" ELSE "save"
          BY <3>0, <3>15, <4>2 DEF TypeOK, Close, Goto
        <5> QED BY <2>1, <3>0, <4>2, <5>1 DEF TypeOK
      <4> QED BY <3>15, <4>1, <4>2 DEF Close
    <3> QED BY <1>2, <3>1, <3>2, <3>3, <3>4, <3>5, <3>6, <3>7, <3>8, <3>9, <3>10,
               <3>11, <3>12, <3>13, <3>14, <3>15 DEF Step, Continue
  <2> QED BY <2>1, <2>2, <2>3 DEF Sizes
<1> QED BY <1>1, <1>2 DEF Next

(* Types, whatever the processes do and whoever dies. *)
THEOREM FileTypeCorrect == Spec => []TypeOK
<1>1. Init => TypeOK /\ Sizes
  BY TypeInit, SizesInit
<1>2. (TypeOK /\ Sizes) /\ [Next]_vars => (TypeOK /\ Sizes)'
  BY TypeStep, SizesStep
<1> QED BY <1>1, <1>2, PTL DEF Spec

-----------------------------------------------------------------------------
(* Calls are finite, whatever the other processes do. *)

LEMMA StepsLeftNat ==
  ASSUME TypeOK, Sizes, NEW p \in Process
  PROVE  /\ StepsLeft(p) \in Nat
         /\ pc[p] \in Busy => StepsLeft(p) > 0
<1>1. /\ opt[p].size \in Nat /\ off[p] \in Nat
      /\ pc[p] \in {"load", "save"} => off[p] < opt[p].size
  BY DEF TypeOK, Sizes, SizesOf
<1>2. pc[p] \in Busy \cup {"out", "in"}
  BY DEF TypeOK
<1> QED BY <1>1, <1>2 DEF StepsLeft, Busy, Constructing

LEMMA StepsLeftNext == TypeOK' /\ Sizes' => \A p \in Process : StepsLeft(p)' \in Nat
<1> DEFINE P == \A p \in Process : StepsLeft(p) \in Nat
<1>1. TypeOK /\ Sizes => P
  BY StepsLeftNat
<1> HIDE DEF P
<1>2. TypeOK' /\ Sizes' => P'
  BY <1>1, PTL
<1> QED BY <1>2 DEF P

LEMMA OwnStepShrinks ==
  ASSUME TypeOK, Sizes, NEW p \in Process, pc[p] \in Busy, Step(p)
  PROVE  \/ pc[p] = "attach" /\ pc'[p] # "attach"
         \/ StepsLeft(p)' < StepsLeft(p)
<1>1. /\ opt[p].size \in Nat /\ off[p] \in Nat
      /\ pc[p] \in {"load", "save"} => off[p] < opt[p].size
      /\ pc[p] = "setup" => off[p] = 0
  BY DEF TypeOK, Sizes, SizesOf
<1>2. CASE Leave(p)
  <2>1. StepsLeft(p)' = 0
    BY <1>2 DEF TypeOK, Leave, Goto, StepsLeft
  <2> QED BY <2>1, StepsLeftNat
<1>3. CASE Create(p) \/ ResizeFile(p)
  <2>1. pc[p] = "attach" /\ pc'[p] \in {"format", "grow", "lock"}
    BY <1>3 DEF TypeOK, Create, ResizeFile, Goto
  <2> QED BY <2>1
<1>4. CASE Format(p) \/ GrowSegment(p)
  <2>1. /\ pc[p] \in {"format", "grow"} /\ pc'[p] = "lock" /\ opt' = opt
    BY <1>4 DEF TypeOK, Format, GrowSegment, Goto
  <2> QED BY <1>1, <2>1 DEF StepsLeft
<1>5. CASE TryLock(p)
  <2>1. CASE pc[p] = "lock" /\ Goto(p, "setup") /\ UNCHANGED opt
    BY <1>1, <2>1 DEF TypeOK, Goto, StepsLeft
  <2> QED BY <1>2, <1>5, <2>1 DEF TryLock
<1>6. CASE MapShared(p) \/ MapPrivate(p)
  <2>1. pc[p] = "setup" /\ pc'[p] = "in"
    BY <1>6 DEF TypeOK, MapShared, MapPrivate, Goto
  <2> QED BY <1>1, <2>1 DEF StepsLeft
<1>7. CASE MapHeap(p)
  <2>1. /\ pc[p] = "setup" /\ opt' = opt /\ off' = off
        /\ pc'[p] = IF opt[p].size = 0 THEN "in" ELSE "load"
    BY <1>7 DEF TypeOK, MapHeap, Goto
  <2> QED BY <1>1, <2>1 DEF StepsLeft
<1>8. CASE LoadChunk(p)
  <2>1. CASE off[p] + 1 <= Len(mem[p].data)
    <3>1. /\ pc[p] = "load" /\ opt' = opt
          /\ \/ off[p] + 1 = opt[p].size /\ pc'[p] = "in"
             \/ off[p] + 1 # opt[p].size /\ pc'[p] = "load" /\ off'[p] = off[p] + 1
      BY <1>8, <2>1, LoadFacts DEF TypeOK
    <3> QED BY <1>1, <3>1 DEF StepsLeft
  <2> QED BY <1>2, <1>8, <2>1, LoadCases
<1>9. CASE SaveChunk(p)
  <2>1. /\ pc[p] = "save" /\ opt' = opt
        /\ \/ off[p] + 1 = opt[p].size /\ pc'[p] = "clear"
           \/ off[p] + 1 # opt[p].size /\ pc'[p] = "save" /\ off'[p] = off[p] + 1
    BY <1>9 DEF TypeOK, SaveChunk, Goto, IsLast
  <2> QED BY <1>1, <2>1 DEF StepsLeft
<1> QED
  BY <1>2, <1>3, <1>4, <1>5, <1>6, <1>7, <1>8, <1>9
  DEF Step, Continue, ClearDirty, FailSetup, Crash, Check, Write, OpenAgain, Close,
      Busy, Constructing

(* Every construction and every destruction takes boundedly many steps, a  *)
(* number that no other process can raise once the size of the memory is   *)
(* known: no loop over the chunks runs on, and a refused lock is not tried *)
(* again.  CallsEnd adds that these steps are taken, which is fairness.    *)
THEOREM CallsAlwaysProgress == Spec => CallsProgress
<1> DEFINE A == \A p \in Process : pc[p] \in Busy =>
                  IF Step(p)
                  THEN \/ pc[p] = "attach" /\ pc'[p] # "attach"
                       \/ StepsLeft(p)' \in 0 .. StepsLeft(p) - 1
                  ELSE UNCHANGED StepsLeft(p)
<1>1. Init => TypeOK /\ Sizes
  BY TypeInit, SizesInit
<1>2. (TypeOK /\ Sizes) /\ [Next]_vars => (TypeOK /\ Sizes)'
  BY TypeStep, SizesStep
<1>3. (TypeOK /\ Sizes) /\ (TypeOK /\ Sizes)' /\ [Next]_vars => [A]_vars
  <2> SUFFICES ASSUME TypeOK, Sizes, (TypeOK /\ Sizes)', Next,
                      NEW p \in Process, pc[p] \in Busy
               PROVE  IF Step(p)
                      THEN \/ pc[p] = "attach" /\ pc'[p] # "attach"
                           \/ StepsLeft(p)' \in 0 .. StepsLeft(p) - 1
                      ELSE UNCHANGED StepsLeft(p)
    OBVIOUS
  <2>1. StepsLeft(p) \in Nat /\ StepsLeft(p)' \in Nat
    BY StepsLeftNat, StepsLeftNext
  <2>2. CASE Step(p)
    <3>1. \/ pc[p] = "attach" /\ pc'[p] # "attach"
          \/ StepsLeft(p)' < StepsLeft(p)
      BY <2>2, OwnStepShrinks
    <3>2. StepsLeft(p)' < StepsLeft(p) => StepsLeft(p)' \in 0 .. StepsLeft(p) - 1
      BY <2>1
    <3> QED BY <2>2, <3>1, <3>2
  <2>3. CASE ~Step(p)
    <3>1. PICK q \in Process : Step(q)
      BY DEF Next
    <3>2. p # q
      BY <2>3, <3>1
    <3>3. opt'[p] = opt[p] /\ pc'[p] = pc[p] /\ off'[p] = off[p]
      BY <3>1, <3>2, OthersStand
    <3>4. UNCHANGED StepsLeft(p)
      BY <3>3 DEF StepsLeft
    <3> QED BY <2>3, <3>4
  <2> QED BY <2>2, <2>3
<1> QED BY <1>1, <1>2, <1>3, PTL DEF Spec, CallsProgress

-----------------------------------------------------------------------------
(* The flag.  Processes construct one at a time, and none of them asks for *)
(* a dirty file.  Then whoever finds the flag clear is alone with the file *)
(* until it is open, and who has it open for writing keeps the flag set.   *)

Alone == OneAtATime /\ \A o \in Options : ~o.allow_dirty

Active(p) == opt[p].writable /\ pc[p] # "out"

Serial ==
  /\ \A p \in Process : ~opt[p].allow_dirty
  /\ \A p, q \in Process :
       (Active(p) \/ pc[p] \in Constructing) /\ Active(q) => p = q
  /\ \A p, q \in Process :
       pc[p] \in Constructing /\ pc[q] \in Constructing => p = q

Flags ==
  /\ \A p \in Process : Writing(p) => file.dirty
  /\ \A p \in Process : pc[p] \in Constructing /\ ~Writing(p) => ~file.dirty
  /\ file.header # "valid" => ~file.dirty

Header ==
  \A p \in Process :
    /\ pc[p] = "attach" => file.header \in {"absent", "valid"}
    /\ pc[p] = "format" => file.header = "blank"
    /\ pc[p] \notin {"out", "attach", "format"} => file.header = "valid"

Kept(p, c) == file.data[c] = mem[p].data[c] \/ mem[p].data[c] = Zero

(* How far p got, and what it may rely on. *)
Progress(p) ==
  /\ pc[p] \in {"setup", "load"} => Holds(file.data)
  /\ opt[p].writable /\ pc[p] \notin {"out", "attach"}
       => opt[p].size = Len(file.data)
  /\ pc[p] = "load" =>
       /\ Len(mem[p].data) = Len(file.data)
       /\ \A c \in 1 .. off[p] : mem[p].data[c] = file.data[c]
       /\ \A c \in off[p] + 1 .. Len(mem[p].data) : mem[p].data[c] = Zero
  /\ opt[p].writable /\ pc[p] \in {"in", "save", "clear"} /\ ~Shared(p)
       => Len(mem[p].data) = Len(file.data)
  /\ pc[p] = "save" => \A c \in 1 .. off[p] : Kept(p, c)
  /\ pc[p] = "clear" /\ ~Shared(p) => \A c \in 1 .. Len(file.data) : Kept(p, c)

FlagInv ==
  /\ Serial /\ Flags /\ Header /\ FlagTells
  /\ \A p \in Process : Progress(p)

LEMMA FlagInit == Init => FlagInv
<1> SUFFICES ASSUME Init PROVE FlagInv
  OBVIOUS
<1> USE DEF Init, NoOpt, Constructing
<1>1. Serial /\ Flags /\ Header
  BY DEF Serial, Flags, Header, Writing, Active
<1>2. FlagTells
  BY DEF FlagTells, Holds
<1>3. \A p \in Process : Progress(p)
  BY DEF Progress
<1> QED BY <1>1, <1>2, <1>3 DEF FlagInv

(* Who begins to construct is alone with the file. *)
LEMMA CheckFacts ==
  ASSUME Alone, TypeOK, FlagInv, NEW p \in Process, NEW o \in Options, Check(p, o)
  PROVE  /\ pc[p] = "out" /\ UNCHANGED <<file, lock, mem, off, held>>
         /\ pc' = [pc EXCEPT ![p] = IF o.writable THEN "attach" ELSE "setup"]
         /\ opt' = [opt EXCEPT ![p] = o]
         /\ ~o.allow_dirty /\ ~file.dirty /\ file.header \in {"absent", "valid"}
         /\ ~o.writable => file.header = "valid"
         /\ \A q \in Process : pc[q] \notin Constructing /\ ~Active(q)
<1>1. /\ pc[p] = "out" /\ UNCHANGED <<file, lock, mem, off, held>>
      /\ pc' = [pc EXCEPT ![p] = IF o.writable THEN "attach" ELSE "setup"]
      /\ opt' = [opt EXCEPT ![p] = o]
      /\ ~o.allow_dirty
      /\ \A q \in Process : pc[q] \notin Constructing
  BY DEF Check, Goto, Alone
<1>2. /\ file.header \in {"absent", "valid"}
      /\ file.header = "absent" => o.writable
      /\ file.header = "valid" => ~file.dirty
  BY <1>1 DEF Check, Accepts, TypeOK
<1>3. ASSUME NEW q \in Process, Active(q)
      PROVE  FALSE
  <2>1. pc[q] \in {"in", "save", "clear"}
    BY <1>1, <1>3 DEF TypeOK, Active, Busy, Constructing
  <2>2. file.dirty /\ file.header = "valid"
    BY <1>3, <2>1 DEF FlagInv, Flags, Header, Writing, Active
  <2> QED BY <1>2, <2>2
<1>4. ~file.dirty
  BY <1>2 DEF FlagInv, Flags
<1>5. \A q \in Process : ~Active(q)
  BY <1>3
<1> HIDE DEF Active
<1> QED BY <1>1, <1>2, <1>4, <1>5

(* The other steps of p: it was at work, and keeps its arguments till it   *)
(* leaves.                                                                 *)
LEMMA WorkFacts ==
  ASSUME TypeOK, Sizes, NEW p \in Process, Step(p), ~\E o \in Options : Check(p, o)
  PROVE  /\ pc[p] # "out"
         /\ \/ opt'[p] = NoOpt /\ pc'[p] = "out"
            \/ /\ opt'[p].writable = opt[p].writable
               /\ opt'[p].allow_dirty = opt[p].allow_dirty
         /\ pc'[p] \in Constructing => pc[p] \in Constructing
<1> USE DEF TypeOK, Goto, Constructing
<1>1. CASE Create(p) \/ Format(p) \/ GrowSegment(p)
  BY <1>1 DEF Create, Format, GrowSegment
<1>2. CASE ResizeFile(p)
  BY <1>2 DEF ResizeFile
<1>3. CASE Leave(p) /\ pc[p] # "out"
  BY <1>3 DEF Leave
<1>4. CASE TryLock(p)
  BY <1>3, <1>4 DEF TryLock
<1>5. CASE MapShared(p) \/ MapPrivate(p) \/ MapHeap(p) \/ LoadChunk(p)
  BY <1>3, <1>5 DEF MapShared, MapPrivate, MapHeap, LoadChunk
<1>6. CASE SaveChunk(p)
  BY <1>6 DEF SaveChunk, Sizes, SizesOf
<1>7. CASE Close(p)
  BY <1>3, <1>7 DEF Close
<1>8. CASE ClearDirty(p) \/ FailSetup(p) \/ Crash(p)
  BY <1>3, <1>8 DEF ClearDirty, FailSetup, Crash
<1>9. ASSUME NEW c, NEW v, Write(p, c, v) PROVE pc[p] = "in" /\ UNCHANGED <<pc, opt>>
  BY <1>9 DEF Write
<1>10. CASE OpenAgain(p)
  BY <1>10 DEF OpenAgain
<1> QED BY <1>1, <1>2, <1>4, <1>5, <1>6, <1>7, <1>8, <1>9, <1>10 DEF Step, Continue

LEMMA SerialStep ==
  ASSUME Alone, TypeOK, Sizes, FlagInv, [Next]_vars
  PROVE  Serial'
<1>1. CASE UNCHANGED vars
  BY <1>1 DEF vars, FlagInv, Serial, Active
<1>2. ASSUME NEW p \in Process, NEW o \in Options, Check(p, o)
      PROVE  Serial'
  <2>1. \A q \in Process : q # p => pc'[q] = pc[q] /\ opt'[q] = opt[q]
    BY <1>2, CheckFacts DEF TypeOK
  <2>2. pc'[p] = (IF o.writable THEN "attach" ELSE "setup") /\ opt'[p] = o /\ ~o.allow_dirty
    BY <1>2, CheckFacts DEF TypeOK
  <2>3. \A q \in Process : pc[q] \notin Constructing /\ ~Active(q)
    BY <1>2, CheckFacts
  <2> QED BY <2>1, <2>2, <2>3 DEF FlagInv, Serial, Active
<1>3. ASSUME NEW p \in Process, ~\E o \in Options : Check(p, o), Step(p)
      PROVE  Serial'
  <2>1. /\ opt'[p].allow_dirty => opt[p].allow_dirty
        /\ Active(p)' => Active(p)
        /\ pc'[p] \in Constructing => pc[p] \in Constructing
    BY <1>3, WorkFacts DEF Active, NoOpt
  <2>2. \A q \in Process : q # p => pc'[q] = pc[q] /\ opt'[q] = opt[q]
    BY <1>3, OthersStand
  <2> QED BY <2>1, <2>2 DEF FlagInv, Serial, Active
<1> QED BY <1>1, <1>2, <1>3 DEF Next

(* Where p goes, and what becomes of the header and the flag. *)
Passes(p) ==
  \/ pc'[p] \in {pc[p], "out"}
  \/ pc[p] = "attach" /\ file.header # "absent" /\ pc'[p] \in {"grow", "lock"}
  \/ pc[p] = "grow" /\ pc'[p] = "lock"
  \/ pc[p] \in {"setup", "load"} /\ pc'[p] \in {"load", "in"}
  \/ pc[p] \in {"in", "save"} /\ pc'[p] \in {"save", "clear"}

LEMMA HeaderFacts ==
  ASSUME TypeOK, Sizes, NEW p \in Process, Step(p), ~\E o \in Options : Check(p, o)
  PROVE  \/ file'.header = file.header /\ file'.dirty = file.dirty /\ Passes(p)
         \/ /\ pc[p] = "attach" /\ file.header = "absent"
            /\ pc'[p] = "format" /\ file'.header = "blank" /\ ~file'.dirty
         \/ /\ pc[p] = "format" /\ pc'[p] = "lock"
            /\ file'.header = "valid" /\ ~file'.dirty
         \/ /\ pc[p] = "lock" /\ pc'[p] = "setup"
            /\ file'.header = file.header /\ file'.dirty
         \/ /\ opt[p].writable /\ pc[p] \in {"setup", "load", "clear"} /\ pc'[p] = "out"
            /\ file'.header = file.header /\ ~file'.dirty
<1> USE DEF TypeOK, Goto, Passes
<1>1. CASE Create(p)
  BY <1>1 DEF Create
<1>2. CASE Format(p)
  BY <1>2 DEF Format
<1>3. CASE ResizeFile(p)
  BY <1>3 DEF ResizeFile
<1>4. CASE GrowSegment(p)
  BY <1>4 DEF GrowSegment
<1>5. CASE TryLock(p)
  BY <1>5 DEF TryLock, Leave
<1>6. CASE FailSetup(p)
  BY <1>6 DEF FailSetup, Leave
<1>7. CASE ClearDirty(p)
  BY <1>7 DEF ClearDirty, Leave, Sizes, SizesOf
<1>8. CASE SaveChunk(p)
  <2>1. file'.header = file.header /\ file'.dirty = file.dirty
    BY <1>8, SaveFacts
  <2> QED BY <1>8, <2>1 DEF SaveChunk
<1>9. ASSUME NEW c, NEW v, Write(p, c, v)
      PROVE  file'.header = file.header /\ file'.dirty = file.dirty /\ Passes(p)
  BY <1>9 DEF Write
<1>10. CASE MapShared(p) \/ MapPrivate(p) \/ MapHeap(p) \/ LoadChunk(p)
  BY <1>10 DEF MapShared, MapPrivate, MapHeap, LoadChunk, Leave
<1>11. CASE OpenAgain(p) \/ Close(p) \/ Crash(p)
  BY <1>11 DEF OpenAgain, Close, Crash, Leave
<1> HIDE DEF Passes
<1> QED
  BY <1>1, <1>2, <1>3, <1>4, <1>5, <1>6, <1>7, <1>8, <1>9, <1>10, <1>11
  DEF Step, Continue

LEMMA FlagsStep ==
  ASSUME Alone, TypeOK, Sizes, FlagInv, [Next]_vars
  PROVE  Flags' /\ Header'
<1>1. CASE UNCHANGED vars
  BY <1>1 DEF vars, FlagInv, Flags, Header, Writing
<1>2. ASSUME NEW p \in Process, NEW o \in Options, Check(p, o)
      PROVE  Flags' /\ Header'
  <2>1. \A q \in Process : q # p => pc'[q] = pc[q] /\ opt'[q] = opt[q]
    BY <1>2, CheckFacts DEF TypeOK
  <2>2. /\ pc'[p] = (IF o.writable THEN "attach" ELSE "setup") /\ opt'[p] = o
        /\ file' = file
    BY <1>2, CheckFacts DEF TypeOK
  <2>3. /\ ~file.dirty /\ file.header \in {"absent", "valid"}
        /\ ~o.writable => file.header = "valid"
    BY <1>2, CheckFacts
  <2> QED BY <2>1, <2>2, <2>3 DEF FlagInv, Flags, Header, Writing
<1>3. ASSUME NEW p \in Process, ~\E o \in Options : Check(p, o), Step(p)
      PROVE  Flags' /\ Header'
  <2>1. \A q \in Process : q # p => pc'[q] = pc[q] /\ opt'[q] = opt[q]
    BY <1>3, OthersStand
  <2>2. /\ pc[p] # "out"
        /\ \/ opt'[p] = NoOpt /\ pc'[p] = "out"
           \/ opt'[p].writable = opt[p].writable
        /\ pc'[p] \in Constructing => pc[p] \in Constructing
    BY <1>3, WorkFacts
  <2>3. ASSUME NEW q \in Process
        PROVE  /\ pc[p] \in Constructing \/ Active(p) => q = p \/ ~Active(q)
               /\ pc[p] \in Constructing \/ Active(p)
                    => q = p \/ pc[q] \notin Constructing
    BY DEF FlagInv, Serial
  <2>4. Header'
    BY <2>1, <2>3, <1>3, HeaderFacts DEF FlagInv, Header, Passes, Constructing
  <2>5. Flags'
    <3>1. /\ Writing(p) => file.dirty
          /\ pc[p] \in Constructing /\ ~Writing(p) => ~file.dirty
          /\ file.header # "valid" => ~file.dirty
          /\ pc[p] \in {"attach", "format", "grow", "lock"} => opt[p].writable
      BY DEF FlagInv, Flags, Sizes, SizesOf
    <3>2. /\ Writing(p)' => file'.dirty
          /\ pc'[p] \in Constructing /\ ~Writing(p)' => ~file'.dirty
      BY <1>3, <2>2, <3>1, HeaderFacts DEF Passes, Constructing, Writing, NoOpt
    <3>3. file'.header # "valid" => ~file'.dirty
      <4>1. pc[p] = "lock" => file.header = "valid"
        BY DEF FlagInv, Header
      <4> QED BY <1>3, <3>1, <4>1, HeaderFacts
    <3>4. ASSUME NEW q \in Process, q # p
          PROVE  /\ Writing(q)' => file'.dirty
                 /\ pc'[q] \in Constructing /\ ~Writing(q)' => ~file'.dirty
      <4>1. /\ Writing(q) => file.dirty
            /\ pc[q] \in Constructing /\ ~Writing(q) => ~file.dirty
        BY DEF FlagInv, Flags
      <4>2. Writing(q)' = Writing(q) /\ pc'[q] = pc[q]
        BY <2>1, <3>4 DEF Writing
      <4>3. CASE file'.dirty = file.dirty
        BY <4>1, <4>2, <4>3
      <4>4. CASE file'.dirty # file.dirty
        <5>1. pc[p] \in Constructing \/ Active(p)
          BY <1>3, <4>4, HeaderFacts DEF Constructing, Active
        <5>2. ~Active(q) /\ pc[q] \notin Constructing
          BY <2>3, <3>4, <5>1
        <5> QED BY <4>2, <5>2 DEF Writing, Active
      <4> QED BY <4>3, <4>4
    <3> QED BY <3>2, <3>3, <3>4 DEF Flags
  <2> QED BY <2>4, <2>5
<1> QED BY <1>1, <1>2, <1>3 DEF Next

(* Contents change only under a process that is at work to write. *)
LEMMA DataFacts ==
  ASSUME TypeOK, Sizes, NEW p \in Process, Step(p)
  PROVE  (file'.data = file.data /\ held' = held) \/ Active(p)
<1> USE DEF TypeOK
<1>1. CASE Create(p) \/ Format(p) \/ ResizeFile(p) \/ SaveChunk(p) \/ ClearDirty(p)
  BY <1>1 DEF Create, Format, ResizeFile, SaveChunk, ClearDirty, Sizes, SizesOf, Active
<1>2. CASE GrowSegment(p) \/ TryLock(p) \/ FailSetup(p)
  BY <1>2 DEF GrowSegment, TryLock, FailSetup
<1>3. ASSUME NEW c, NEW v, Write(p, c, v) PROVE Active(p)
  BY <1>3 DEF Write, Active
<1>4. ASSUME NEW o, Check(p, o) PROVE file' = file /\ held' = held
  BY <1>4 DEF Check
<1>5. CASE MapShared(p) \/ MapPrivate(p) \/ MapHeap(p) \/ LoadChunk(p)
  BY <1>5 DEF MapShared, MapPrivate, MapHeap, LoadChunk
<1>6. CASE OpenAgain(p) \/ Close(p) \/ Crash(p)
  BY <1>6 DEF OpenAgain, Close, Crash
<1> QED BY <1>1, <1>2, <1>3, <1>4, <1>5, <1>6 DEF Step, Continue

LEMMA ResizeHolds ==
  ASSUME TypeOK, NEW p \in Process, ResizeFile(p), Holds(file.data)
  PROVE  Holds(file.data)'
<1>1. /\ Grown(p) \in Nat /\ file.data \in Seq(Val) /\ held \in Seq(Val)
      /\ file'.data = Extended(file.data, Grown(p))
      /\ held' = Extended(held, Grown(p))
  BY ResizeFacts DEF TypeOK
<1>2. Len(file.data) = Len(held) /\ Len(held) \in Nat
  BY <1>1 DEF Holds
<1>3. \A c \in 1 .. Len(held) : file.data[c] = held[c] \/ held[c] = Zero
  BY <1>1, <1>2 DEF Holds
<1>4. /\ file'.data \in Seq(Val) /\ Len(file'.data) = Len(held) + Grown(p)
      /\ Len(held') = Len(held) + Grown(p)
      /\ \A c \in 1 .. Len(held) : file'.data[c] = file.data[c] /\ held'[c] = held[c]
      /\ \A c \in Len(held) + 1 .. Len(held) + Grown(p) : held'[c] = Zero
  <2> DEFINE n == Grown(p)
  <2>1. n \in Nat /\ file.data \in Seq(Val) /\ held \in Seq(Val)
        /\ file'.data = Extended(file.data, n) /\ held' = Extended(held, n)
    BY <1>1
  <2> HIDE DEF n
  <2>2. /\ Extended(file.data, n) \in Seq(Val)
        /\ Len(Extended(file.data, n)) = Len(file.data) + n
        /\ \A c \in 1 .. Len(file.data) : Extended(file.data, n)[c] = file.data[c]
    BY <2>1, ExtendedSeq
  <2>3. /\ Len(Extended(held, n)) = Len(held) + n
        /\ \A c \in 1 .. Len(held) : Extended(held, n)[c] = held[c]
        /\ \A c \in Len(held) + 1 .. Len(held) + n : Extended(held, n)[c] = Zero
    BY <2>1, ExtendedSeq
  <2>4. /\ file'.data \in Seq(Val) /\ Len(file'.data) = Len(held) + n
        /\ Len(held') = Len(held) + n
        /\ \A c \in 1 .. Len(held) : file'.data[c] = file.data[c] /\ held'[c] = held[c]
        /\ \A c \in Len(held) + 1 .. Len(held) + n : held'[c] = Zero
    BY <1>2, <2>1, <2>2, <2>3
  <2> QED BY <2>4 DEF n
<1>5. \A c \in 1 .. Len(held) + Grown(p) : file'.data[c] = held'[c] \/ held'[c] = Zero
  BY <1>1, <1>2, <1>3, <1>4
<1>6. DOMAIN file'.data = 1 .. Len(held) + Grown(p)
  BY <1>4
<1> QED BY <1>4, <1>5, <1>6 DEF Holds

LEMMA OthersProgress ==
  ASSUME Alone, TypeOK, Sizes, FlagInv, NEW p \in Process, Step(p),
         NEW q \in Process, q # p
  PROVE  Progress(q)'
<1>1. opt'[q] = opt[q] /\ pc'[q] = pc[q] /\ mem'[q] = mem[q] /\ off'[q] = off[q]
  BY OthersStand
<1>2. Progress(q) /\ SizesOf(q)
  BY DEF FlagInv, Sizes
<1>3. CASE file'.data = file.data /\ held' = held
  BY <1>1, <1>2, <1>3 DEF Progress, Holds, Kept, Shared
<1>4. CASE Active(p)
  <2>1. ~Active(q) /\ pc[q] \notin Constructing
    BY <1>4 DEF FlagInv, Serial
  <2> QED BY <1>1, <1>2, <2>1 DEF Active, Progress, SizesOf, Constructing
<1> QED BY <1>3, <1>4, DataFacts

(* What a process has in memory once one more chunk is loaded. *)
LEMMA ChunkLoaded ==
  ASSUME TypeOK, Sizes, NEW p \in Process, Progress(p), LoadChunk(p),
         off[p] + 1 <= Len(mem[p].data)
  PROVE  /\ Len(mem'[p].data) = Len(file.data)
         /\ \A c \in 1 .. off[p] + 1 : mem'[p].data[c] = file.data[c]
         /\ \A c \in off[p] + 2 .. Len(file.data) : mem'[p].data[c] = Zero
<1>1. off[p] \in Nat /\ Len(mem[p].data) \in Nat
  BY DEF TypeOK
<1>2. /\ pc[p] = "load"
      /\ Len(mem'[p].data) = Len(mem[p].data)
      /\ \A k \in 1 .. Len(mem[p].data) :
           mem'[p].data[k] = IF k = off[p] + 1 THEN file.data[k] ELSE mem[p].data[k]
  BY LoadFacts
<1>3. /\ Len(mem[p].data) = Len(file.data)
      /\ \A c \in 1 .. off[p] : mem[p].data[c] = file.data[c]
      /\ \A c \in off[p] + 1 .. Len(mem[p].data) : mem[p].data[c] = Zero
  BY <1>2 DEF Progress
<1>4. ASSUME NEW c \in 1 .. off[p] + 1
      PROVE  mem'[p].data[c] = file.data[c]
  <2>1. c \in 1 .. Len(mem[p].data) /\ (c = off[p] + 1 \/ c \in 1 .. off[p])
    BY <1>1
  <2> QED BY <1>2, <1>3, <2>1
<1>5. ASSUME NEW c \in off[p] + 2 .. Len(file.data)
      PROVE  mem'[p].data[c] = Zero
  <2>1. /\ c \in 1 .. Len(mem[p].data) /\ c # off[p] + 1
        /\ c \in off[p] + 1 .. Len(mem[p].data)
    BY <1>1, <1>3
  <2> QED BY <1>2, <1>3, <2>1
<1> QED BY <1>2, <1>3, <1>4, <1>5

(* p itself, action by action. *)
LEMMA OwnProgress ==
  ASSUME Alone, TypeOK, Sizes, FlagInv, NEW p \in Process, Step(p)
  PROVE  FlagTells' /\ Progress(p)'
<1>1. /\ Progress(p) /\ SizesOf(p) /\ FlagTells
      /\ Len(file.data) \in Nat /\ file.data \in Seq(Val) /\ held \in Seq(Val)
      /\ opt[p].size \in Nat /\ off[p] \in Nat
      /\ mem[p].data \in Seq(Val) /\ Len(mem[p].data) \in Nat
  BY DEF FlagInv, Sizes, TypeOK
<1>2. CASE Leave(p) /\ file'.data = file.data /\ held' = held /\ file'.header = file.header
           /\ (file'.dirty = file.dirty \/ Holds(file.data))
  <2>1. opt'[p] = NoOpt /\ pc'[p] = "out"
    BY <1>2 DEF TypeOK, Leave, Goto
  <2>2. FlagTells'
    BY <1>1, <1>2 DEF FlagTells, Holds
  <2> QED BY <2>1, <2>2 DEF Progress, NoOpt
<1>3. ASSUME NEW o \in Options, Check(p, o)
      PROVE  FlagTells' /\ Progress(p)'
  <2>1. /\ pc'[p] = (IF o.writable THEN "attach" ELSE "setup") /\ opt'[p] = o
        /\ UNCHANGED <<file, mem, off, held>>
        /\ ~file.dirty /\ (~o.writable => file.header = "valid")
    BY <1>3, CheckFacts DEF TypeOK
  <2>2. ~o.writable => Holds(file.data)
    BY <1>1, <2>1 DEF FlagTells
  <2> QED BY <1>1, <2>1, <2>2 DEF FlagTells, Progress, Holds
<1>4. CASE Create(p)
  <2>1. /\ file'.header = "blank" /\ Len(file'.data) = opt[p].size
        /\ opt' = opt /\ pc'[p] = "format"
    BY <1>1, <1>4, ZerosSeq DEF TypeOK, Create, Goto
  <2> QED BY <2>1 DEF FlagTells, Progress
<1>5. CASE Format(p)
  <2>1. Len([file.data EXCEPT ![1] = FirstChunk]) = Len(file.data)
    BY <1>1, ExceptAny, MappedFileAssumption
  <2>2. /\ held' = file'.data /\ Len(file'.data) = Len(file.data)
        /\ opt' = opt /\ pc[p] = "format" /\ pc'[p] = "lock"
    BY <1>5, <2>1 DEF TypeOK, Format, Goto
  <2>3. opt[p].writable
    BY <1>1, <2>2 DEF SizesOf
  <2> QED BY <1>1, <2>2, <2>3 DEF FlagTells, Progress, Holds
<1>6. CASE ResizeFile(p)
  <2>1. /\ opt'[p].size = Len(file'.data)
        /\ pc[p] = "attach" /\ pc'[p] \in {"grow", "lock"}
        /\ file.header # "absent"
    <3>1. opt'[p].size = Len(file'.data)
      BY <1>1, <1>6, ResizeFacts, ExtendedSeq
    <3> QED BY <1>6, <3>1 DEF TypeOK, ResizeFile, Goto
  <2>2. opt[p].writable
    BY <1>1, <2>1 DEF SizesOf
  <2>3. file.header = "valid" /\ ~file.dirty
    BY <2>1, <2>2 DEF FlagInv, Header, Flags, Writing, Constructing
  <2>4. Holds(file.data)'
    BY <1>1, <1>6, <2>3, ResizeHolds DEF FlagTells
  <2> QED BY <2>1, <2>4 DEF FlagTells, Progress
<1>7. CASE GrowSegment(p)
  <2>1. /\ file'.data = file.data /\ file'.header = file.header /\ file'.dirty = file.dirty
        /\ held' = held /\ opt' = opt /\ pc[p] = "grow" /\ pc'[p] = "lock"
    BY <1>7 DEF TypeOK, GrowSegment, Goto
  <2> QED BY <1>1, <2>1 DEF FlagTells, Progress, Holds, SizesOf
<1>8. CASE TryLock(p)
  <2>1. CASE Leave(p) /\ UNCHANGED file
    BY <1>2, <1>8, <2>1 DEF TryLock
  <2>2. CASE /\ file' = [file EXCEPT !.dirty = TRUE] /\ Goto(p, "setup")
             /\ UNCHANGED <<opt, mem, off>>
    <3>1. /\ file'.data = file.data /\ file'.dirty /\ held' = held /\ opt' = opt
          /\ pc[p] = "lock" /\ pc'[p] = "setup"
      BY <1>8, <2>2 DEF TypeOK, TryLock, Goto
    <3>2. opt[p].writable
      BY <1>1, <3>1 DEF SizesOf
    <3>3. file.header = "valid" /\ ~file.dirty
      BY <3>1 DEF FlagInv, Header, Flags, Writing, Constructing
    <3>4. Holds(file.data)
      BY <1>1, <3>3 DEF FlagTells
    <3> QED BY <1>1, <3>1, <3>2, <3>4 DEF FlagTells, Progress, Holds
  <2> QED BY <1>8, <2>1, <2>2 DEF TryLock
<1>9. CASE MapShared(p)
  <2>1. /\ file' = file /\ held' = held /\ opt' = opt /\ mem' = mem
        /\ pc[p] = "setup" /\ pc'[p] = "in" /\ Shared(p)
    BY <1>9 DEF TypeOK, MapShared, Goto
  <2> QED BY <1>1, <2>1 DEF FlagTells, Progress, Holds, Shared
<1>10. CASE MapPrivate(p)
  <2>1. /\ file' = file /\ held' = held /\ opt' = opt /\ mem'[p].data = file.data
        /\ pc[p] = "setup" /\ pc'[p] = "in"
    BY <1>10 DEF TypeOK, MapPrivate, Goto
  <2> QED BY <1>1, <2>1 DEF FlagTells, Progress, Holds
<1>11. CASE MapHeap(p)
  <2>1. /\ file' = file /\ held' = held /\ opt' = opt /\ off' = off
        /\ pc[p] = "setup" /\ opt[p].mode = "heap"
        /\ pc'[p] = IF opt[p].size = 0 THEN "in" ELSE "load"
    BY <1>11 DEF TypeOK, MapHeap, Goto
  <2>2. mem'[p].data = Zeros(Len(file.data))
    BY <1>1, <1>11, <2>1 DEF TypeOK, MapHeap, Progress
  <2>3. /\ Len(mem'[p].data) = Len(file.data)
        /\ \A c \in 1 .. Len(file.data) : mem'[p].data[c] = Zero
    BY <1>1, <2>2, ZerosSeq
  <2>4. off[p] = 0
    BY <1>1, <2>1 DEF SizesOf
  <2> QED BY <1>1, <2>1, <2>3, <2>4 DEF FlagTells, Progress, Holds
<1>12. CASE LoadChunk(p)
  <2>1. CASE Leave(p) /\ UNCHANGED <<file, held>>
    BY <1>2, <2>1
  <2>2. CASE off[p] + 1 <= Len(mem[p].data)
    <3>1. /\ file' = file /\ held' = held /\ opt' = opt
          /\ pc[p] = "load"
          /\ pc'[p] = (IF off[p] + 1 = opt[p].size THEN "in" ELSE "load")
          /\ off'[p] = (IF off[p] + 1 = opt[p].size THEN 0 ELSE off[p] + 1)
      BY <1>12, <2>2, LoadFacts DEF TypeOK
    <3>2. /\ Len(mem'[p].data) = Len(file.data)
          /\ \A c \in 1 .. off[p] + 1 : mem'[p].data[c] = file.data[c]
          /\ \A c \in off[p] + 2 .. Len(file.data) : mem'[p].data[c] = Zero
      BY <1>12, <2>2, ChunkLoaded DEF FlagInv
    <3> QED BY <1>1, <3>1, <3>2 DEF FlagTells, Progress, Holds
  <2> QED BY <1>12, <2>1, <2>2, LoadCases
<1>13. CASE SaveChunk(p)
  <2>1. /\ held' = held /\ opt' = opt /\ mem' = mem
        /\ pc[p] = "save"
        /\ pc'[p] = IF off[p] + 1 = opt[p].size THEN "clear" ELSE "save"
        /\ off'[p] = IF off[p] + 1 = opt[p].size THEN 0 ELSE off[p] + 1
    BY <1>13 DEF TypeOK, SaveChunk, Goto, IsLast
  <2>2. /\ file'.dirty = file.dirty /\ Len(file'.data) = Len(file.data)
        /\ \A k \in 1 .. Len(file.data) :
             file'.data[k] = IF k = off[p] + 1 /\ mem[p].data[k] # Zero
                             THEN mem[p].data[k] ELSE file.data[k]
    BY <1>13, SaveFacts
  <2>3. opt[p].writable /\ ~Shared(p) /\ file.dirty
    BY <1>1, <2>1 DEF SizesOf, FlagInv, Flags, Writing
  <2>4. /\ opt[p].size = Len(file.data) /\ Len(mem[p].data) = Len(file.data)
        /\ \A c \in 1 .. off[p] : Kept(p, c)
        /\ off[p] < opt[p].size
    BY <1>1, <2>1, <2>3 DEF Progress, SizesOf
  <2>5. \A c \in 1 .. off[p] + 1 : file'.data[c] = mem[p].data[c] \/ mem[p].data[c] = Zero
    BY <1>1, <2>2, <2>4 DEF Kept
  <2> QED BY <1>1, <2>1, <2>2, <2>3, <2>4, <2>5 DEF FlagTells, Progress, Kept, Shared
<1>14. CASE ClearDirty(p)
  <2>1. /\ file'.data = file.data /\ file'.header = file.header /\ ~file'.dirty
        /\ held' = Contents(p) /\ pc[p] = "clear" /\ pc'[p] = "out" /\ opt'[p] = NoOpt
    BY <1>14 DEF TypeOK, ClearDirty, Leave, Goto
  <2>2. opt[p].writable
    BY <1>1, <2>1 DEF SizesOf
  <2>3. CASE Shared(p)
    BY <1>1, <2>1, <2>3 DEF FlagTells, Holds, Contents, Progress, NoOpt
  <2>4. CASE ~Shared(p)
    <3>1. /\ Len(mem[p].data) = Len(file.data)
          /\ \A c \in 1 .. Len(file.data) : Kept(p, c)
      BY <1>1, <2>1, <2>2, <2>4 DEF Progress
    <3> QED BY <1>1, <2>1, <2>4, <3>1 DEF FlagTells, Holds, Contents, Progress, Kept, NoOpt
  <2> QED BY <2>3, <2>4
<1>15. CASE FailSetup(p)
  <2>1. /\ Leave(p) /\ file'.data = file.data /\ held' = held /\ file'.header = file.header
        /\ pc[p] \in {"setup", "load"}
    BY <1>15 DEF TypeOK, FailSetup
  <2>2. Holds(file.data)
    BY <1>1, <2>1 DEF Progress
  <2> QED BY <1>2, <2>1, <2>2
<1>16. ASSUME NEW c \in 1 .. Len(file.data), NEW v \in Val, Write(p, c, v)
       PROVE  FlagTells' /\ Progress(p)'
  <2>1. /\ pc[p] = "in" /\ opt[p].writable /\ UNCHANGED <<pc, opt, held>>
        /\ file'.dirty = file.dirty
    BY <1>16 DEF TypeOK, Write
  <2>2. file.dirty
    BY <2>1 DEF FlagInv, Flags, Writing
  <2>3. Len(file'.data) = Len(file.data) /\ Len(mem'[p].data) = Len(mem[p].data)
    <3>1. /\ Len([file.data EXCEPT ![c] = v]) = Len(file.data)
          /\ Len([mem[p].data EXCEPT ![c] = v]) = Len(mem[p].data)
      BY <1>1, ExceptAny
    <3> QED BY <1>16, <3>1 DEF TypeOK, Write
  <2> QED BY <1>1, <2>1, <2>2, <2>3 DEF FlagTells, Progress, Shared
<1>17. CASE OpenAgain(p)
  BY <1>1, <1>17 DEF OpenAgain, FlagTells, Progress, Holds, Kept, Shared
<1>18. CASE Close(p)
  <2>1. CASE Leave(p)
    BY <1>2, <1>18, <2>1 DEF Close
  <2>2. CASE /\ opt[p].writable /\ Goto(p, IF Shared(p) THEN "clear" ELSE "save")
             /\ UNCHANGED <<opt, mem, off>>
    <3>1. /\ pc[p] = "in" /\ pc'[p] = (IF Shared(p) THEN "clear" ELSE "save")
          /\ UNCHANGED <<file, held, opt, mem, off>> /\ off[p] = 0
      BY <1>1, <1>18, <2>2 DEF TypeOK, Close, Goto, SizesOf
    <3> QED BY <1>1, <2>2, <3>1 DEF FlagTells, Progress, Holds, Shared
  <2> QED BY <1>18, <2>1, <2>2 DEF Close
<1>19. CASE Crash(p)
  BY <1>2, <1>19 DEF Crash
<1> QED
  BY <1>3, <1>4, <1>5, <1>6, <1>7, <1>8, <1>9, <1>10, <1>11, <1>12, <1>13, <1>14,
     <1>15, <1>16, <1>17, <1>18, <1>19 DEF Step, Continue

LEMMA FlagStep ==
  ASSUME Alone, TypeOK, Sizes, FlagInv, [Next]_vars
  PROVE  FlagInv'
<1>1. Serial' /\ Flags' /\ Header'
  BY SerialStep, FlagsStep
<1>2. CASE UNCHANGED vars
  BY <1>1, <1>2 DEF vars, FlagInv, FlagTells, Progress, Holds, Kept, Shared
<1>3. ASSUME NEW p \in Process, Step(p)
      PROVE  FlagTells' /\ \A q \in Process : Progress(q)'
  BY <1>3, OwnProgress, OthersProgress
<1> QED BY <1>1, <1>2, <1>3 DEF Next, FlagInv

(* When processes construct one at a time and none asks for a dirty file,  *)
(* a clear flag means that the file holds what its last writer left: in    *)
(* every mode, however often it grew, whichever step a crash or a failure  *)
(* interrupted, and also when a process lost its lock by opening the file  *)
(* a second time.                                                          *)
THEOREM FlagAlwaysTells == Alone => (Spec => []FlagTells)
<1> SUFFICES ASSUME Alone PROVE Spec => []FlagTells
  OBVIOUS
<1>1. Init => TypeOK /\ Sizes /\ FlagInv
  BY TypeInit, SizesInit, FlagInit
<1>2. (TypeOK /\ Sizes /\ FlagInv) /\ [Next]_vars => (TypeOK /\ Sizes /\ FlagInv)'
  BY TypeStep, SizesStep, FlagStep
<1>3. FlagInv => FlagTells
  BY DEF FlagInv
<1> QED BY <1>1, <1>2, <1>3, PTL DEF Spec

LEMMA OpenedRestores ==
  ASSUME TypeOK, Sizes, FlagInv, NEW p \in Process, Step(p),
         pc[p] \in Constructing, pc'[p] = "in"
  PROVE  /\ Len(Contents(p)') = Len(held)
         /\ \A c \in DOMAIN Contents(p)' :
              IF c <= Loaded(p)
              THEN Contents(p)'[c] = held[c] \/ held[c] = Zero
              ELSE Contents(p)'[c] = Zero
<1> USE DEF TypeOK, Goto
<1>1. Progress(p) /\ SizesOf(p) /\ mem[p].data \in Seq(Val) /\ off[p] \in Nat
      /\ file.data \in Seq(Val) /\ Len(file.data) \in Nat /\ opt[p].size \in Nat
      /\ DOMAIN file.data = 1 .. Len(file.data)
  BY DEF FlagInv, Sizes
<1>2. MapShared(p) \/ MapPrivate(p) \/ MapHeap(p) \/ LoadChunk(p)
  BY DEF Step, Continue, Check, Create, Format, ResizeFile, GrowSegment, TryLock,
         FailSetup, Write, OpenAgain, Close, SaveChunk, ClearDirty, Crash, Leave,
         Constructing
<1>3. LoadChunk(p) => off[p] + 1 <= Len(mem[p].data)
  BY LoadCases DEF Leave
<1>4. /\ pc[p] \in {"setup", "load"} /\ UNCHANGED <<file, opt, held>>
      /\ Len(file.data) = Len(held)
      /\ \A c \in 1 .. Len(file.data) : file.data[c] = held[c] \/ held[c] = Zero
  BY <1>1, <1>2, <1>3, LoadFacts DEF MapShared, MapPrivate, MapHeap, Progress, Holds
<1>5. opt[p].mode # "heap" => Loaded(p) = Len(file.data)
  BY <1>4 DEF Loaded
<1>6. CASE MapShared(p)
  <2>1. Contents(p)' = file.data /\ opt[p].mode # "heap"
    BY <1>4, <1>6 DEF MapShared, Contents, Shared
  <2> QED BY <1>1, <1>4, <1>5, <2>1
<1>7. CASE MapPrivate(p)
  <2>1. Contents(p)' = file.data /\ opt[p].mode # "heap"
    BY <1>4, <1>7 DEF MapPrivate, Contents, Shared
  <2> QED BY <1>1, <1>4, <1>5, <2>1
<1>8. CASE MapHeap(p)
  <2>1. opt[p].mode = "heap" /\ opt[p].size = 0 /\ pc[p] = "setup"
    BY <1>8 DEF MapHeap
  <2>2. /\ Contents(p)' = Zeros(Len(file.data))
    BY <1>1, <1>4, <1>8, <2>1 DEF MapHeap, Contents, Shared, Progress
  <2>3. /\ Contents(p)' \in Seq(Val) /\ Len(Contents(p)') = Len(file.data)
        /\ \A c \in 1 .. Len(file.data) : Contents(p)'[c] = Zero
    <3>1. /\ Zeros(Len(file.data)) \in Seq(Val)
          /\ Len(Zeros(Len(file.data))) = Len(file.data)
          /\ \A c \in 1 .. Len(file.data) : Zeros(Len(file.data))[c] = Zero
      BY <1>1, ZerosSeq
    <3> HIDE DEF Zeros
    <3> QED BY <2>2, <3>1
  <2>4. DOMAIN Contents(p)' = 1 .. Len(file.data)
    BY <2>3
  <2>5. ~opt[p].writable => Loaded(p) = 0
    BY <2>1 DEF Loaded
  <2>6. opt[p].writable => Len(file.data) = 0
    BY <1>1, <2>1 DEF Progress
  <2>7. \A c \in 1 .. Len(file.data) : ~(c <= Loaded(p))
    BY <1>1, <2>5, <2>6
  <2> QED BY <1>4, <2>3, <2>4, <2>7
<1>9. CASE LoadChunk(p)
  <2>1. pc[p] = "load" /\ off[p] + 1 = opt[p].size
    BY <1>3, <1>9, LoadFacts
  <2>2. opt[p].mode = "heap"
    BY <1>1, <2>1 DEF SizesOf
  <2>3. /\ Len(mem'[p].data) = Len(file.data) /\ mem'[p].data \in Seq(Val)
        /\ \A c \in 1 .. off[p] + 1 : mem'[p].data[c] = file.data[c]
        /\ \A c \in off[p] + 2 .. Len(file.data) : mem'[p].data[c] = Zero
    BY <1>1, <1>3, <1>9, LoadFacts, ChunkLoaded
  <2>4. Contents(p)' = mem'[p].data
    BY <1>4, <2>2 DEF Contents, Shared
  <2>5. Loaded(p) = off[p] + 1
    BY <1>1, <1>4, <2>1, <2>2 DEF Loaded, Progress
  <2>6. DOMAIN mem'[p].data = 1 .. Len(file.data)
    BY <2>3
  <2>7. ASSUME NEW c \in 1 .. Len(file.data)
        PROVE  IF c <= off[p] + 1
               THEN mem'[p].data[c] = held[c] \/ held[c] = Zero
               ELSE mem'[p].data[c] = Zero
    <3>1. CASE c <= off[p] + 1
      <4>1. c \in 1 .. off[p] + 1
        BY <1>1, <3>1
      <4> QED BY <1>4, <2>3, <3>1, <4>1
    <3>2. CASE ~(c <= off[p] + 1)
      <4>1. c \in off[p] + 2 .. Len(file.data)
        BY <1>1, <3>2
      <4> QED BY <2>3, <3>2, <4>1
    <3> QED BY <3>1, <3>2
  <2> QED BY <1>4, <2>3, <2>4, <2>5, <2>6, <2>7
<1> QED BY <1>2, <1>6, <1>7, <1>8, <1>9

(* Under the same conditions who opens the file, in any mode, for reading  *)
(* or writing, starts from what the last clean close left: whole, but for  *)
(* a reader into memory, who has as many chunks as it asked for.           *)
THEOREM OpensRestore == Alone => (Spec => OpenRestores)
<1> SUFFICES ASSUME Alone PROVE Spec => OpenRestores
  OBVIOUS
<1> DEFINE A == \A p \in Process :
       /\ pc[p] \in Constructing /\ pc'[p] = "in"
       /\ ~opt[p].allow_dirty
       => LET d == Contents(p)'
          IN  /\ Len(d) = Len(held)
              /\ \A c \in DOMAIN d : IF c <= Loaded(p)
                                     THEN d[c] = held[c] \/ held[c] = Zero
                                     ELSE d[c] = Zero
<1>1. Init => TypeOK /\ Sizes /\ FlagInv
  BY TypeInit, SizesInit, FlagInit
<1>2. (TypeOK /\ Sizes /\ FlagInv) /\ [Next]_vars => (TypeOK /\ Sizes /\ FlagInv)'
  BY TypeStep, SizesStep, FlagStep
<1>3. (TypeOK /\ Sizes /\ FlagInv) /\ [Next]_vars => [A]_vars
  <2>1. SUFFICES ASSUME TypeOK, Sizes, FlagInv, Next, NEW p \in Process,
                        pc[p] \in Constructing, pc'[p] = "in"
                 PROVE  /\ Len(Contents(p)') = Len(held)
                        /\ \A c \in DOMAIN Contents(p)' :
                             IF c <= Loaded(p)
                             THEN Contents(p)'[c] = held[c] \/ held[c] = Zero
                             ELSE Contents(p)'[c] = Zero
    OBVIOUS
  <2>2. PICK q \in Process : Step(q)
    BY <2>1 DEF Next
  <2>3. p = q
    BY <2>1, <2>2, OthersStand DEF Constructing
  <2> QED BY <2>1, <2>2, <2>3, OpenedRestores
<1>4. OpenRestores <=> [][A]_vars
  BY DEF OpenRestores
<1> HIDE DEF A
<1> QED BY <1>1, <1>2, <1>3, <1>4, PTL DEF Spec
-----------------------------------------------------------------------------
(* The segment.  What a private copy knows of its size may be older than   *)
(* the file, so a save may turn it back: each copy has to fit, also behind *)
(* the growth that a process is about to tell the segment manager.         *)

SegInv ==
  /\ \A p, q \in Process :
       pc[p] \in Constructing /\ pc[q] \in Constructing => p = q
  /\ file.seg <= Len(file.data)
  /\ \A q \in Process : mem[q].seg <= Len(file.data)
  /\ \A p \in Process :
       pc[p] = "grow" => /\ file.seg + off[p] <= Len(file.data)
                         /\ \A q \in Process : mem[q].seg + off[p] <= Len(file.data)

LEMMA SegInit == Init => SegInv
BY MappedFileAssumption DEF Init, SegInv, NoMem, Constructing

(* The segment of the file stays as it is, grows by what p has to tell, or *)
(* is that of a new file or of a copy; that of a copy is the file's.       *)
LEMMA SegFacts ==
  ASSUME TypeOK, Sizes, NEW p \in Process, Step(p)
  PROVE  /\ \/ file'.seg = file.seg
            \/ \E q \in Process : file'.seg = mem[q].seg
            \/ pc[p] = "grow" /\ file'.seg = file.seg + off[p]
            \/ file'.seg = 0
            \/ file'.seg <= Len(file.data) /\ pc[p] = "format"
         /\ mem'[p].seg \in {0, file.seg, mem[p].seg}
         /\ pc'[p] = "grow" =>
              /\ pc[p] = "attach" /\ file'.seg = file.seg /\ mem' = mem
              /\ off'[p] \in Nat /\ Len(file'.data) = Len(file.data) + off'[p]
<1> USE DEF TypeOK, Goto
<1>1. CASE Create(p) \/ GrowSegment(p)
  BY <1>1 DEF Create, GrowSegment
<1>2. CASE Format(p)
  <2>1. opt[p].size <= Len(file.data)
    BY <1>2 DEF Format, Sizes, SizesOf
  <2> QED BY <1>2, <2>1 DEF Format
<1>3. CASE ResizeFile(p)
  <2>1. Grown(p) \in Nat /\ Len(file'.data) = Len(file.data) + Grown(p)
    BY <1>3, ResizeFacts, ExtendedSeq
  <2>2. file'.seg = file.seg /\ mem' = mem /\ off'[p] = Grown(p) /\ pc[p] = "attach"
    BY <1>3 DEF ResizeFile
  <2> QED BY <2>1, <2>2
<1>4. Leave(p) => mem'[p].seg = 0 /\ pc'[p] = "out"
  BY DEF Leave, NoMem
<1>5. CASE TryLock(p)
  BY <1>4, <1>5 DEF TryLock
<1>6. CASE MapShared(p) \/ MapPrivate(p) \/ MapHeap(p)
  BY <1>6 DEF MapShared, MapPrivate, MapHeap
<1>7. CASE LoadChunk(p)
  BY <1>4, <1>7 DEF LoadChunk
<1>8. CASE SaveChunk(p)
  BY <1>8 DEF SaveChunk
<1>9. ASSUME NEW c, NEW v, Write(p, c, v)
      PROVE file'.seg = file.seg /\ mem'[p].seg = mem[p].seg /\ pc'[p] = "in"
  BY <1>9 DEF Write
<1>10. CASE Close(p)
  BY <1>4, <1>10 DEF Close
<1>11. CASE ClearDirty(p) \/ FailSetup(p) \/ Crash(p)
  BY <1>4, <1>11 DEF ClearDirty, FailSetup, Crash
<1>12. CASE OpenAgain(p)
  BY <1>12 DEF OpenAgain
<1>13. ASSUME NEW o \in Options, Check(p, o)
       PROVE  UNCHANGED <<file, mem>> /\ pc'[p] # "grow"
  BY <1>13 DEF Check
<1> QED BY <1>1, <1>2, <1>3, <1>5, <1>6, <1>7, <1>8, <1>9, <1>10, <1>11, <1>12, <1>13
           DEF Step, Continue

LEMMA SegStep ==
  ASSUME OneAtATime, TypeOK, Sizes, SegInv, [Next]_vars
  PROVE  SegInv'
<1>1. CASE UNCHANGED vars
  BY <1>1 DEF vars, SegInv
<1>2. ASSUME NEW p \in Process, Step(p)
      PROVE  SegInv'
  <2>1. /\ Len(file.data) \in Nat /\ Len(file'.data) \in Nat
        /\ Len(file'.data) >= Len(file.data)
    BY <1>2, FileGrows
  <2>2. \A q \in Process : q # p => /\ pc'[q] = pc[q] /\ off'[q] = off[q]
                                    /\ mem'[q] = mem[q]
    BY <1>2, OthersStand
  <2>3. /\ file.seg \in Nat /\ file.seg <= Len(file.data)
        /\ \A q \in Process : mem[q].seg \in Nat /\ mem[q].seg <= Len(file.data)
        /\ \A q \in Process : off[q] \in Nat
    BY DEF TypeOK, SegInv
  <2>4. \A q, r \in Process :
          pc'[q] \in Constructing /\ pc'[r] \in Constructing => q = r
    <3>1. CASE \E o \in Options : Check(p, o)
      <4>1. \A q \in Process : pc[q] \notin Constructing
        BY <3>1 DEF Check
      <4> QED BY <2>2, <4>1
    <3>2. CASE ~\E o \in Options : Check(p, o)
      <4>1. pc'[p] \in Constructing => pc[p] \in Constructing
        BY <1>2, <3>2, WorkFacts
      <4> QED BY <2>2, <4>1 DEF SegInv
    <3> QED BY <3>1, <3>2
  <2>5. file'.seg <= Len(file'.data)
    <3>1. /\ \/ file'.seg = file.seg
             \/ \E q \in Process : file'.seg = mem[q].seg
             \/ pc[p] = "grow" /\ file'.seg = file.seg + off[p]
             \/ file'.seg = 0
             \/ file'.seg <= Len(file.data)
      BY <1>2, SegFacts
    <3>2. file'.seg \in Int
      <4>1. TypeOK'
        BY <1>2, TypeStep DEF Next
      <4> QED BY <4>1 DEF TypeOK
    <3>3. pc[p] = "grow" => file.seg + off[p] <= Len(file.data)
      BY DEF SegInv
    <3> QED BY <2>1, <2>3, <3>1, <3>2, <3>3
  <2>6. \A q \in Process : mem'[q].seg <= Len(file'.data)
    BY <1>2, <2>1, <2>2, <2>3, SegFacts
  <2>7. ASSUME NEW q \in Process, pc'[q] = "grow"
        PROVE  /\ file'.seg + off'[q] <= Len(file'.data)
               /\ \A r \in Process : mem'[r].seg + off'[q] <= Len(file'.data)
    <3>1. CASE q = p
      BY <1>2, <2>1, <2>2, <2>3, <2>7, <3>1, SegFacts
    <3>2. CASE q # p
      <4>1. pc[q] = "grow" /\ off'[q] = off[q]
        BY <2>2, <2>7, <3>2
      <4>2. /\ file.seg + off[q] <= Len(file.data)
            /\ \A r \in Process : mem[r].seg + off[q] <= Len(file.data)
        BY <4>1 DEF SegInv
      <4>3. pc[p] \notin {"grow", "format"}
        BY <3>2, <4>1 DEF SegInv, Constructing
      <4>4. off[q] <= Len(file.data)
        BY <2>3, <4>2
      <4>5. file'.seg + off[q] <= Len(file'.data)
        BY <1>2, <2>1, <2>3, <4>2, <4>3, <4>4, SegFacts
      <4>6. \A r \in Process : mem'[r].seg + off[q] <= Len(file'.data)
        <5>1. mem'[p].seg + off[q] <= Len(file.data)
          BY <1>2, <2>3, <4>2, <4>4, SegFacts
        <5>2. \A r \in Process : mem'[r].seg + off[q] <= Len(file.data)
          BY <2>2, <4>2, <5>1
        <5>3. \A r \in Process : mem'[r].seg \in Nat
          BY <1>2, TypeStep DEF TypeOK, Next
        <5> QED BY <2>1, <2>3, <5>2, <5>3
      <4> QED BY <4>1, <4>5, <4>6
    <3> QED BY <3>1, <3>2
  <2> QED BY <2>4, <2>5, <2>6, <2>7 DEF SegInv
<1> QED BY <1>1, <1>2 DEF Next

(* When processes construct one at a time the segment never reaches behind *)
(* the end of the file: not after a growth that a crash cut short, and not *)
(* when a process saves a copy from before a growth.                       *)
THEOREM SegmentAlwaysFits == OneAtATime => (Spec => []SegmentFits)
<1> SUFFICES ASSUME OneAtATime PROVE Spec => []SegmentFits
  OBVIOUS
<1>1. Init => TypeOK /\ Sizes /\ SegInv
  BY TypeInit, SizesInit, SegInit
<1>2. (TypeOK /\ Sizes /\ SegInv) /\ [Next]_vars => (TypeOK /\ Sizes /\ SegInv)'
  BY TypeStep, SizesStep, SegStep
<1>3. SegInv => SegmentFits
  BY DEF SegInv, SegmentFits
<1> QED BY <1>1, <1>2, <1>3, PTL DEF Spec
-----------------------------------------------------------------------------
(* A writer and the steps of other constructors before they try the lock.  *)

Settled ==
  \A p \in Process : pc[p] \notin {"out", "attach"} => file.header # "absent"

LEMMA SettledStep ==
  ASSUME TypeOK, Sizes, Settled, [Next]_vars
  PROVE  Settled'
<1>1. CASE UNCHANGED vars
  BY <1>1 DEF vars, Settled
<1>2. ASSUME NEW p \in Process, Step(p)
      PROVE  Settled'
  <2>1. \A q \in Process : q # p => pc'[q] = pc[q]
    BY <1>2, OthersStand
  <2>2. file.header # "absent" => file'.header # "absent"
    <3>1. CASE \E o \in Options : Check(p, o)
      BY <3>1 DEF Check
    <3>2. CASE ~\E o \in Options : Check(p, o)
      BY <1>2, <3>2, HeaderFacts
    <3> QED BY <3>1, <3>2
  <2>3. pc'[p] \notin {"out", "attach"} => file'.header # "absent"
    <3>1. CASE \E o \in Options : Check(p, o)
      BY <3>1 DEF Check, Accepts, Goto, TypeOK
    <3>2. CASE ~\E o \in Options : Check(p, o)
      <4>1. pc[p] # "out"
        BY <1>2, <3>2, WorkFacts
      <4> QED BY <1>2, <2>2, <3>2, <4>1, HeaderFacts DEF Settled, Passes
    <3> QED BY <3>1, <3>2
  <2> QED BY <2>1, <2>2, <2>3 DEF Settled
<1> QED BY <1>1, <1>2 DEF Next

OnlyGrows ==
  /\ file'.header = file.header /\ file'.dirty = file.dirty
  /\ file'.seg >= file.seg /\ Len(file'.data) >= Len(file.data)
  /\ \A c \in DOMAIN file'.data :
       file'.data[c] = IF c \in DOMAIN file.data THEN file.data[c] ELSE Zero

(* What q, which does not hold the lock, does to the file of p. *)
LEMMA OthersGrow ==
  ASSUME TypeOK, Sizes, Settled, WriterLocks, NEW p \in Process, Writing(p),
         NEW q \in Process, q # p, Step(q), pc[q] # "format"
  PROVE  OnlyGrows
<1>1. lock = p /\ p # NoOne /\ ~Writing(q) /\ file.header # "absent"
  BY MappedFileAssumption DEF WriterLocks, Settled, Writing
<1>2. pc[q] \in {"save", "clear"} => opt[q].writable
  BY DEF Sizes, SizesOf
<1>3. pc[q] \notin {"save", "clear"} /\ (opt[q].writable => pc[q] \notin {"setup", "load", "in"})
  BY <1>1, <1>2 DEF Writing
<1>4. /\ file.data \in Seq(Val) /\ Len(file.data) \in Nat
      /\ DOMAIN file.data = 1 .. Len(file.data) /\ file.seg \in Nat /\ off[q] \in Nat
  BY DEF TypeOK
<1>5. CASE file' = file
  BY <1>4, <1>5 DEF OnlyGrows
<1>6. ASSUME NEW o \in Options, Check(q, o)
      PROVE  file' = file
  BY <1>6 DEF Check
<1>7. CASE Create(q) \/ Format(q)
  BY <1>1, <1>7 DEF Create, Format
<1>8. CASE GrowSegment(q)
  <2>1. /\ file'.header = file.header /\ file'.dirty = file.dirty
        /\ file'.data = file.data /\ file'.seg = file.seg + off[q]
    BY <1>8 DEF GrowSegment, TypeOK
  <2> QED BY <1>4, <2>1 DEF OnlyGrows
<1>9. CASE ResizeFile(q)
  <2>1. /\ file'.header = file.header /\ file'.dirty = file.dirty /\ file'.seg = file.seg
    BY <1>9 DEF ResizeFile, TypeOK
  <2> DEFINE n == Grown(q)
  <2>2. n \in Nat /\ file'.data = Extended(file.data, n)
    BY <1>9, ResizeFacts
  <2> HIDE DEF n
  <2>3. /\ file'.data \in Seq(Val) /\ Len(file'.data) = Len(file.data) + n
        /\ \A c \in 1 .. Len(file.data) : file'.data[c] = file.data[c]
        /\ \A c \in Len(file.data) + 1 .. Len(file.data) + n : file'.data[c] = Zero
    <3>1. /\ Extended(file.data, n) \in Seq(Val)
          /\ Len(Extended(file.data, n)) = Len(file.data) + n
          /\ \A c \in 1 .. Len(file.data) : Extended(file.data, n)[c] = file.data[c]
          /\ \A c \in Len(file.data) + 1 .. Len(file.data) + n :
               Extended(file.data, n)[c] = Zero
      BY <1>4, <2>2, ExtendedSeq
    <3> HIDE DEF Extended
    <3> QED BY <2>2, <3>1
  <2>4. DOMAIN file'.data = 1 .. Len(file.data) + n
    BY <2>3
  <2>5. ASSUME NEW c \in 1 .. Len(file.data) + n
        PROVE  file'.data[c] = IF c \in 1 .. Len(file.data) THEN file.data[c] ELSE Zero
    <3>1. c \in 1 .. Len(file.data) \/ c \in Len(file.data) + 1 .. Len(file.data) + n
      BY <1>4, <2>2
    <3>2. c \in Len(file.data) + 1 .. Len(file.data) + n => c \notin 1 .. Len(file.data)
      BY <1>4
    <3> QED BY <2>3, <3>1, <3>2
  <2>6. Len(file'.data) >= Len(file.data) /\ file'.seg >= file.seg
    BY <1>4, <2>1, <2>2, <2>3
  <2> QED BY <1>4, <2>1, <2>4, <2>5, <2>6 DEF OnlyGrows
<1>10. CASE TryLock(q)
  BY <1>1, <1>5, <1>10 DEF TryLock
<1>11. CASE MapShared(q) \/ MapPrivate(q) \/ MapHeap(q) \/ LoadChunk(q)
  BY <1>5, <1>11 DEF MapShared, MapPrivate, MapHeap, LoadChunk
<1>12. CASE SaveChunk(q) \/ ClearDirty(q)
  BY <1>3, <1>12 DEF SaveChunk, ClearDirty
<1>13. CASE FailSetup(q)
  BY <1>3, <1>5, <1>13 DEF FailSetup
<1>14. ASSUME NEW c, NEW v, Write(q, c, v)
       PROVE  file' = file
  BY <1>3, <1>14 DEF Write
<1>15. CASE Close(q) \/ Crash(q) \/ OpenAgain(q)
  BY <1>5, <1>15 DEF Close, Crash, OpenAgain
<1> QED BY <1>5, <1>6, <1>7, <1>8, <1>9, <1>10, <1>11, <1>12, <1>13, <1>14, <1>15
           DEF Step, Continue

(* While a process has the file open for writing, the constructions of     *)
(* other processes, with whatever sizes and options, at most make the file *)
(* and its segment larger, before they are refused the lock: no flag and   *)
(* no chunk changes.  For programs that do not open the file twice.        *)
THEOREM OthersJustGrow == ~SecondOpen => (Spec => OthersOnlyGrow)
<1> SUFFICES ASSUME ~SecondOpen PROVE Spec => OthersOnlyGrow
  OBVIOUS
<1> DEFINE Inv == TypeOK /\ Sizes /\ WriterLocks /\ Settled
           A == \A p, q \in Process :
                  p # q /\ Writing(p) /\ Step(q) /\ pc[q] # "format" => OnlyGrows
<1>1. Init => Inv
  <2>1. Init => Settled
    BY DEF Init, Settled
  <2> QED BY <2>1, TypeInit, SizesInit, WriterLocksInit
<1>2. Inv /\ [Next]_vars => Inv'
  BY TypeStep, SizesStep, WriterLocksStep, SettledStep
<1>3. Inv => A
  BY OthersGrow
<1>4. OthersOnlyGrow <=> [][A]_vars
  BY DEF OthersOnlyGrow, OnlyGrows
<1> HIDE DEF Inv, A
<1> QED BY <1>1, <1>2, <1>3, <1>4, PTL DEF Spec
===============================================================================
