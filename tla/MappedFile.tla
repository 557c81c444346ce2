------------------------------ MODULE MappedFile ------------------------------
(***************************************************************************)
(* chainbase::pinnable_mapped_file (src/pinnable_mapped_file.cpp): the     *)
(* processes that open, write and close one database file, and die.        *)
(*                                                                         *)
(* The file is a sequence of chunks, the unit in which it is loaded and    *)
(* saved (_db_size_copy_increment).  Constructor and destructor take one   *)
(* step per point at which another process or a crash may come in between. *)
(* What a process stores in a shared mapping outlives it: an operating     *)
(* system that stops, and so flushing, is out of scope (README, section    *)
(* Persistence).  A call of the client that changes rows is one step.      *)
(***************************************************************************)
EXTENDS Integers, Sequences, FiniteSetsExt

CONSTANTS Process, NoOne,
          Options,       \* arguments of the constructor
          Val, Zero,     \* contents of a chunk; the one of all zeros
          FirstChunk,    \* of a new segment (the bookkeeping of its manager)
          FileExists,    \* is there a file at the start, one chunk long?
          OneAtATime,    \* no two processes construct at the same time
          SetupFails,    \* mappings, mlock and loading may fail
          SecondOpen     \* a process opens the file that it has open

Mode == {"mapped", "mapped_private", "heap"}   \* locked: heap, and mlock

ASSUME MappedFileAssumption ==
  /\ NoOne \notin Process
  /\ Options \subseteq [writable : BOOLEAN, allow_dirty : BOOLEAN,
                        mode : Mode, size : Nat]
  /\ \A o \in Options : o.writable => o.size > 0
  /\ Zero \in Val /\ FirstChunk \in Val \ {Zero}
  /\ {FileExists, OneAtATime, SetupFails, SecondOpen} \subseteq BOOLEAN

VARIABLES file,   \* header, chunks, and the size that the segment manager knows
          lock,   \* owner of the file lock
          pc,     \* where each process is
          opt,    \* its arguments; size is _database_size
          mem,    \* its own copy of the file (private and heap mode)
          off,    \* its offset in a loop, or the chunks by which the file grew
          held    \* history: contents that the last clean close left

vars == <<file, lock, pc, opt, mem, off, held>>

Constructing == {"attach", "format", "grow", "lock", "setup", "load"}
Busy == Constructing \cup {"save", "clear"}

NoMem == [data |-> <<>>, seg |-> 0]
NoOpt == [writable |-> FALSE, allow_dirty |-> FALSE, mode |-> "mapped", size |-> 0]

Zeros(n) == [c \in 1 .. n |-> Zero]
Extended(s, n) == s \o Zeros(n)

Init ==
  /\ file = IF FileExists
            THEN [header |-> "valid", dirty |-> FALSE, seg |-> 1,
                  data |-> <<FirstChunk>>]
            ELSE [header |-> "absent", dirty |-> FALSE, seg |-> 0, data |-> <<>>]
  /\ held = file.data
  /\ lock = NoOne
  /\ pc = [p \in Process |-> "out"]
  /\ opt = [p \in Process |-> NoOpt]
  /\ mem = [p \in Process |-> NoMem]
  /\ off = [p \in Process |-> 0]

(* Is the mapping of p the file itself? *)
Shared(p) ==
  \/ opt[p].mode = "mapped"
  \/ opt[p].mode = "mapped_private" /\ ~opt[p].writable
Contents(p) == IF Shared(p) THEN file.data ELSE mem[p].data

Released(p) == IF lock = p THEN NoOne ELSE lock

Goto(p, label) == pc' = [pc EXCEPT ![p] = label]

(* Is this the last turn of a loop over the chunks? *)
IsLast_short(p) == off[p] + 1 >= opt[p].size - 1   \* seeded bug
IsLast(p) == off[p] + 1 = opt[p].size

(* Destructors of the members: the mapping and the lock. *)
Leave(p) ==
  /\ Goto(p, "out")
  /\ lock' = Released(p)
  /\ opt' = [opt EXCEPT ![p] = NoOpt]
  /\ mem' = [mem EXCEPT ![p] = NoMem]
  /\ off' = [off EXCEPT ![p] = 0]

-----------------------------------------------------------------------------
(* Constructor.  A call that is refused here changes nothing. *)
Accepts_anyflag(o) ==   \* seeded bug
  CASE file.header = "absent" -> o.writable
    [] file.header = "blank"  -> FALSE
    [] file.header = "valid"  -> TRUE
Accepts(o) ==
  CASE file.header = "absent" -> o.writable
    [] file.header = "blank"  -> FALSE
    [] file.header = "valid"  -> o.allow_dirty \/ ~file.dirty

(* The header is read and looked at, before anything is locked. *)
Check(p, o) ==
  /\ pc[p] = "out"
  /\ OneAtATime => \A q \in Process : pc[q] \notin Constructing
  /\ Accepts(o)
  /\ Goto(p, IF o.writable THEN "attach" ELSE "setup")
  /\ opt' = [opt EXCEPT ![p] = o]
  /\ UNCHANGED <<file, lock, mem, off, held>>

(* No file: it is created with its size. *)
Create(p) ==
  /\ pc[p] = "attach" /\ file.header = "absent"
  /\ file' = [header |-> "blank", dirty |-> FALSE, seg |-> 0,
              data |-> Zeros(opt[p].size)]
  /\ Goto(p, "format")
  /\ UNCHANGED <<lock, opt, mem, off, held>>

(* The segment manager is constructed in it, the header after that. *)
Format(p) ==
  /\ pc[p] = "format"
  /\ file' = [header |-> "valid", dirty |-> FALSE, seg |-> opt[p].size,
              data |-> [file.data EXCEPT ![1] = FirstChunk]]
  /\ held' = file'.data
  /\ Goto(p, "lock")
  /\ UNCHANGED <<lock, opt, mem, off>>

(* A file: it grows to the size that was asked for, and never shrinks. *)
Grown_whole(p) == IF opt[p].size > Len(file.data) THEN opt[p].size ELSE 0   \* seeded bug
Grown_any(p) == opt[p].size - Len(file.data)   \* seeded bug: also when it is smaller
Grown(p) ==
  IF opt[p].size > Len(file.data) THEN opt[p].size - Len(file.data) ELSE 0
ResizeFile(p) ==
  LET size == Max({opt[p].size, Len(file.data)})
      more == size - Len(file.data)
  IN  /\ pc[p] = "attach" /\ file.header # "absent"
      /\ file' = [file EXCEPT !.data = Extended(@, more)]
      /\ held' = Extended(held, more)
      /\ opt' = [opt EXCEPT ![p].size = size]
      /\ off' = [off EXCEPT ![p] = Grown(p)]
      /\ Goto(p, IF Grown(p) > 0 THEN "grow" ELSE "lock")
      /\ UNCHANGED <<lock, mem>>

GrowSegment(p) ==
  /\ pc[p] = "grow"
  /\ file' = [file EXCEPT !.seg = @ + off[p]]
  /\ off' = [off EXCEPT ![p] = 0]
  /\ Goto(p, "lock")
  /\ UNCHANGED <<lock, opt, mem, held>>

(* try_lock, which does not wait, and the dirty flag. *)
TryLock_waits(p) ==   \* seeded bug
  /\ pc[p] = "lock" /\ lock = NoOne
  /\ lock' = p
  /\ file' = [file EXCEPT !.dirty = TRUE]
  /\ Goto(p, "setup")
  /\ UNCHANGED <<opt, mem, off, held>>
TryLock_ignored(p) ==   \* seeded bug: the answer is not looked at
  /\ pc[p] = "lock"
  /\ lock' = IF lock = NoOne THEN p ELSE lock
  /\ file' = [file EXCEPT !.dirty = TRUE]
  /\ Goto(p, "setup")
  /\ UNCHANGED <<opt, mem, off, held>>
TryLock_retries(p) ==   \* seeded bug: starts over until it has the lock
  /\ pc[p] = "lock"
  /\ IF lock = NoOne
     THEN lock' = p /\ file' = [file EXCEPT !.dirty = TRUE] /\ Goto(p, "setup")
     ELSE Goto(p, "attach") /\ UNCHANGED <<file, lock>>
  /\ UNCHANGED <<opt, mem, off, held>>
TryLock(p) ==
  /\ pc[p] = "lock"
  /\ IF lock = NoOne
     THEN /\ lock' = p
          /\ file' = [file EXCEPT !.dirty = TRUE]
          /\ Goto(p, "setup")
          /\ UNCHANGED <<opt, mem, off>>
     ELSE Leave(p) /\ UNCHANGED file
  /\ UNCHANGED held

(* mapped: the file itself. *)
MapShared(p) ==
  /\ pc[p] = "setup" /\ Shared(p)
  /\ Goto(p, "in")
  /\ UNCHANGED <<file, lock, opt, mem, off, held>>

(* mapped_private: copy on write, so what the file has when it is mapped. *)
MapPrivate(p) ==
  /\ pc[p] = "setup" /\ ~Shared(p) /\ opt[p].mode = "mapped_private"
  /\ mem' = [mem EXCEPT ![p] = [data |-> file.data, seg |-> file.seg]]
  /\ Goto(p, "in")
  /\ UNCHANGED <<file, lock, opt, off, held>>

(* heap: anonymous memory of the size of the mapped file.  A reader maps it *)
(* about now; a writer did when its size was settled.                      *)
MapHeap(p) ==
  /\ pc[p] = "setup" /\ opt[p].mode = "heap"
  /\ mem' = [mem EXCEPT ![p] =
       [data |-> Zeros(IF opt[p].writable THEN opt[p].size ELSE Len(file.data)),
        seg |-> 0]]
  /\ Goto(p, IF opt[p].size = 0 THEN "in" ELSE "load")
  /\ UNCHANGED <<file, lock, opt, off, held>>

(* It is filled chunk by chunk, as many as the argument says: for a writer *)
(* this is the file, but a reader may ask for fewer and then has zeros in  *)
(* the others, or for more and dies, since there is no memory for them.    *)
LoadChunk(p) ==
  LET c == off[p] + 1
  IN  /\ pc[p] = "load"
      /\ IF c <= Len(mem[p].data)
         THEN /\ mem' = [mem EXCEPT ![p].data[c] = file.data[c],
                                    ![p].seg = IF c = 1 THEN file.seg ELSE @]
              /\ off' = [off EXCEPT ![p] = IF IsLast(p) THEN 0 ELSE c]
              /\ Goto(p, IF IsLast(p) THEN "in" ELSE "load")
              /\ UNCHANGED <<lock, opt>>
         ELSE Leave(p)
      /\ UNCHANGED <<file, held>>

(* Something after the lock throws: reset_on_ctor_fail clears the flag. *)
FailSetup(p) ==
  /\ SetupFails
  /\ pc[p] \in {"setup", "load"} /\ ~Shared(p)
  /\ file' = IF opt[p].writable THEN [file EXCEPT !.dirty = FALSE] ELSE file
  /\ Leave(p)
  /\ UNCHANGED held

-----------------------------------------------------------------------------
(* The client changes rows, all of them in chunk c. *)
Write(p, c, v) ==
  /\ pc[p] = "in" /\ opt[p].writable
  /\ c \in 1 .. opt[p].size
  /\ IF Shared(p)
     THEN file' = [file EXCEPT !.data[c] = v] /\ UNCHANGED mem
     ELSE mem' = [mem EXCEPT ![p].data[c] = v] /\ UNCHANGED file
  /\ UNCHANGED <<lock, pc, opt, off, held>>

(* Another object of this process opens the same file and closes it: the   *)
(* lock is a record lock of the process, and closing any descriptor of the *)
(* file gives it up.                                                       *)
OpenAgain(p) ==
  /\ SecondOpen
  /\ pc[p] = "in" /\ lock = p
  /\ lock' = NoOne
  /\ UNCHANGED <<file, pc, opt, mem, off, held>>

-----------------------------------------------------------------------------
(* Destructor. *)
Close_unlocks(p) ==   \* seeded bug: the lock is given up before the file is saved
  /\ pc[p] = "in"
  /\ IF opt[p].writable
     THEN Goto(p, IF Shared(p) THEN "clear" ELSE "save")
            /\ lock' = Released(p) /\ UNCHANGED <<opt, mem, off>>
     ELSE Leave(p)
  /\ UNCHANGED <<file, held>>
Close(p) ==
  /\ pc[p] = "in"
  /\ IF opt[p].writable
     THEN Goto(p, IF Shared(p) THEN "clear" ELSE "save")
            /\ UNCHANGED <<lock, opt, mem, off>>
     ELSE Leave(p)
  /\ UNCHANGED <<file, held>>

(* save_database_file: chunk by chunk, but for those of zeros. *)
all_zeros(c) == c = Zero
SaveChunk(p) ==
  LET c == off[p] + 1
  IN  /\ pc[p] = "save"
      /\ file' = IF all_zeros(mem[p].data[c]) THEN file
                 ELSE [file EXCEPT !.data[c] = mem[p].data[c],
                                   !.seg = IF c = 1 THEN mem[p].seg ELSE @]
      /\ off' = [off EXCEPT ![p] = IF IsLast(p) THEN 0 ELSE c]
      /\ Goto(p, IF IsLast(p) THEN "clear" ELSE "save")
      /\ UNCHANGED <<lock, opt, mem, held>>

ClearDirty(p) ==
  /\ pc[p] = "clear"
  /\ file' = [file EXCEPT !.dirty = FALSE]
  /\ held' = Contents(p)
  /\ Leave(p)

(* The process dies; the system releases its lock. *)
Crash(p) ==
  /\ pc[p] # "out"
  /\ Leave(p)
  /\ UNCHANGED <<file, held>>

-----------------------------------------------------------------------------
(* What a process does without being asked, once a call has begun. *)
Continue(p) ==
  \/ Create(p) \/ Format(p) \/ ResizeFile(p) \/ GrowSegment(p) \/ TryLock(p)
  \/ MapShared(p) \/ MapPrivate(p) \/ MapHeap(p) \/ LoadChunk(p)
  \/ SaveChunk(p) \/ ClearDirty(p)

Step(p) ==
  \/ \E o \in Options : Check(p, o)
  \/ Continue(p)
  \/ FailSetup(p)
  \/ \E c \in 1 .. Len(file.data), v \in Val : Write(p, c, v)
  \/ OpenAgain(p) \/ Close(p) \/ Crash(p)

Next == \E p \in Process : Step(p)

(* A process that is in a call keeps running. *)
Fairness == \A p \in Process : WF_vars(Continue(p))

Spec == Init /\ [][Next]_vars /\ Fairness

-----------------------------------------------------------------------------
TypeOK ==
  /\ file \in [header : {"absent", "blank", "valid"}, dirty : BOOLEAN,
               seg : Nat, data : Seq(Val)]
  /\ lock \in Process \cup {NoOne}
  /\ pc \in [Process -> Busy \cup {"out", "in"}]
  /\ opt \in [Process -> [writable : BOOLEAN, allow_dirty : BOOLEAN,
                          mode : Mode, size : Nat]]
  /\ mem \in [Process -> [data : Seq(Val), seg : Nat]]
  /\ off \in [Process -> Nat]
  /\ held \in Seq(Val)

(* What the last clean close left is there: all but the chunks that were   *)
(* zero in memory, which a save leaves out.                                *)
Holds(d) == /\ Len(d) = Len(held)
            /\ \A c \in DOMAIN d : d[c] = held[c] \/ held[c] = Zero

(* A file with a clear flag is complete: it holds what its last writer     *)
(* left, whatever step of whoever a crash interrupted.                     *)
FlagTells == file.header = "valid" /\ ~file.dirty => Holds(file.data)

(* Who opens a file and does not ask for a dirty one starts from what the  *)
(* last clean close left, whole.  Only a reader in heap mode has no more   *)
(* than the chunks that it asked for, and zeros in place of the others.    *)
Loaded(p) == IF ~opt[p].writable /\ opt[p].mode = "heap" THEN opt[p].size
             ELSE Len(held)
OpenRestores ==
  [][\A p \in Process :
       /\ pc[p] \in Constructing /\ pc'[p] = "in"
       /\ ~opt[p].allow_dirty
       => LET d == Contents(p)'
          IN  /\ Len(d) = Len(held)
              /\ \A c \in DOMAIN d : IF c <= Loaded(p)
                                     THEN d[c] = held[c] \/ held[c] = Zero
                                     ELSE d[c] = Zero]_vars

(* The segment manager never hands out memory behind the end of the file,  *)
(* however often the file grew and whichever growth a crash cut short.     *)
SegmentFits == file.header = "valid" => file.seg <= Len(file.data)

(* While a process has the file open for writing, another one that         *)
(* constructs may make the file and its segment larger before it asks for  *)
(* the lock, but it leaves the flag and every chunk as they are.  A        *)
(* process that is making the file, when both found none, is exempt: it    *)
(* formats what the other one writes.                                      *)
Writing(p) == opt[p].writable /\ pc[p] \in {"setup", "load", "in", "save", "clear"}
OthersOnlyGrow ==
  [][\A p, q \in Process :
       p # q /\ Writing(p) /\ Step(q) /\ pc[q] # "format" =>
         /\ file'.header = file.header /\ file'.dirty = file.dirty
         /\ file'.seg >= file.seg /\ Len(file'.data) >= Len(file.data)
         /\ \A c \in DOMAIN file'.data :
              file'.data[c] = IF c \in DOMAIN file.data THEN file.data[c]
                              ELSE Zero]_vars

(* Every construction and destruction ends: with an open database, with    *)
(* none, or with the death of the process.                                 *)
CallsEnd == \A p \in Process : pc[p] \in Busy ~> pc[p] \notin Busy

(* How many steps of its own are left of the call that p is in, at most,   *)
(* once it knows the size of its memory.                                   *)
StepsLeft(p) ==
  CASE pc[p] = "attach" -> opt[p].size + 4
    [] pc[p] \in {"format", "grow"} -> opt[p].size + 3
    [] pc[p] = "lock" -> opt[p].size + 2
    [] pc[p] = "setup" -> opt[p].size + 1
    [] pc[p] = "load" -> opt[p].size - off[p]
    [] pc[p] = "save" -> opt[p].size - off[p] + 1
    [] pc[p] = "clear" -> 1
    [] OTHER -> 0

(* No loop and no retry of a constructor or destructor is without end:     *)
(* each step of a call leaves fewer, and no other process makes them more, *)
(* though one may grow the file before this call knows its size.           *)
CallsProgress ==
  [][\A p \in Process : pc[p] \in Busy =>
       IF Step(p)
       THEN \/ pc[p] = "attach" /\ pc'[p] # "attach"
            \/ StepsLeft(p)' \in 0 .. StepsLeft(p) - 1
       ELSE UNCHANGED StepsLeft(p)]_vars

(* "Could not gain write access to the shared memory file": what the       *)
(* second of two writers is told.                                          *)
OneWriter ==
  \A p, q \in Process : Writing(p) /\ Writing(q) => p = q
===============================================================================
