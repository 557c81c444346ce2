# A verification of chainbase in TLA+

chainbase is a C++ library: a database whose tables ("indices") live in a
memory-mapped file, with a stack of undo sessions over all of them.  This
directory holds TLA+ modules that model its parts, the TLC configurations that
check them on small instances, and proofs, checked by TLAPS, that hold for all
values of the constants.  Paths below are relative to the repository.

1. [The system](#1-the-system): inventory of the parts
2. [The modules](#2-the-modules): how state and actions correspond to the code
3. [The runs](#3-the-runs): what TLC checks, bounds, results
4. [Disagreements between code and words](#4-disagreements-between-code-and-words)
5. [The proofs](#5-the-proofs)
6. [Assumptions and limits](#6-assumptions-and-limits)
7. [The plan](#7-the-plan)


## 1. The system

The program that uses chainbase is one thread that writes, with an open
`database`.  There are no locks inside the tables, no messages and no
background work.  What is hard is elsewhere: long sequences of legal calls
(nested sessions that are squashed, committed and undone in any order),
operations that fail in the middle, callbacks of the caller that run inside an
operation, pointers that outlive what they point to, and, for the file,
several processes, crashes, and several database objects of one process that share
the page marks of the kernel.

| Part | State | Operations | What is hard |
|---|---|---|---|
| `undo_index` (`include/chainbase/undo_index.hpp`) | the nodes (contents, `_mtime`, a flag), one tree per index, `_old_values` and `_removed_values` (singly linked lists of backups), `_undo_stack`, `_next_id`, `_revision`, `_monotonic_revision` | `emplace`, `modify`, `remove`, `start_undo_session`, `undo`, `squash`, `squash_fast`, `squash_and_compress`, `last_undo_session`, `commit`, `set_revision` | backups of one row in several sessions, raw pointers from backups to rows, rows destroyed early, a modification that is refused half way through the trees, re-entrant constructors and modifiers |
| `shared_cow_vector`, `shared_cow_string` | a pointer to a counted block | construct, copy, move, assign, clear, `emplace_back`, `resize_and_fill`, `mutable_data` | counts across handles that live in different allocators, in-place writes |
| `chainbase_node_allocator` | a free list inside the free nodes, its size | `allocate`, `deallocate`, `get_some` | the list must hold each free node once; its size is kept apart |
| `database` (`chainbase.hpp`, `src/chainbase.cpp`) | the indices in the segment, `_index_list`, session objects, `_read_only`, `_read_only_mode` | `add_index`, `start_undo_session`, `session::{push,squash,undo}`, `undo`, `undo_all`, `squash`, `commit`, `set_revision`, `set_read_only_mode` | loops over indices that must stay in lockstep, session objects that outlive a change of the list or of the mode, an `add_index` that fails half way |
| `pinnable_mapped_file` | the file and its header with the dirty flag, a file lock, one of four kinds of mapping, `_instance_tracker` | open, close, save, move | two processes opening one file; a crash at any step; failures of the constructor; objects that were moved |
| `pagemap_accessor` | the soft-dirty bits of the pages of the process | `clear_refs`, `read`, `update_file_from_region` | the bits are shared by all instances of the process |
| `read_write_mutex_manager` | an array of mutexes and a counter | `next_lock`, `current_lock` | a slot is constructed anew while a thread may hold it; nothing in the repository uses the class |
| `environment` | none (a constant record) | equality, when a file is opened | nothing |
| `scope_exit`, `scope_fail` | none | run a function at the end of a scope | part of the actions of the code that uses them |

How they interact:

    program --> database --(virtual calls, in the order of _index_list)--> undo_index
                   |                                                          |
                   |                            nodes, backups and undo states come from
                   |                                                          v
                   |                                   chainbase_node_allocator or a boost::interprocess
                   v                                   allocator of the segment
            pinnable_mapped_file --> segment manager (boost::interprocess) in the mapping
                   |
                   +--> pagemap_accessor (mapped_private mode: which pages to write back)

    rows --> shared_cow_string / shared_cow_vector, whose blocks come from the segment when the
             handle is in it (pinnable_mapped_file::get_allocator looks its address up), else
             from the heap

What makes each part correct:

* **undo_index**: each session behaves as a full snapshot of the table
  (`ImplementsTable`, from `RefInv`); the pointers of the undo states never dangle
  (`EndsPresent`); a backup that will be dereferenced refers to a living node
  (`CurrentAlive`); ctimes, ids and `_mtime` are ordered as `undo` and `squash`
  assume (`StackOrdered`); no node is lost or in two places (`NodesAccounted`);
  unique indices stay unique (`KeysUnique`); between operations every tree holds
  the same rows in order (`TreesSorted`), `post_modify` refuses just what conflicts
  and can be taken back (`VerdictRight`); callbacks in the middle of an operation
  leave ids and backups in order as long as they do not nest an operation in
  one of its kind (`OnlyNestedEmplaceUnsorts`, `OnlyNestedModifyMixes`).
* **shared_cow_vector / string**: counts are exact and no block leaks
  (`CountsExact`), blocks go back where they came from (`HomesMatch`), sharing
  cannot be observed (`ImplementsValues`).
* **chainbase_node_allocator**: each node is in one place (`NodesPartitioned`),
  the size is right (`SizeExact`).
* **database**: the added indices move in lockstep (`Lockstep`), sessions are
  atomic over them (`SessionsAtomic`), nothing changes in a file that is open
  for reading (`ReadOnlyOpenUnchanged`).
* **pinnable_mapped_file**: one writer (`OneWriter`), whose file others can only make
  longer (`OthersOnlyGrow`); a file whose flag is clear is complete, whatever a crash
  interrupted (`FlagTells`); who opens a file starts from what the last close left
  (`OpenRestores`); the segment fits into the file (`SegmentFits`); a call takes boundedly
  many steps (`CallsProgress`) and ends (`CallsEnd`).
* **pagemap_accessor**, with the instances of one process: each page that was
  modified is in its file after the close (`PagesSaved`, with one exception).

PROJECT.json lists, under "hazards", each place in the code where one of these
can go wrong and the properties that would show it.


## 2. The modules

| Module | Models | Uses |
|---|---|---|
| `UndoTable` | what `undo_index` promises: a table and a stack of full snapshots | |
| `UndoIndex` | `undo_index` | refines `UndoTable` |
| `UndoIndexHistory` | `UndoIndex` with a record of the rows at the start of each session | extends `UndoIndex` |
| `UndoIndexProofs` | theorems: the inductive invariant, and that `UndoIndex` implements `UndoTable` | extends `UndoIndexHistory` |
| `OrderedIndices` | the trees of `undo_index`, index by index | extends `UndoIndex` |
| `OrderedIndicesProofs` | theorems: the trees stay sorted, verdicts are right | extends both |
| `Reentrancy` | constructors and modifiers that call the index they run in | |
| `ReentrancyProofs` | theorems about it | extends `Reentrancy` |
| `ValueHandles` | what the two copy-on-write classes promise | |
| `SharedCow` | `shared_cow_vector` | refines `ValueHandles` |
| `SharedCowString` | `shared_cow_string`, and the specification of both classes | extends `SharedCow` |
| `SharedCowProofs` | theorems: counts, homes, the refinement | extends `SharedCowString` |
| `NodeAllocator` | `chainbase_node_allocator` | |
| `NodeAllocatorProofs` | theorems about it | extends `NodeAllocator` |
| `AtomicStore` | what `database` promises: snapshots of all indices together | |
| `Database` | `database`, its `session` and its indices | refines `AtomicStore` |
| `DatabaseProofs` | theorems: types, lockstep, read-only files, the refinement of `AtomicStore` | extends `Database` |
| `MappedFile` | `pinnable_mapped_file`: processes that share a file | |
| `MappedFileProofs` | theorems about it | extends `MappedFile` |
| `InstanceTracker` | `pinnable_mapped_file` and `pagemap_accessor`: the objects of one process | |
| `InstanceTrackerProofs` | theorems about it | extends `InstanceTracker` |
| `MC...` | model values, definitions for constants, symmetry and constraints for TLC | |

Definitions carry the names of the source where they can.  A definition marked
*seeded bug* is used by no specification: it is a plausible mistake in the
definition below it, kept to show that the properties notice it.

### UndoIndex

* A **node** is named by its primary key.  `node` maps each allocated node to its
  contents, `_mtime` and the flag that says "in `_removed_values`" (in the code
  a value in the tree hook, `erased_flag`).  Freed nodes are not in its domain.
* The **trees** are one set, `table`, and the predicate `Conflict`: two contents
  conflict when they share the key of a unique index.  That the operations on trees
  amount to that is what `OrderedIndices` checks.
* A **list** is a function from positions to elements.  The front is the greatest
  position, a new element goes above it, and a pointer to an element is its
  position; 0 is the null pointer.  So `old_values_end` (a pointer to the first
  element that is older than the session) is compared with `>`, and an element
  that is disposed of leaves the domain: a pointer to it dangles, which
  `EndsPresent` forbids.
* **Actions**: one per operation and outcome.  `modify` has three: the new
  contents fit (`Modify`); they conflict and there is a backup, which is moved
  back and popped (`ModifyReverted`: of all variables only `_mtime` of the node
  differs afterwards); they conflict and there is no backup, so the object is
  erased (`ModifyErased`).  A modifier that throws ends in one of the three,
  since the guard in `modify` does the same then.  `emplace` that fails changes
  nothing and is stuttering.
* `undo` is one action: drop the new rows, write back the older backups (the
  oldest of one row wins, because they are written newest first), insert the
  removed rows again, newest first.  `Reinserted` models that `insert_impl` may
  fail and that nobody looks.  `squash` is `compress_impl` and the pop;
  `last_undo_session` compresses too (`CompressLast`).
* `commit` keeps the element that the oldest remaining session points to, in
  each list, as the code does.

`UndoTable` sees `Rows` (the table without the bookkeeping) and, for each session,
`RowsAtStart`: the rows as `undo` would reconstruct them from the lists now.  A
`squash` that dropped one backup too many changes the snapshot of an older
session, and the refinement fails at that step, not only at a later `undo`.
`RefInv` says why that works: `OldestPredates` (the oldest backup of a row in a
session, if the row is older than the session, was made before the session changed
it) and that each snapshot has unique keys.

### OrderedIndices

Each index is a sequence of nodes in key order, and keys are integers, so that there
is an order; balancing is left out (boost::intrusive).  `PostModify` goes through the secondary indices in order,
compares the node with its neighbours, takes it out and inserts it again, and stops
at the first index that refuses; the node then stands in front of the one it
conflicts with, and the later trees are not looked at.  `Reverted` and `EraseImpl`
are the two ways out of that state.  Each action is the one of `UndoIndex` and what
it does to the trees; `TreesUndone` follows the three loops of `undo`, in the order
of the lists, with the inserts that tolerate duplicates in between: `NewErased`,
`OldWritten` (`WriteBack` is a turn), and `Reinsert` for the last.  The loops, and the turns of `PostModify` through the
indices (`Refit` is one), are recursive functions of the number of turns.

### Reentrancy

`emplace` and `modify` are cut in two at the call of the client's constructor or
modifier; `calls` is the stack of operations that are running.  `emplace` has
taken its id before the constructor runs, `modify` has pushed its backup before
the modifier runs.  A callback may call both, for any row, also of operations that
are running, to any depth (`MaxCalls` bounds it for TLC): the code checks nothing.
The assertions of the code are not guards: they are what is in question.

### SharedCow, SharedCowString, ValueHandles

A handle is live when it is in the domain of `data`; `impl` holds the allocated
blocks with count, contents and the place they were allocated in.  Sizes are the
lengths of the contents, empty contents are the null pointer.  The count is an
integer modulo `RefLimit`; that it is 32 bits wide in the code matters only when
there are 2^32 handles, and `SharedCowAssumption` says that there are fewer.
`Home` is the allocator that `get_allocator` finds by the address of the handle.
Copies, moves and assignments between handles of different homes copy elements;
between handles of one home they share or steal the block.  `CowSpec`, in
`SharedCowString`, has handles of either class; the properties are stated about it.

### NodeAllocator

Addresses are counted in nodes, the segment hands out batches of `BatchSize` (64
in the code), and the links of the free list are in the free nodes (`_next`).
Requests for more than one node go to the segment and are left out.

### Database, AtomicStore

Each index is what `UndoTable` says of it, with its rows summed up as a version.
`segment` is persistent, everything else lives as long as the database object.
`add_index` has three actions: the index is in the segment and consistent with
the others; it is new and is brought up to their range; it is new and memory
runs out while its sessions are started (`AddNewFails`: it stays in the segment,
and every later `add_index` refuses it as long as it does not match).
`SetRevision` visits the indices in order up to the first that refuses.
A session object remembers which indices it undoes.  `push`, `squash` and `undo`
end it, in any order of the live objects: C++ destroys them in reverse order,
but they can be moved and kept in containers.

### MappedFile

* The **file** is a header (`absent`, `blank`: created but not formatted, `valid`), the
  dirty flag, a sequence of chunks (the unit of loading and saving,
  `_db_size_copy_increment`) and the size that the segment manager in the first
  chunk believes in.  `lock` is the owner of the record lock.  `mem` is the private
  or anonymous memory of a process; in shared mode a process has none.
* The **constructor** is one step per point at which another process or a crash can
  come in between, but for a look at the file and what follows at once (`exists` and
  the truncation, `file_size` and `resize_file` are one step each):
  `Check` (header and flag are read before the lock is taken),
  `Create` and `Format`, or `ResizeFile` and `GrowSegment`, then `TryLock`, which
  sets the flag, then the set-up of the mode, with one `LoadChunk` per chunk in
  heap mode.  A writer's `size` becomes that of the file; a reader's stays what it
  passed, 0 by default, and says how many chunks it loads in heap mode; one that asks
  for more than the file has dies of it.
  `FailSetup` is an exception in the last part: `reset_on_ctor_fail`
  clears the flag again, and the destructors of the members run (`Leave`).
* The **destructor** is `Close`, one `SaveChunk` per chunk, `ClearDirty`.  A chunk of
  zeros is not written.
* `Crash` ends a process anywhere; what it wrote to a shared mapping stays.
* `OpenAgain`: another object of the process opens and closes the same file, which
  gives up the record lock of the process.
* `held` is a history variable: the contents the last clean close left.

### InstanceTracker

`obj` maps addresses to objects; an object that was moved from stays there as
`Moved` until it is destroyed.  `unsaved` are the pages of an instance that differ
from its file, `soft` those the kernel has marked.  Opening a `mapped_private`
instance first saves all tracked instances, by their marks, and clears the marks of
the whole process, once.  `Saved` writes the marked pages of a tracked address and
all pages of any other.  A move leaves the addresses in the tracker as they are, and
the destructor of an object that was moved from leaves its address there: what the
next open finds under it has no region to save, so nothing is written (`OpenPrivate`),
or the process dies of it (`OpenAborts`: `assert(_writable)`, or memory that is gone).
`lost` is a history variable: what a close left stale.


## 3. The runs

Run them with `tlc -config <cfg> <module>`.  States are distinct states found
with the symmetry of the configuration.

| Run | Module, cfg | Checks | States |
|---|---|---|---|
| `undo_any` | `MCUndoIndex`, `UndoIndex_any.cfg` | `TypeOK`, `EndsPresent`, `StackOrdered`, `RangeExists`, `CurrentAlive`, `IndInv` | 616,744 |
| `undo_refines` | `MCUndoIndex`, `UndoIndex_refines.cfg` | `NodesAccounted`, `KeysUnique`, `RefInv`, `ImplementsTable` | 125,206 |
| `undo_refused` | `MCUndoIndexHistory`, `UndoIndex_history.cfg` | `UndoRestores`: violated | |
| `ordered` | `MCOrderedIndices`, `OrderedIndices.cfg` | `TreesSorted`, `VerdictRight` | 75,923 |
| `callbacks` | `MCReentrancy`, `Reentrancy.cfg` | `FrontIsBackup`: violated | |
| `cow` | `MCSharedCow`, `SharedCow.cfg` | `TypeOK`, `CountsExact`, `HomesMatch`, `ImplementsValues` | 648 |
| `node_allocator` | `NodeAllocator`, `NodeAllocator.cfg` | `NodesPartitioned`, `SizeExact` | 1,974 |
| `database` | `MCDatabase`, `Database.cfg` | `TypeOK`, `Lockstep`, `SessionsAtomic`, `ReadOnlyOpenUnchanged` | 36,738 |
| `database_readonly` | `MCDatabase`, `Database_readonly.cfg` | `ReadOnlyModeUnchanged`: violated | |
| `file_alone` | `MCMappedFile`, `MappedFile_alone.cfg` | `TypeOK`, `FlagTells`, `SegmentFits`, `OpenRestores` | 306,578 |
| `file_races` | `MCMappedFile`, `MappedFile_races.cfg` | `OneWriter`, `OthersOnlyGrow`, `CallsProgress`, `CallsEnd` | 189,383 |
| `tracker` | `InstanceTracker`, `InstanceTracker.cfg` | `TypeOK`, `PagesSaved` | 432,084 |

What they show, and why the bounds are enough:

* **undo_any**.  Pointers and order, for every client, also one that modifies an
  object again after a modification of it was refused (`RetryRefused = TRUE`).
  Two rows, two unique indices, two keys each, three sessions ever, revisions to
  2.  Three sessions let a session be squashed into one that was itself opened
  after an undone one, so that `_monotonic_revision` and `_revision` differ; two
  rows are what a conflict needs, and two unique indices let a row conflict in
  one and not in the other.  The constraint `NothingLeaked` ends a run when
  `undo` has left a node in neither the trees nor a list (the first
  disagreement below): what the code does after that is undefined.  `IndInv` is
  what section 5 proves, checked here too.
* **undo_refines**.  `undo_index` implements a table with full snapshots, three
  nested sessions deep, and neither loses nor duplicates nodes or keys, for a client
  that does not modify again what was refused (`RetryRefused = FALSE`).  Three nested
  sessions are the least number with a session below the one that is squashed
  into: it is the one whose backups a wrong `squash` destroys.
* **ordered**.  Three rows, two secondary indices with three keys each, one session.
  Three nodes are what a tree needs for a node with two neighbours, three keys let
  rows swap keys through the third one, so that `undo` passes through duplicates,
  and two indices let the first one accept and the second refuse.  `VerdictRight` is
  evaluated for every row and every new contents in every reachable state.  The
  constraint `FewListed` continues states with at most two elements in the lists:
  a swap takes two backups.
* **callbacks**.  Three nodes, three keys and calls three deep, of either kind in either
  kind: two rows are enough for a modifier of one to modify the other.  TLC finds the
  violation in ten states (the third disagreement of section 4).
* **cow**.  Two handles in each of two homes, contents of size 0, 1 and 2, five blocks
  for four handles, so that a block is always free to be allocated before the old
  one is dropped: all cases of sharing, stealing and copying within and across homes,
  and in-place writes of equal and of other sizes, of either class.
* **node_allocator**.  Batches of three: first, inner and last node of a batch
  differ.  Capacity seven: two batches fit and the third allocation of a batch
  fails.  It never stops, so deadlock is checked.
* **database**.  Two indices, three revisions, two live session objects, and
  programs that close the database, open it again in either mode and add other
  indices in another order.
* **file_alone**.  Two processes, all modes, files of one and two chunks, starting
  without a file: creation, growth by a later writer, readers of each kind, also with
  the default size, less and more than the file has, crashes at
  every step of each, constructors that fail, and a process that gives up its lock
  without knowing.  Processes run at the same time, but construct one at a time
  (`OneAtATime`), and nobody asks for a dirty file.  Two chunks are what a loop needs to
  be cut in the middle, and what a growth needs to be told apart from a creation.
* **file_races**.  Two processes that construct at the same time, step by step
  interleaved, starting without a file, with sizes of one and two chunks, and writers
  with and without `allow_dirty`: while one has the file open, the other one resizes it
  and grows its segment, and is then refused the lock.  Writers in private mode are left
  out (their steps are those of heap mode without the loading), and contents are zero
  or not zero, since what is checked is whether they change.  The fairness run;
  `CallsProgress` says the same of each step, without fairness.
* **tracker**.  Three addresses, two files, two pages, both kinds of mode, with and
  without support by the kernel: two open instances and one address to move to, and
  pages of which one is modified before the marks are cleared and one after.  Up to
  three addresses in the tracker (`MaxTracked`): a stale one, one that is used again,
  and a new one.

`CHECK_DEADLOCK FALSE` in the other configurations: bounds on ids, sessions,
revisions and nodes end a run where the program could go on, and a system of
processes may rest with nobody in a call.  The bounds are the constants `MaxId`,
`MaxSessions`, `MaxRevision`, `MaxVersion`, `MaxLive`, `MaxNodes`, `MaxCalls`,
`MaxTracked`, `RefLimit`, `Capacity`, and `MaxListed` of `MCOrderedIndices`.

**Liveness and fairness.**  Only `MappedFile` has something that must happen: a
constructor or destructor that began ends (`CallsEnd`).  `Fairness` is
`WF_vars(Continue(p))` for each process: a thread inside such a call keeps being
scheduled until the call returns or the process dies.  Nothing is assumed of the
client: it need not ever close what it opened.  So `CallsEnd` says that no step of the
constructor waits for another process, which is what `try_lock` is used for; with a
lock that waits (`TryLock_waits`) the property fails.  The other modules have no
scheduler and no queue, and state no fairness.


## 4. Disagreements between code and words

1. **A refused modification outlives its session's undo** (`undo_refused`).
   `on_modify` makes a backup and stamps `_mtime`.  When the new contents
   conflict, `modify` moves the backup back and pops it, but the stamp stays
   (`undo_index.hpp:385-391`, 769).  The next `modify` of the object in the same
   session finds `_mtime` recent, makes no backup, and `undo` cannot restore the
   object, although "undo will restore the state" (`test/undo_index.cpp:165`; the
   tests do not modify the object again).  It goes further when another row has taken
   the old key: `undo` relies on "Non-unique items are transient and are guaranteed
   to be fixed by the time we finish processing old_values"
   (`undo_index.hpp:596-597`), and two rows of a unique index share a key for good,
   or a removed node cannot be inserted again and is then in no tree and no list.
2. **Read-only mode and session objects** (`database_readonly`).  "When
   `_read_only_mode` is set to true, an exception is thrown when modification
   attempt is made on chainbase" (`chainbase.hpp:553-556`).  A session object that
   was started before `set_read_only_mode()` undoes or squashes in read-only mode
   without an exception.  A file that is *opened* for reading only is safe
   (`ReadOnlyOpenUnchanged`): it has no way out of the mode and no session object
   can be started.

3. **A modifier that modifies another row** (`callbacks`).  When a modification is
   refused and made a backup, the code asserts "backup == &_old_values.front()"
   (`undo_index.hpp:390`) and pops the front.  If the modifier has modified another row,
   for the first time in this session, that row's backup is the front: the assertion
   fails, and where assertions are compiled out the wrong backup is popped, so that
   `undo` does not restore the other row.  Nothing says that a modifier must not do
   that.  `emplace` has the like: it reads `_next_id`, runs the constructor, and appends
   the row to the first index without a search, because "we know that it will
   definitely insert at the end" (366); a constructor that creates a row of the same
   index has taken the same id.  `ReentrancyProofs` shows that nesting an operation in
   one of its kind is the only way to either.

Other limits of the code that the models show, and that no document speaks about.
Each is where an assumption of section 6 comes from:

* A process that crashes while it saves in heap or private mode leaves a file with
  chunks of before and after; its flag is still set, so nobody takes it for complete.
* A chunk of zeros is not written (`pinnable_mapped_file.cpp:414`): where the file held
  other bytes there, it keeps them.  `FlagTells` and `OpenRestores` say so (`Holds`).
* A file that is opened for reading in heap mode "is copied at startup"
  (`pinnable_mapped_file.hpp:55`), but only up to the size that was passed
  (`pinnable_mapped_file.cpp:361-366`): with the default size 0 (`chainbase.hpp:256`),
  nothing is.  `OpenRestores` says so (`Loaded`).
* The file is created, resized and grown before the lock is taken (129-157): a process that
  will be refused makes the file and the segment of the writer larger, under its
  running segment manager (`OthersOnlyGrow` says that it does no more), and two that find
  no file at the same time may format it one after the other.
* A second object of the same process on the same file gives up the record lock of the
  first one when it is closed (169-170); with `allow_dirty` another process can then
  become a second writer.
* A constructor that fails after the lock was taken clears the flag (182), also of a file
  that was dirty and opened with `allow_dirty`.
* An instance that was moved from stays tracked under its old address (264, 276), and
  the one that it was moved to is not: it saves all pages, which is right.  An instance
  in heap mode that is moved to a tracked address is saved by marks that do not
  cover it, and may lose pages (409, 442-456): the exception in `PagesSaved`.
* When an instance that was moved from is destroyed its address stays in the tracker
  (459), and the next open of a private instance uses it (261-265).
* The marks are cleared by the first call only (`pagemap_accessor.hpp:37`); opening a second
  private instance saves the first one, so its file changes while it is open.


## 5. The proofs

All proofs hold for every value of the constants, under the named assumptions of the
modules (`UndoIndexAssumption`, ...: bounds are naturals, switches are Booleans,
special values are distinct) and, where the table says so, under a switch that
stands for a contract with the client.

| Theorem | States | When |
|---|---|---|
| `UndoIndexProofs`: `Invariance`, `TypeCorrect`, `EndsNeverDangle`, `StackAlwaysOrdered`, `RangeAlwaysExists`, `BackupsStayAlive` | `IndInv` and its parts | always |
| `UndoIndexProofs`: `BackupsStayExact`, `NodesAlwaysAccounted`, `KeysAlwaysUnique` | `RefInv`, `NodesAccounted`, `KeysUnique` | `RetryRefused = FALSE` |
| `UndoIndexProofs`: `UndoIndexImplementsTable` | `Spec => ImplementsTable` | `RetryRefused = FALSE` |
| `UndoIndexProofs`: `UndoAlwaysRestores` | `HSpec => UndoRestores` | `RetryRefused = FALSE` |
| `OrderedIndicesProofs`: `TreesStayGood`, `TreesAlwaysSorted`, `VerdictAlwaysRight` | `OrdInv`, `TreesSorted`, `VerdictRight` | `RetryRefused = FALSE` |
| `OrderedIndicesProofs`: `TreesImplementTable` | `OrdSpec => Spec`, and `OrdSpec => ImplementsTable` | the first always, the second `RetryRefused = FALSE` |
| `ReentrancyProofs`: `OnlyNestedEmplaceUnsorts` | `SortedById` | behaviours in which no `emplace` runs within an `emplace` |
| `ReentrancyProofs`: `OnlyNestedModifyMixes` | `FrontIsBackup` | behaviours in which no `modify` runs within a `modify` |
| `SharedCowProofs`: `CowTypeCorrect`, `CowCountsExact`, `CowHomesMatch` | the invariants of both classes | always |
| `SharedCowProofs`: `CowImplementsValues` | `CowSpec => ImplementsValues` | always |
| `NodeAllocatorProofs`: `AlwaysFreeList`, `NodesAlwaysPartitioned`, `SizeAlwaysExact` | `AllocInv`, `NodesPartitioned`, `SizeExact` | always |
| `DatabaseProofs`: `DatabaseTypeCorrect`, `ReadOnlyNeverWrites` | `TypeOK`, `ReadOnlyOpenUnchanged` | always |
| `DatabaseProofs`: `ReadOnlyModeKept` | `ReadOnlyModeUnchanged` | no session object lives in read-only mode |
| `DatabaseProofs`: `AlwaysLockstep` | `Lockstep` | `AddDuringSession = FALSE` |
| `DatabaseProofs`: `SessionsAreAtomic` | `Spec => SessionsAtomic` | `AddDuringSession = FALSE` |
| `MappedFileProofs`: `FileTypeCorrect` | `TypeOK` | always |
| `MappedFileProofs`: `OneWriterOnly` | `OneWriter` | `~SecondOpen` |
| `MappedFileProofs`: `OthersJustGrow` | `OthersOnlyGrow` | `~SecondOpen` |
| `MappedFileProofs`: `FlagAlwaysTells`, `OpensRestore` | `FlagTells`, `OpenRestores` | `OneAtATime`, nobody asks for a dirty file |
| `MappedFileProofs`: `SegmentAlwaysFits` | `SegmentFits` | `OneAtATime` |
| `MappedFileProofs`: `CallsAlwaysProgress` | `CallsProgress` | always |
| `InstanceTrackerProofs`: `TrackerTypeCorrect`, `PagesAlwaysSaved` | `TypeOK`, `PagesSaved` | always |

**UndoIndexProofs**, the inductive invariant.  None of the safety properties is inductive on its own.  The
hardest is `CurrentAlive`: nodes are destroyed by `remove`, `undo`, `squash`,
`last_undo_session` and `commit` while backups of them may exist, so one has to
know, for each of these, why no backup that still counts is left.  `IndInv` adds
what that takes:

* `HeightBounds`: a pushed element goes to a position above all others, so a
  pointer taken before never reaches it.
* `RemovedOnce`: a node is in `_removed_values` once and then not in the table,
  so disposing of an element destroys a node that nothing else holds.
* `RemovedBefore`: a row that was removed before a session began was older than
  the session, and has no backup in the session's region.  This is why `commit`
  may destroy removed nodes behind the oldest remaining session: the backups it
  keeps are of other rows.
* `NewIsRecent`: a row that a session created, and every backup of it, has an
  `_mtime` of that session or later.  This is why `remove` may destroy a new row
  at once (the test is on the id, `BackedUp` and `undo` test `_mtime`), and why
  `undo` and `squash`, which destroy rows by id, leave no backup of them that
  passes the test by `_mtime`.
* `BackupsPast`: no backup is from the future, so a session that starts finds all
  older ones older than its ctime.

Each action has a lemma (`EmplaceStep`, `ModifyStep`, ..., `UndoStep`), named for
it, with one step per conjunct of `IndInv`; what several need is stated before
them.  `CompressStep` serves both `squash`, which compresses towards the session
below, and `last_undo_session`, which compresses towards the session itself.

**UndoIndexProofs**, the refinement.  The rows that `undo` would give back for session s
are `RowsAtStart(s)`, and each operation has to keep them for every open session
(`Kept`), or drop the session.  That a backup which disappears was not the one that
counts is `OldestPredates`: an older one of the same row, from before the session
changed it, lies further back in the region.  `RegionAlone` and `RegionCut` say that
an operation on the newest region leaves the regions of older sessions as they are, or
cuts them where the reconstruction does not look.  `undo` is the hard step: that all
removed rows can be inserted again (`AllReinserted`) follows from the unique keys of
the snapshot that it restores, which is why `RefInv` states them of *all* snapshots;
the recursion in `Reinserted` is met only there, by its fixed-point equation.  Each
operation then has a lemma that maps it to a step of `UndoTable` or a stutter
(`EmplaceTable`, ..., `CommitSomeTable`).  `RetryRefused = FALSE` is used once, in
`BackedWhenStamped`: a row that looks modified has a backup.

`UndoAlwaysRestores` is the property that the run `undo_refused` violates, with that
client excluded: `RowsRecorded` (what was recorded at the start of each session is its
snapshot) follows step by step from the refinement.  So the second modification of what
was refused is the only way to the first disagreement of section 4.

**OrderedIndicesProofs.**  `TreesInv` (`GoodTrees` of the trees, the table and the rows):
each tree is a sequence of distinct nodes, all of the rows, in the order of its keys;
that the order is strict is `KeysUnique`.  The work is in the states in between.

* `OrderedBut`: after a modifier wrote new contents a tree is in order but for one node.
  `RefitFacts`: in such a tree the look at the two neighbours tells whether the node is
  in order, and taking it out and inserting it again puts it in order, or says which
  index refuses.  A refused node stands next to the one it conflicts with
  (`PostModifyFacts`: `Refitted` in the indices up to that one, as the modifier left
  it in those behind).
* `SameOrder`: two sorted lists of the same nodes with the same keys are equal, so that
  putting the old contents back gives back *the same* trees (`VerdictRight`).
* `undo`: rows that are written back one by one pass through duplicate keys.  Each loop
  has an invariant: the trees hold the rows that are there by then, in the weak order of
  the contents written so far (`NewErasedFacts`, `OldWrittenFacts`, `TreesUndoneFacts`).
  After the second loop these are the contents of the snapshot, whose keys are unique
  by `RefInv`: so no insert of the last loop is refused, although nobody looks, and the
  order is strict at the end.  Here `RetryRefused = FALSE` comes in.

A loop is a recursive function `after`, which the prover knows as a `CHOOSE` only:
`LoopExists` gives a function that solves its equation, so `after` does (`LoopRuns`),
and `LoopInvariant` carries a property through it from a least counterexample
(naturals are well-founded).  No induction over data is needed.

**NodeAllocatorProofs.**  `AllocInv` says that there *is* a sequence (`IsFreeList`) of
distinct nodes, `_freelist_size` long, that begins at `_freelist`, follows `_next`,
ends with 0 and holds just the nodes that are not in use.  `allocate` drops its first
element, `deallocate` adds one in front, `get_some` makes a new one of the batch.  That
`Nth`, which follows the links, walks along this sequence (`NthFacts`) is again the
fixed-point equation of a recursive function and a least counterexample; that the
sequence is not longer than the segment (`ListBounded`) is counting.

**SharedCowProofs.**  All operations are compositions of a few steps on the pair of the
handles and the blocks: let go of a block, take none, take a new one, take part in
one, take over one, write to an own one.  For each there is a lemma that it keeps
counts (cardinalities of the sets of holders), types and homes, and one that says
what it does to the value of each handle.

**DatabaseProofs.**  The range of revisions of a table after an
operation is a function of the range before, so what is in lockstep stays so; the
rest is that every session object undoes exactly the added indices
(`SessionsCover`), and that `set_revision` is refused by all indices or by none
(`RefuseTogether`).  For the refinement, all stacks have the depth of the first
one's (`InLockstep`), and each operation takes the same elements from each of them
(`SubSnapshots`).  `ReadOnlyModeKept` is about the second disagreement of section 4: of all
steps in read-only mode only the undo of a session object changes rows.

**MappedFileProofs.**  `OneWriter` rests on `WriterLocks` (who writes holds the lock).
`FlagTells` needs to know at each step of a save how much of the memory is in the file
(`Progress`), that one process at a time is between its first look at the file and
its last write (`Serial`), and that the flag is set as long as there may be a
difference (`Flags`).  `SegmentFits` needs that each private copy fits too, also
behind a growth that is under way, because a save writes its segment size back.
`OthersOnlyGrow` needs that who is past the lock holds it (`WriterLocks`), that its file is
there, so that nobody creates it again (`Settled`), and which steps are left to others.
`CallsProgress` rests on the bounds of the offsets (`Sizes`): it
is what `CallsEnd` needs besides fairness, for all sizes and numbers of processes.

**InstanceTrackerProofs.**  `MarksTell`: of an instance in private mode every unsaved page
is marked, because the marks are cleared only before there is one.  That belongs to the
instance and goes with it when it is moved, so its close saves all, by the marks at a
tracked address and without them at any other.

**ReentrancyProofs.**  With no `emplace` within an `emplace` the id that one took is still
the next one when it ends, whatever else has run inside (`EmplaceKnows`); with no `modify`
within a `modify` the front of the backups is that of the one that runs (`ModifyKnows`).
Both theorems are implications between temporal formulas: the condition is on the behaviour, not a
guard of the model.

**Only model-checked**: `CallsEnd`, because the prover has neither ENABLED nor the rules
for fairness.  `CallsProgress` is the part of it that can be proved.  The disagreements
of section 4 are counterexamples, found by TLC; what is proved is that there is no other
way to them (`UndoAlwaysRestores`, `ReadOnlyModeKept`, `OnlyNestedModifyMixes`).


## 6. Assumptions and limits

Assumed of the client, each a guard or a constant of the model:

* `RetryRefused = FALSE` (`undo_refines`, `ordered`, and where section 5 says so): a client does
  not modify again, in an open session, an object whose modification was refused
  there.  `undo_any`, and `IndInv` in section 5, do without.
* `AddDuringSession = FALSE`: indices are added while no session object lives.
  With TRUE, the destructor of a session leaves an index that was added since it
  began one session behind, and `Lockstep` fails.  No document of the repository
  says either way; the tests add indices first.
* In `callbacks` a callback writes its own object after the calls it makes and catches what
  they throw; constructors and modifiers do not change the id (the code asserts it).
  A history ends where an inner call has removed the row that is being modified.
* `OneAtATime` (`file_alone`): two processes do not construct at the same time.  Header
  and flag are read, and the file is created and grown, before the lock is taken:
  a process that passed the check may open a file that another one has opened, written
  and left dirty since, and two that grow the file tell the segment manager twice.
  Processes that have the file open already are not restricted.  `file_races` and
  `OthersJustGrow` do without.
* `SecondOpen = FALSE` (`file_races`): a process does not open the file that it has open; a
  record lock belongs to the process, so it would give it up.  `file_alone` does without.
* Nobody asks for a dirty file in `file_alone` (`allow_dirty`, which `file_races` has): such a client is told by
  the option that contents may be incomplete, and clears the flag of the file when it
  closes it or fails to open it.
* Processes crash; the operating system does not (README, section Persistence), so
  flushing is left out.
* Elements of a `shared_cow_vector` are constructed and copied without exceptions (one in
  the middle leaves a block whose destructor runs over elements that were never
  constructed, `shared_cow_vector.hpp:160`), and an argument of `emplace_back` is not an
  element of the same vector.  `resize_and_fill` is called with a size that is not zero.
* Integers: revisions and ids are bounded far below 2^64; `commit` takes a signed
  revision, and `Unsigned` models what a negative one becomes.

Assumed of the allocator: an allocation that fails throws and changes nothing.  In
`undo_index` that is the order of the code (allocation comes first in
`emplace_impl` and `on_modify`); it is a separate action where it matters
(`AddNewFails`, `FailSetup`).

Not modelled:

* the balancing of the trees; iteration, lookup and `project`; `validate` (sizes of
  types), row counts and names of types; the wording of exceptions; printing and parsing
  of the map mode; the deltas that `last_undo_session` shows (it is modelled for what
  it changes);
* of `pinnable_mapped_file`: the lookup in `_segment_manager_map` (the constant `Home` of
  `SharedCow` is its result) and `check_memory_and_flush_if_needed`, whose body is not
  compiled;
* `environment`: a constant record that is compared when a file is opened;
* `read_write_mutex_manager`: nothing in the repository uses it, so a model would invent
  the threads that hold its mutexes;
* `scope_exit` and `scope_fail`: they have no behaviour of their own and are part of the
  actions of the code that uses them.


## 7. The plan

Every safety property of a passing run is a theorem; `CallsEnd` is the one property that is
not.  What is left:

1. A composition of `Database` with `MappedFile`, so that a crash ends the sessions of the
   database as well; today the segment of `Database` is persistent and closes cleanly,
   and the chunks of `MappedFile` have no structure but the segment size.
2. `OneAtATime` weakened to processes whose constructions overlap without growing the
   file, for `FlagTells`.
