# TLA+ models of Clasp

Clasp is a Common Lisp with native threads, written in C++ (`src/include`,
`src/src`) and Lisp (`src/src/lisp`).  This project models the parts of its
runtime whose correctness depends on what several threads do at once, or on
long sequences of calls that few tests go through; it checks them with TLC on
small instances and proves the most important results with TLAPS.  All of it is
written from the source; the file `PROJECT.json` names for every definition the
lines it stands for.

## 1. The system and its hard parts

| component | state | operations | what is hard | what makes it correct |
|---|---|---|---|---|
| `mp::SharedMutex` (`sf::contention_free_shared_mutex`, `mpPackage.fwd.h`), guards packages, the list of processes, source files, signal handlers, code blocks, the JIT | `want_x_lock`, `owner_thread_id`, `recursive_xlock_count`, one slot per registered thread | `lock_shared`, `unlock_shared`, `lock`, `unlock`, registration and exit of threads | two flags that cross, slots that are reused, threads without a slot, nested holds | exclusion; each hold is given back where it was counted; writers are served; nobody waits for itself |
| `mp::UpgradableSharedMutex` (`mpPackage.fwd.h`), behind `mp:make-shared-mutex` and thread-safe hash tables | `mReaders`, `mReadsBlocked`, two mutexes | `readLock`, `readUnlock`, `writeLock`, `writeTryLock`, `writeUnlock`, with and without upgrade | a writer that keeps its shared hold, two upgraders, a release that gives back two holds | exclusion; `mReaders` is the number of shared holds; writers and held off readers are served |
| `mp:lock`, `mp:condition-variable` (`mpPackage.h`) | pthread mutex, `_Counter`, `_Owner`, condition variable | `get-lock`, `giveup-lock`, wait, timed wait, signal, broadcast | the owner and the count are kept beside the mutex and not by it | exclusion; the last hold wipes the owner; the owner is who holds the lock |
| `core::queue` (`queue.lisp`) | a list with head and tail, a lock, a condition variable | enqueue, dequeue, dequeue with a timeout, count | wakeups that are lost, stolen, spurious or late | a FIFO queue; no message is lost; nobody sleeps beside a message |
| `mp:process` (`mpPackage.cc`, `lisp.cc`, `interrupt.cc`) | phase, list of active threads, interrupt queue, values, suspension mutex and condition variable | start, suspend, resume, kill, join, exit, abort | phases read without a lock and used after it, interrupts handled wherever the thread allocates, the end of a thread racing calls about it | the phases proceed as documented; join gives what the function ended with; a resumed process goes on |
| hash tables (`hashTable.cc`) | vector of keys and values with marks for removed entries, count, lock | gethash, setf gethash, remhash, clrhash, hash-table-count, maphash, rehash | probes past removed entries, a full table, a rehash that starts another, a rehash under maphash | a search finds a key, in one place, with the value last stored; there is room for another key; maphash calls its function once for a key that stays |
| packages (`package.cc`, restarts in `conditions.lisp`) | two symbol tables, use lists in both directions, shadowing list, home packages | intern, unintern, import, export, unexport, shadow, use, unuse, delete | one call changes several packages; name conflicts are resolved by restarts, and the call starts over | a name means at most one symbol, and keeps its meaning; the use lists agree; a symbol is in its home package |
| unwinder (`unwind.cc`, `unwind.h`) | C++ stack, stack of dynamic environments, destination, exceptions in flight | block, tagbody, catch, unwind-protect, special bindings; return-from, go, throw | two unwinders on one stack, exits from cleanups, an exit interrupted by another | each cleanup runs once, in the environment around it; the bindings are those of the destination; an exit arrives where it went |
| generic function dispatch (`closfastgf.lisp`) | call history, discriminating function, specializer profile | miss, extend history, invalidate | compare-and-swap loops against method definition | a dispatch never uses a method list older than the last definition |
| external processes (`process.lisp`) | status, pid, lock, pipe | wait, status, terminate | a try-lock on `mp:lock` | the pid is waited for once |
| binding indices of special variables (`threadlocal.cc`) | pool of free indices | take, give back, grow | one pool for all threads | an index belongs to one symbol |

Not modelled and not planned: the garbage collectors and their hooks (Boehm,
MPS and MMTk are external), the bytecode compiler and virtual machine and the
Cleavir/LLVM compiler (translations of unbounded programs), reader, printer,
numbers and streams (sequential, covered by unit tests), the FASL loader and
snapshots (heap layout), `clbind`, the FFI, the scraper and the build system
(templates and generated code).

Threads interact through the locks above; a process is interrupted by a queue
that its own thread polls wherever it allocates, which includes the inside of
critical sections.  `PROJECT.json` lists the hazards one by one with their lines.

## 2. The modules

| module | what it is |
|---|---|
| `RWLock` | what a reader/writer lock promises: shared and exclusive holds of each thread, counted |
| `ContentionFreeSharedMutex` | `sf::contention_free_shared_mutex`, one step per access to a shared variable; implements `RWLock` |
| `ContentionFreeSharedMutex_proofs` | type correctness, inductive invariant, exclusion, refinement; what waits for what |
| `UpgradableSharedMutex` | `mp::UpgradableSharedMutex`, one step per critical section; implements `RWLock` |
| `UpgradableSharedMutex_proofs` | type correctness, inductive invariant, exclusion, refinement; what waits for what |
| `MpMutex` | `Mutex`, `Mutex_O`, `ConditionVariable_O`: the steps of the calls, for clients to compose |
| `FifoQueue` | what a queue promises: messages come out once and in order |
| `MessageQueue` | `core::queue` over `MpMutex`; implements `FifoQueue` |
| `MessageQueue_proofs` | type correctness, exclusion, the count of holds, the linked list, refinement, wakeups |
| `Process` | a process, its thread and the clients that call for it |
| `Process_proofs` | type correctness, the list of active threads, suspension and resume, phases, join |
| `Dictionary` | what a hash table promises: a function from keys to values |
| `HashTable` | `core::HashTable_O`: probing, marks, rehashes and maphash; implements `Dictionary` |
| `HashTable_proofs` | type correctness, the probe invariant, maphash, refinement; searches and the progress of a rehash |
| `Package` | `core::Package_O`: which symbol a name means, and the conflicts of export and use-package |
| `Package_proofs` | type correctness, agreement of the use lists, consistency of names; the rounds of conflict resolution |
| `DynamicExtent` | what a non-local exit promises |
| `Unwind` | the unwinder by longjmp and the one by C++ exceptions, on one stack; implements `DynamicExtent` |
| `Unwind_proofs` | type correctness, environments and frames; bindings, destinations and progress of exits |
| `Unwind_refinement` | `Unwind` implements `DynamicExtent` |
| `MC*` | instances for TLC |

### How state and steps correspond to the code

* `pc` is the place of a thread in its call, `"rest"` outside of one.  A step
  ends where the code touches something another thread may see.
* `sheld` and `xheld` are the holds a thread's calls add up to.  They are not in
  the code: they are what the abstract lock talks about, and the invariants
  relate them to the counters of the code.
* Definitions marked `Faulty` are not part of a specification.  Each is a
  definition with a plausible bug, put in its place to see that a property
  notices.

**ContentionFreeSharedMutex.**  `want`, `owner`, `xcount`, `slot` and `index`
are `want_x_lock`, `owner_thread_id`, `recursive_xlock_count`,
`shared_locks_array` and the thread's entry of `thread_local_index_hashmap`.
`LockShared` registers; `Announce` raises the slot; `Check`, `Retreat` and
`Spin` are the loop of `lock_shared`; `ClaimShared` and `OwnShared` are its
branch for a thread without a slot; `Claim`, `Own`, `ScanSlot` and `EndScan`
are `lock`; `GiveUpCount` and `Drop` are the two stores of an unlock;
`ExitThread` is the destructor of the thread's registration.  `want_x_lock` and the
slots are accessed with sequentially consistent order where it decides, so that
interleaving is what the code allows.  `Nesting` says which nested calls the
clients make.  A thread that holds shared never locks exclusively: the comment
of the class excludes it and `lock` asserts it.

**UpgradableSharedMutex.**  `mReadMutex` only guards short critical sections,
each of which is one step; `mWriteMutex` is kept (`wmutex`).  `Discipline` says
what the callers combine: nested shared holds, an upgrade by `write-lock`, an
upgrade by `write-try-lock` in a loop that keeps the shared hold
(`rehash_upgrade_write_lock`) or gives it up when it is denied.

**MpMutex, MessageQueue.**  `get-lock` waits for the pthread mutex and counts
the hold (`LockMutex`), and writes the owner (`TakeOwnership`);
`giveup-lock` reads the count and writes the owner and the count (`Disown`),
and unlocks (`UnlockMutex`).  The condition variable gives the pthread mutex up
and takes it back without either (`CondWait`, `CondReturn`).  A sleeper wakes up on a
signal, after its time or for no reason.  `dequeue-timed` ignores its time and
is `dequeue`.  `queue-emptyp` reads one variable and is left out.

**Process.**  `pc` is the thread of the process, `call` the place of each
client in its call.  `Find` to `Remove` are `start_thread_inner`; `Handle`
takes one interrupt off the queue, at the places where the thread runs Lisp or
allocates; `EnterLoop` to `Return` are `suspend_loop`; `Start`, `Add`,
`Activate`, `Create` are `mp:process-start` (and `mp:process-run-function`,
whose process nobody else knows yet); `Suspend`, `Kill` and `Queue` are an
interrupt, whose first part reads the phase and whose second part uses
`_ThreadInfo`; `Resume` and `SetActive` are `mp:process-resume`; `Join`,
`PthreadJoin`, `ThreadOver` and `ReadResult` are `mp:process-join`.  `ExitProcess` thrown
outside of the call of the function ends the program (`crashed`), and
so may the calls whose behaviour is undefined: an interrupt for a thread that is
not there, a second `pthread_join`.  `outcome` is not in the code: it records
how the function ended, for the properties.

**HashTable.**  `slot` and `value` are the keys and the values of `_Table`,
`size` its length, `count` is `_HashTableCount`.  A call takes the mutex of the table
and is one step (`SetfGethash`, `Gethash`, `Remhash`, ...), unless it starts a
rehash: then `moving` has the old vector and how far `rehash_no_lock` has read
it, `MoveEntry`, `SkipEntry` and `EndRehash` are its loop, and no other call
starts before the end (`Unlocked`), as the write lock is held.  Since storing
an entry may start another rehash, `moving` is a stack.  `iter` is
the loop of each maphash (`HASH_TABLE_ITER`): it keeps the vector it began with,
and the lock is taken for each entry, so that anything may happen between two of
them.  `clrhash` empties the vector before it takes the lock; its guard says that the callers
keep everybody out.  `visits` and `stayed` are not in the code.  A probe is a set
of entries (`Way`) instead of a loop.

**Package.**  `internal` and `external` are the two tables of a package, for each
name a symbol or none; `uses` and `usedBy` are `_UsingPackages` and
`_PackagesUsedBy`; `home` is the home package of the symbol.  Every
operation is one step, where it has no conflict to resolve.
`export` and `use-package` with conflicts become `call`, which is a list of conflicts
(`left`); the Lisp side resolves one after the other, `KeepOld` and `TakeNew` being the
restarts and `Fail` the assertion of `accessibility-conflict`; then the call
starts over (`StartOver`), and a handler may leave it at any time (`Abort`).
No other operation runs between: the model is of one thread.
`unexport` does not compare its symbol with the external one of that name, which it
removes.  `UnexportsAny` says whether programs use that: if it is FALSE they unexport only
symbols that are external, if it is TRUE `Unexport` is enabled for any symbol, as in the code.

**Unwind.**  `frames` is the C++ stack, of which only the frames that establish
a dynamic environment are kept; a frame is named by its place.  `dynEnvStack` is the
thread's stack of environments, `cell` the special variable, by the frame that
bound it last.  `Enter`, `Return` and the `End...` steps are the frames' functions
while code runs; `UnwindTo` and `Throw` search (`sjlj_unwind_search`,
`sjlj_throw_search`) and choose between the two unwinders: `WalkOn`, `JumpToCleanup`
and `Jump` are `sjlj_unwind_proceed`, `PassFrame`, `CatchAll` and `Catch` are the
C++ exception on its way through destructors and catch clauses.  `caught` is the C++
runtime's stack of caught exceptions, which `throw;` reads: a longjmp out of a catch block
leaves its exception on it (`StillCaught` forgets it where no catch block is left that could
throw it).  `Abandons` says whether programs do this with one catch block inside another: if it is
FALSE, `Proceed` is enabled only for a longjmp that leaves a catch block only if there
is no other (`KeepsCatches`), if it is TRUE for any, as in the code.

## 3. The runs

| run | instance | shows |
|---|---|---|
| `contention_free` | 3 threads and 2 slots, so that one of them shares without a slot; up to 2 holds; shared in shared and exclusive in exclusive (`SafeNesting`) | `Inv` (the counts agree with the holds), `Exclusion`, `NeverWaitsForItself`, `ImplementsRWLock`; `WriterProgress`, `WantComesDown` |
| `contention_free_nesting` | the same, with shared in exclusive allowed too | `NeverWaitsForItself` fails: `lock_shared` does not ask who owns `want_x_lock`.  The same happens for shared in shared when the outer hold had no slot and a slot has become free (`S_in_fallback_S`) |
| `upgradable` | 3 threads, 2 readers at most, 1 hold, upgraders back off (`RetryThenBackOff`) | `Inv`, `Exclusion`, `ImplementsRWLock`, `WriterProgress`, `ReadsUnblocked`; upgraders that never back off are in the next run only |
| `upgradable_retry` | 2 threads, upgraders retry with their shared hold (`RetryForever`) | `UpgraderProgress` fails: the loop the comment of the class recommends hangs |
| `message_queue` | 3 threads that all enqueue and dequeue, 2 messages | `Exclusion`, `CounterInv`, `ListInv` (the two ends of the list, and where every message is), `ImplementsFifo`, `NoLostWakeUp` |
| `process` | 1 process, its maker who joins it, a client that suspends, kills and resumes, a client that suspends; 2 queued interrupts | `Listed`, `SuspendedIsStill`, `JoinSeesOutcome`, `PhaseSteps`, `ResumedGoesOn` |
| `process_exited` | two clients resume | `PhaseSteps` fails: an exited process becomes active |
| `hash_table` | 2 keys with one home, 2 values, 1 maphash; a table of 2 entries that grows by 1 when more than half full | `TableInv` (one place, reachable, counted, room), `MaphashOnce`, `ImplementsDictionary`, `RehashEnds` |
| `package` | 3 packages, 1 name, 2 symbols; two packages may use each other and the third, which is locked; only external symbols are unexported (`UnexportsAny` is FALSE) | `UsesMirror`, `Unambiguous`, `SymbolsPresent`, `MeaningKept`, `CallEnds` |
| `package_unexport` | the same, with any symbol unexported (`UnexportsAny` is TRUE) | `InheritedNotShadowing` fails: an external, shadowing symbol is displaced by another one of its name, stays in `_Shadowing`, and is inherited later |
| `unwind` | stacks of up to 5 frames, 2 tags; no longjmp leaves one catch block inside another (`Abandons` is FALSE) | `EnvMirrorsFrames`, `ImplementsDynamicExtent`, `ExitEnds` |
| `unwind_rethrow` | the same, with any longjmp (`Abandons` is TRUE) | `RethrowsCaught` fails: an exit to a block is caught by a protect, whose cleanup exits to a second block through another protect, whose cleanup longjmps there; the `throw;` of the first protect then throws the exit to the second block, which is over |

**What two of these leave out.**  `package` and `unwind` are about programs that keep a rule
the code does not enforce.  Of other programs, `Unambiguous`, `SymbolsPresent` and
`MeaningKept` are false, and so is the part of `TypeOK` that the home of a symbol is a package that is
alive; `ImplementsDynamicExtent` and `ExitEnds` are false.  The runs `package_unexport` and
`unwind_rethrow` show why, and what is proved without the rule is said in section 4.

**Bounds.**  `ContentionFreeSharedMutex`: the proofs are for any number of
threads, slots and holds; the run needs a thread that finds no slot, a slot
that changes hands, and a hold inside a hold, which
three threads, two slots and `MaxDepth = 2` give.  `UpgradableSharedMutex`: three threads
for a writer, a reader and an upgrader, and two readers at most so that the limit is
met.  `MessageQueue`: with three threads a consumer can lose the message it was
woken up for; two messages make the list empty, one long and two long.
`Process`: processes meet only in the list of the active threads, so one is
enough; two clients besides the maker for two interrupts in any order or two
resumers.
`HashTable`: two keys that collide give every order of a probe, past the end of the vector
too; growing by one entry makes a rehash start another, which in the code needs a
small `:rehash-size`; maphash shows its hazards with one loop, as loops do not see each other.  The
proofs are for any table.  `Package`: a conflict has a package that is used, one
that uses it and one with another symbol of the name; names do not meet except in the
conflicts of one call, which are resolved independently, so one is enough for the run
and the proofs are for any number.  `Unwind`: an exit interrupted by a cleanup
with an exit of its own needs a destination, a cleanup and a second destination
within it; five frames leave room for a binding and an unknown frame between.

**Deadlock** is checked in all passing runs except `message_queue`: a
queue nobody enqueues into any more, with consumers that wait, is a
stop the program may come to.  In `unwind_rethrow` an exception may run off the
stack, which ends the program.

**Fairness.**  A thread inside a call keeps running (weak fairness of its steps):
the operating system schedules it.  `ContentionFreeSharedMutex` and
`UpgradableSharedMutex`: the holds are released by guard objects and
`unwind-protect` forms, so that a thread that again and again could release at
last does (strong fairness of the release).  Nobody is forced to make a call.  No
fairness is assumed for spinning against each other: a reader that retries may
starve.  `MessageQueue`: strong fairness of getting the pthread mutex, which
is what a fair scheduler gives and POSIX leaves open; a timeout expires.
`Process`: the loop of a suspended thread and the client's calls are scheduled; nothing
says that a function ends, polls its interrupts, or that anybody resumes it.
`HashTable`: a rehash goes on, as it waits for nobody.  `Package`: a user who is asked
chooses a restart.  `Unwind`: an exit on its way goes on; nothing says that a cleanup returns.

## 4. The proofs

**The mutexes.**  Both proof modules go the same way.

1. `IInv` is `TypeOK /\ Inv`.  `Exclusion` alone is not inductive: that a reader is
   out when the writer has passed its slot follows only from what the counters
   count and who stands behind the flags.
2. For `ContentionFreeSharedMutex`, `Inv` says: at most one thread stands behind
   `want_x_lock`, and the flag is up exactly then (`WantInv`); a slot belongs to
   one thread (`SlotOwnership`) and counts its holds and the one it is trying to
   get (`SlotCount`); a thread without a slot is counted in
   `recursive_xlock_count`, and one that finds a slot while it is counted there
   never gets past the flag (`FallbackInv`); a writer that has passed a slot
   has seen its thread out (`ScanInv`).
3. For `UpgradableSharedMutex`: `mReaders` is the cardinality of the set of
   shared holds (`ReadersCounted`), `mWriteMutex` is held from the wait to the
   release (`WriteMutexInv`), readers are blocked exactly while a writer
   waits or has the lock (`BlockInv`), a writer waits for its own hold and no other
   (`WaitInv`), and a writer is alone (`AloneInv`).  The lemmas `AddHold`,
   `DropHold`, `NoHold` and `OneHold` are about the cardinality of the
   set of holds.
4. One lemma per action shows that the step preserves `IInv`; `Invariance` puts them
   together; `TypeCorrect`, `HoldsAreCounted` and `MutualExclusion` follow.
5. `Refinement` shows that each step under `IInv` is a step of `RWLock` or leaves
   the holds alone.  `TheLockExcludes` is about `RWLock` itself: what it
   grants keeps any two threads apart when one has the lock alone.
6. Waiting depends on the callers.  `NestInv`, for nestings within `SafeNesting`
   (shared in shared with a slot, exclusive in exclusive), says that a thread that may come
   to wait for `want_x_lock` does not own it; `NestedHoldsAreGranted` follows, and without the
   hypothesis `contention_free_nesting` refutes it.  `HoldOnceInv`, for `SafeDiscipline` (callers
   hold once and give a shared hold up when the upgrade is denied, at once or after
   retries), says that a thread that waits holds nothing it waits for.
   With these, `NoRingOfWaiters`: whoever waits, waits for another thread that is busy and
   does not wait.  For the upgradable mutex it also needs `MaxReaders > 0`, as nobody ever
   shares a mutex that admits no reader.
7. `WritersAreNotOvertaken` needs no hypothesis about callers: what a writer waits for, the
   readers its scan may find or `mReaders`, only becomes less.

All of this holds for all `Threads` (finite, for the upgradable mutex), `Slots`, `MaxReaders`,
`MaxDepth`, `Nesting` and `Discipline`; the assumptions are `CFAssumption` and
`USMAssumption`, which TLC evaluates in every run.

**Hash tables.**  What the runs check is not inductive: that there is room follows from the
threshold, and what maphash has seen from where the key is.  The invariant has three parts.

1. `TableIInv`: a key is in one entry (`InTable`), every entry on its way from home
   was used (`Reachable`), the count is right and the threshold is not passed
   (`Threshold`), which leaves an entry free (`Room`, `RoomInv`).  `PutStep`
   shows that storing a key keeps this, in place, in a free entry, or by starting a rehash.
2. `StackIInv`: what the rehashes still have to move is in no other old vector and not in the
   table.  So an entry that is moved is a new key for the table, for any depth of the stack.
3. `MapIInv`: for each maphash and each key that stayed there is one entry of the
   loop's vector with that key, and the function was called once if the loop has
   passed it and not yet otherwise (`SeenAt`).  A maphash that goes through the
   table's own vector is never under way during a rehash.

`Refinement` goes through `Binds(k, v)`: an entry of the table, or one still to
move, has this key and value.  Each step is shown to change the bindings as the
step of `Dictionary` does; the steps of a rehash change none.  The assumption
`HTAssumption` asks that the threshold is positive and below 1, and nothing of an
expansion, which may leave the table as large as it was.

`SearchesAreDecided` draws from `TableIInv` what the probe loops rely on: a search stops at the one
entry of its key, and a search for room at one free entry, also in the middle
of a rehash.  `RehashesProgress` is the reason why a rehash ends: each of its steps takes one entry
off what is to be read (`Pending`), or makes the table larger, which only a table
that the keys can still fill is (`SizeInv`: a table is never smaller than a new one).  It needs
a finite set of keys and the hypothesis `Expands`: the factor is 1 at least, and an expansion
makes the smallest table larger.  An integer `:rehash-size` above 0 (`GrowBy`, with the factor 1 / 1) and
the default of 2.0 have it.  A `:rehash-size` of 1.05, which `make-hash-table` takes, has it not:
a table of 16 entries stays at 16, and the rehash of a full one calls itself without end.  The
table of the run `hash_table` grows, so `RehashEnds` says nothing about one that does not.

**Packages.**  `Found`, `Present` and `Inherited` are sets, and three operations change
several of them.  `IInv` says it of one symbol instead: `Own(p, n)`
is the symbol p itself has for a name, and `OneMeaning` says what p may inherit
beside it.  `NoClash` is the lemma behind export and use-package: where the
code found no conflict, bringing the symbol in leaves one meaning, and the one
there was.  It also needs that a symbol has its name (`Named`), that shadowing
symbols are present, and that a call in progress is about packages that
live (`CallOK`).  `MeaningIsKept` follows from `IInv` and `NoClash`, step by step.

The rounds of a conflict resolution need `CallInv` beside `IInv`: what EXPORT or USE-PACKAGE
found when it began is still so (`ExportOK`, `UseOK`), and each conflict that is left is about a
symbol that does not shadow (`LeftOpen`).  The two restarts, with their three ways to change the tables,
are put into one relation, `Did(p, n)`: afterwards the name has a shadowing symbol in p or p has
lost its own.  So no clash appears elsewhere (`ClashAfter`), the call finds what it needs
when it starts over (`CallsCanStartOver`), and each choice leaves fewer places in dispute, or
the same with one less that has a symbol of its own (`ChoicesLessen`).  That second measure is
needed because uninterning may uncover an inherited symbol that is in conflict, too.

All of this is for programs that unexport only what is external (`~UnexportsAny`, a hypothesis of
each of these theorems), since `IInv` needs it.  Of any program `WeakInv` holds: the tables and the use lists have
their types, a name is in one of the two tables, and the use lists agree.  From it, without the hypothesis, follow `LinksAgree` and
`TablesDisjoint`.

The results hold for any packages, names, symbols, locks and links
(`PackageAssumption`).

**Message queue.**  The invariant has two parts.

1. `MutexIInv` is about the lock: the count is the number of threads inside or waiting on the
   condition variable (`Counting`), and at zero there is no owner.
   This is where `Threads` must be finite.
2. `Holds(s)` says that the list is the sequence s: its cells are linked from head
   to tail, a cell that is not in it points nowhere, and every message that was made is
   with one thread that enqueues it, in s, or taken.  `EnqueueAppends` and
   `DequeueTakes` give the sequence after the step.

The refinement needs that the list is one sequence only (`OneList`).  A sequence has no
fixed length to split on, so the proof takes the least place where two
of them differ: the natural numbers are well-founded (`LeastNat`).

`WakeUpsSuffice` is the safety part of `NoLostWakeUp`.  `Covers(s)` counts: while somebody sleeps,
the messages in s are no more than the threads that were woken up, are dequeuing with the lock, or
have yet to signal (`Coming`).  An enqueuer adds one to both sides, and a signal, a timeout or a
spurious wakeup turns a sleeper into a thread that comes.

**Processes.**  `ThreadMoves` and `ClientActs` say once what a step of the thread, or of a
client, changes; each result looks at those changes only.

1. `ListIInv`: a starter is the only one, and a process is in the list before its
   thread exists and until the thread removes itself; `Listed` is a part of it.
2. `SuspendedIsStill` is inductive as it stands.  `NoResumeIsLost`, the safety part of
   `ResumedGoesOn`, is `SleepersAreSuspended`, and needs `ListIInv`: from its test
   of the phase to its sleep a thread holds the suspension mutex, and `process-resume` takes that
   mutex to change the phase, and wakes up the thread that sleeps.
3. `PhaseIInv`, for `PhaseSteps`, assumes `OneResumes`: one client resumes.
   `process_exited` shows what two do.
4. `ResultIInv`, for `JoinSeesOutcome`, assumes `OneJoins`: one client joins, as a second
   `pthread_join` is undefined.  It says for each process when its values are
   settled (`Settled`), and for the client what it knows at each place of the call (`JoinInv`).

Both assumptions are what the clients of the `process` run do.

**Unwinder.**  The invariant is about all frames, since an exit may uncover each of them.

1. `FramesInv`, for each frame: the environments it saves are those of the frames below that are
   in their bodies (`Mirror`); the binding it saves is the innermost one below
   (`IsCell`); an exit it interrupted by longjmp has its destination below and in its
   body (`Goal`), and one it caught is received by a frame below (`Reaches`).
2. `EnvInv`, `WalkInv` and `ThrowInv`: the same of the present environment, of the part of it
   the walk has not passed, and of the exception in flight.
3. `CatchInv`: the catch blocks of the frames have their exceptions among those that are
   caught, in the same order.  Where no longjmp leaves one catch block inside another (`~Abandons`), each has
   its own and there are no others, so that `throw;` finds it.

For any program follow: `BindingsAreUndone`, the value of a special variable is
the one of the innermost binding that no exit has passed, in the middle of a walk, too;
`WalksCanArrive`, a walk, under way or put off by a cleanup, has its destination before it;
`ExitsShorten`, a step of an exit that neither arrives nor starts a cleanup passes one
environment or one frame.  With the hypothesis `~Abandons` follow `ExceptionsCanArrive`, an exception, in flight
or put off, has the frame that receives it below, and `CleanupsRethrow`, it is the
interrupted exception that goes on after the cleanup; without it `unwind_rethrow` refutes the
latter.  What arrives and what shortens is what `ExitEnds` needs besides fairness.

`Refinement` (in `Unwind_refinement`) has the hypothesis `~Abandons`, and needs two more facts: only catches have tags, and a frame's phase says
what kind of exit goes on after its cleanup (`Shape`); and where a walk stands, the frames above that
it has not cut off yet are in cleanups (`StandInv`).  Then every exit that is
somewhere in the state has one destination (`Arrives`, `DestUnique`), which depends on the frames
below only (`DestLocal`), and each step is shown to cut the stack, or to put a cleanup on what is
left, as a step of `DynamicExtent` does.  That the binding in force is
the innermost one follows for all steps at once (`Becomes`), from `IsCell`.

Only model-checked: the liveness properties, as the prover does no fairness and no `ENABLED`:
`WriterProgress`, `WantComesDown`, `ReadsUnblocked`, `NoLostWakeUp`, `ResumedGoesOn`,
`RehashEnds`, `CallEnds`, `ExitEnds`.  The safety part of each is proved, under the hypotheses named
above: that nobody waits in a ring, that a wakeup or a resume is not lost, or that what
is left to do becomes less with each step.  That with fairness these add up to the liveness
property is TLC's result, on the instances of section 3.

## 5. What is left out, and the plan

Inside the modelled components: the destruction of a mutex in use, `get-lock`
with `waitp` NIL, recursive mutexes, `condition-variable-broadcast`, the length
of a timeout, two clients that start one process, a `pthread_create` that
fails, `mp:process-preset`, unix signals, `mp:without-interrupts`, an interrupt
between the first and the last statement of `initialize_thread`; weak hash
tables, tables without a mutex, tests and hash functions of the user, and the rehash for
addresses that a collector moved; names and nicknames of packages, and two package
operations at once (the code takes the lock of the package it changes, and reads and
changes the others without: the hazards in `PROJECT.json` name the places);
multiple values, `progv` and the debugger's exits.

Seen while modelling, and not the subject of a run:

* `package.cc:720` says of the conflict function that it "only returns once conflicts are
  resolved".  Taking the new symbol by uninterning a present one uncovers
  an inherited third one; the conflict is still there, and the call, which starts over,
  finds it.  `CallEnds` shows that the rounds end.
* `conditions.lisp:917` asserts that there is a conflict.  The restart chosen for an earlier
  package may have taken away what a later one inherited from it: `Fail`.
* `mpPackage.h:320` waits on the pthread mutex of an `mp:lock` and leaves `_Owner` alone.  After the wait it is NIL
  or names whoever had the lock meanwhile, and `mp:holding-lock-p` is false for the holder;
  `mpPackage.cc:369` says "Return the owner of the lock - this may be NIL if it's not locked."
* `mpPackage.cc:485` does not wait for a thread whose phase is already Exited: `mp:process-join`
  may return before the process has left the list, while
  `regression-tests/mp.lisp:65-68` (`all-processes-1`) joins a process and expects that
  `mp:all-processes` does not have it any more.

Hazards of this code, besides those of `PROJECT.json`, that no property covers:

* `mpPackage.fwd.h:516`: `timed_wait` leaves `tv_nsec` = 1000000000, which
  `pthread_cond_timedwait` refuses, so that the wait returns at once.
* `mpPackage.cc:379`: a process whose `pthread_create` fails stays active and listed.
* `threadlocal.cc:416`: an interrupt queued before `initialize_thread` empties the queue is lost.
* `hashTable.cc:464`: a `:rehash-threshold` of 0 makes every store rehash a table that is too
  full afterwards as well.
* `package.cc:821`: export adds a symbol that it imports after it has released the lock, over one
  interned meanwhile.
* `package.cc:416`: gentemp reads the counter again after it has counted, and interns
  after it has looked, so that two threads may get one symbol.
* `lisp.cc:899`: `makePackage` deletes `existing_package`, which is unset, when a nickname is
  taken.

Planned, in this order:

1. The call history of generic functions: the loop that extends it by
   compare-and-swap against the definition of methods.
2. The pool of binding indices of special variables.
3. `MpMutex` with `get-lock` that does not wait, and external processes as its
   client.
4. Two package operations at once, one step per locked section.
