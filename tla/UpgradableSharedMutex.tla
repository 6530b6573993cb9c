------------------------ MODULE UpgradableSharedMutex ------------------------
(***************************************************************************)
(* mp::UpgradableSharedMutex, the reader/writer lock of thread-safe hash   *)
(* tables and of mp:make-shared-mutex: mReaders and mReadsBlocked, guarded *)
(* by mReadMutex, and mWriteMutex, which the writer keeps while it waits   *)
(* for the readers and while it has the lock.                              *)
(*                                                                         *)
(* A writer may upgrade: it keeps its shared hold and waits for mReaders   *)
(* to come down to one, itself.  What a program may combine is up to the   *)
(* caller; Discipline says which combinations a model's callers use.       *)
(*                                                                         *)
(* A critical section of mReadMutex is one step: it contains no other      *)
(* lock.  A thread that polls (readLock, waitReaders) stays where it is    *)
(* until what it polls for holds.                                          *)
(***************************************************************************)
EXTENDS Integers, FiniteSets

CONSTANTS Threads,    \* the threads that use the mutex
          NoThread,   \* mWriteMutex is free
          MaxReaders, \* mMaxReaders, 64 or 256
          MaxDepth,   \* bound of the model: shared holds of one thread
          Discipline  \* what the callers do beyond one hold at a time

(***************************************************************************)
(* nested_read: a reader shares again.  read_in_write: a writer shares.    *)
(* upgrade_lock: a reader waits in write-lock for the writer before it.    *)
(* retry, back_off: a reader upgrades by write-try-lock, and when it is    *)
(* denied it tries again with its shared hold, as                          *)
(* HashTable_O::rehash_upgrade_write_lock does, or gives the hold up.      *)
(***************************************************************************)
Disciplines == {"nested_read", "read_in_write", "upgrade_lock", "retry", "back_off"}

ASSUME USMAssumption == /\ IsFiniteSet(Threads)
                        /\ NoThread \notin Threads
                        /\ MaxReaders \in Nat
                        /\ MaxDepth \in Nat
                        /\ Discipline \subseteq Disciplines

VARIABLES readsBlocked, \* mReadsBlocked
          readers,      \* mReaders
          wmutex,       \* the holder of mWriteMutex
          pc,           \* where each thread is in its call, "rest" outside of one
          numReaders,   \* the argument of waitReaders
          sheld,        \* shared holds of each thread
          xheld         \* exclusive holds of each thread

vars == <<readsBlocked, readers, wmutex, pc, numReaders, sheld, xheld>>

Labels == {"rest", "read", "write", "block", "wait", "denied", "unlock"}

Init == /\ readsBlocked = FALSE
        /\ readers = 0
        /\ wmutex = NoThread
        /\ pc = [t \in Threads |-> "rest"]
        /\ numReaders = [t \in Threads |-> 0]
        /\ sheld = [t \in Threads |-> 0]
        /\ xheld = [t \in Threads |-> 0]

Goto(t, l) == pc' = [pc EXCEPT ![t] = l]

-----------------------------------------------------------------------------
\* mp:shared-lock
ReadLock(t) == /\ pc[t] = "rest"
               /\ sheld[t] < MaxDepth
               /\ sheld[t] > 0 => "nested_read" \in Discipline
               /\ xheld[t] > 0 => "read_in_write" \in Discipline
               /\ Goto(t, "read")
               /\ UNCHANGED <<readsBlocked, readers, wmutex, numReaders, sheld, xheld>>

AdmitReader(t) == /\ pc[t] = "read"
                  /\ ~readsBlocked
                  /\ readers < MaxReaders
                  /\ readers' = readers + 1
                  /\ sheld' = [sheld EXCEPT ![t] = @ + 1]
                  /\ Goto(t, "rest")
                  /\ UNCHANGED <<readsBlocked, wmutex, numReaders, xheld>>

\* mp:shared-unlock, between calls or as the answer to a denied upgrade.
ReadUnlock(t) == /\ \/ pc[t] = "rest"
                    \/ pc[t] = "denied" /\ "back_off" \in Discipline
                 /\ sheld[t] > 0
                 /\ readers' = readers - 1
                 /\ sheld' = [sheld EXCEPT ![t] = @ - 1]
                 /\ Goto(t, "rest")
                 /\ UNCHANGED <<readsBlocked, wmutex, numReaders, xheld>>

-----------------------------------------------------------------------------
\* Faulty: waitReaders is told that nobody upgrades.
AwaitAll(t) == numReaders' = [numReaders EXCEPT ![t] = 0]

\* Faulty: waitReaders is told that the writer upgrades.
AwaitOne(t) == numReaders' = [numReaders EXCEPT ![t] = 1]

\* waitReaders(upgrade ? 1 : 0); upgrade is for a thread that shares the lock.
Await(t) == numReaders' = [numReaders EXCEPT ![t] = IF sheld[t] > 0 THEN 1 ELSE 0]

\* mp:write-lock
WriteLock(t) == /\ pc[t] = "rest"
                /\ xheld[t] = 0
                /\ sheld[t] > 0 => "upgrade_lock" \in Discipline
                /\ Await(t)
                /\ Goto(t, "write")
                /\ UNCHANGED <<readsBlocked, readers, wmutex, sheld, xheld>>

LockWriteMutex(t) == /\ pc[t] = "write"
                     /\ wmutex = NoThread
                     /\ wmutex' = t
                     /\ Goto(t, "block")
                     /\ UNCHANGED <<readsBlocked, readers, numReaders, sheld, xheld>>

\* mp:write-try-lock gives up at once when there is another writer, and waits
\* for the readers when there is none.
MayTry(t) == \/ pc[t] = "denied" /\ "retry" \in Discipline
             \/ /\ pc[t] = "rest"
                /\ xheld[t] = 0
                /\ sheld[t] > 0 => Discipline \cap {"retry", "back_off"} # {}

WriteTryLock(t) ==
  /\ MayTry(t)
  /\ \/ /\ wmutex = NoThread
        /\ wmutex' = t
        /\ Await(t)
        /\ Goto(t, "block")
     \/ /\ wmutex # NoThread
        /\ Goto(t, IF sheld[t] > 0 THEN "denied" ELSE "rest")
        /\ UNCHANGED <<wmutex, numReaders>>
  /\ UNCHANGED <<readsBlocked, readers, sheld, xheld>>

\* Faulty: new readers are let in while the writer waits, and after.
BlockNobody(t) == /\ pc[t] = "block"
                  /\ Goto(t, "wait")
                  /\ UNCHANGED <<readsBlocked, readers, wmutex, numReaders, sheld, xheld>>

\* waitReaders
BlockReaders(t) == /\ pc[t] = "block"
                   /\ readsBlocked' = TRUE
                   /\ Goto(t, "wait")
                   /\ UNCHANGED <<readers, wmutex, numReaders, sheld, xheld>>

EndWait(t) == /\ pc[t] = "wait"
              /\ readers = numReaders[t]
              /\ xheld' = [xheld EXCEPT ![t] = @ + 1]
              /\ Goto(t, "rest")
              /\ UNCHANGED <<readsBlocked, readers, wmutex, numReaders, sheld>>

-----------------------------------------------------------------------------
\* Faulty: the readers stay blocked.
WriteUnlockBlocking(t, releaseReadLock) ==
  /\ pc[t] = "rest"
  /\ xheld[t] > 0
  /\ xheld' = [xheld EXCEPT ![t] = @ - 1]
  /\ Goto(t, "unlock")
  /\ UNCHANGED <<readsBlocked, readers, wmutex, numReaders, sheld>>

\* Faulty: the shared hold is given up without a look at mReaders.
WriteUnlockTwice(t, releaseReadLock) ==
  /\ pc[t] = "rest"
  /\ xheld[t] > 0
  /\ xheld' = [xheld EXCEPT ![t] = @ - 1]
  /\ IF releaseReadLock
     THEN /\ readers' = readers - 1
          /\ sheld' = [sheld EXCEPT ![t] = IF @ > 0 THEN @ - 1 ELSE 0]
     ELSE UNCHANGED <<readers, sheld>>
  /\ readsBlocked' = FALSE
  /\ Goto(t, "unlock")
  /\ UNCHANGED <<wmutex, numReaders>>

\* Faulty: only mReaders is told that the shared hold is gone.
WriteUnlockForgetful(t, releaseReadLock) ==
  /\ pc[t] = "rest"
  /\ xheld[t] > 0
  /\ xheld' = [xheld EXCEPT ![t] = @ - 1]
  /\ readers' = IF readers = 1 THEN 0 ELSE readers
  /\ readsBlocked' = FALSE
  /\ Goto(t, "unlock")
  /\ UNCHANGED <<wmutex, numReaders, sheld>>

\* mp:write-unlock.  The writer is the only reader left, if there is one: the
\* mReaders == 1 it finds is its own shared hold.
WriteUnlock(t, releaseReadLock) ==
  /\ pc[t] = "rest"
  /\ xheld[t] > 0
  /\ xheld' = [xheld EXCEPT ![t] = @ - 1]
  /\ IF releaseReadLock /\ readers = 1
     THEN /\ readers' = readers - 1
          /\ sheld' = [sheld EXCEPT ![t] = @ - 1]
     ELSE UNCHANGED <<readers, sheld>>
  /\ readsBlocked' = FALSE
  /\ Goto(t, "unlock")
  /\ UNCHANGED <<wmutex, numReaders>>

UnlockWriteMutex(t) == /\ pc[t] = "unlock"
                       /\ wmutex' = NoThread
                       /\ Goto(t, "rest")
                       /\ UNCHANGED <<readsBlocked, readers, numReaders, sheld, xheld>>

-----------------------------------------------------------------------------
\* What a thread does by itself once it is inside a call.
Step(t) == \/ AdmitReader(t)
           \/ LockWriteMutex(t) \/ BlockReaders(t) \/ EndWait(t)
           \/ UnlockWriteMutex(t)

Release(t) == \/ ReadUnlock(t)
              \/ \E releaseReadLock \in BOOLEAN : WriteUnlock(t, releaseReadLock)

Next == \E t \in Threads : \/ ReadLock(t)
                           \/ WriteLock(t) \/ WriteTryLock(t)
                           \/ Release(t)
                           \/ Step(t)

Spec == Init /\ [][Next]_vars

(***************************************************************************)
(* A thread inside a call keeps running, and the guards of the callers     *)
(* (with-rwlock, HashTableReadLock, HashTableWriteLock) release what they  *)
(* took, however often the thread turns to other calls before.             *)
(***************************************************************************)
Fairness == \A t \in Threads : /\ WF_vars(Step(t))
                               /\ SF_vars(Release(t))

FairSpec == Spec /\ Fairness

-----------------------------------------------------------------------------
TypeOK == /\ readsBlocked \in BOOLEAN
          /\ readers \in Nat
          /\ wmutex \in Threads \cup {NoThread}
          /\ pc \in [Threads -> Labels]
          /\ numReaders \in [Threads -> {0, 1}]
          /\ sheld \in [Threads -> 0..MaxDepth]
          /\ xheld \in [Threads -> {0, 1}]

\* The shared holds, each with its number among those of its thread.
ReadHolds == {h \in Threads \X (1..MaxDepth) : h[2] <= sheld[h[1]]}

\* mReaders is the number of shared holds: none is given back twice, an
\* upgraded writer's own one included.
ReadersCounted == readers = Cardinality(ReadHolds)

\* mWriteMutex is held from the moment a writer waits until it has let go.
WriteMutexInv ==
  \A t \in Threads : wmutex = t <=> pc[t] \in {"block", "wait", "unlock"} \/ xheld[t] = 1

\* Readers are blocked while a writer waits for them or has the lock.
BlockInv == readsBlocked <=> \E t \in Threads : pc[t] = "wait" \/ xheld[t] = 1

\* A writer waits for its own hold and no other, and a reader that waits has
\* room for the hold.
WaitInv == \A t \in Threads :
              /\ pc[t] \in {"write", "block", "wait", "denied"} => xheld[t] = 0
              /\ pc[t] \in {"write", "block", "wait"} =>
                    numReaders[t] = (IF sheld[t] > 0 THEN 1 ELSE 0)
              /\ xheld[t] = 1 => pc[t] \in {"rest", "read"}
              /\ pc[t] = "unlock" => xheld[t] = 0
              /\ pc[t] = "read" => sheld[t] < MaxDepth

\* A writer is alone, and what it shares itself is the only shared hold: the
\* assertions on mReaders in waitReaders and in writeUnlock hold.
AloneInv == \A t \in Threads : xheld[t] = 1 =>
               /\ sheld[t] <= 1
               /\ \A u \in Threads \ {t} : sheld[u] = 0 /\ xheld[u] = 0

\* The invariant the proof of mutual exclusion goes by induction on.
Inv == /\ ReadersCounted
       /\ WriteMutexInv
       /\ BlockInv
       /\ WaitInv
       /\ AloneInv

RW == INSTANCE RWLock

\* A thread that has the write lock, upgraded or not, excludes every other
\* writer and every other reader.
Exclusion == RW!Exclusion

\* Every step of the mutex is a step of the abstract lock, or one that the
\* abstract lock does not see.
ImplementsRWLock == RW!RWSpec

\* A writer that got mWriteMutex gets the lock: new readers are held off, and
\* the ones before it leave.
WriterProgress == \A t \in Threads : pc[t] \in {"block", "wait"} ~> xheld[t] > 0

\* A reader that upgrades gets the lock once it has mWriteMutex, another reader
\* that tries to upgrade at the same time in a loop of write-try-lock or not.
UpgraderProgress == \A t \in Threads :
                       pc[t] = "wait" /\ numReaders[t] = 1 ~> xheld[t] > 0

\* Readers that a writer held off are let in again.
ReadsUnblocked == readsBlocked ~> ~readsBlocked
=============================================================================
