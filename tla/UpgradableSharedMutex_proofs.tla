-------------------- MODULE UpgradableSharedMutex_proofs --------------------
(***************************************************************************)
(* Theorems about mp::UpgradableSharedMutex, for every finite set of       *)
(* threads, every limit on the readers and everything its callers may      *)
(* combine: mReaders is the number of shared holds, a writer is alone, and *)
(* the mutex implements the abstract reader/writer lock.                   *)
(*                                                                         *)
(* The first lemmas are about ReadHolds, the set that mReaders counts;     *)
(* then there is one lemma per action.                                     *)
(***************************************************************************)
EXTENDS UpgradableSharedMutex, FiniteSetTheorems, TLAPS

IInv == TypeOK /\ Inv

-----------------------------------------------------------------------------
\* The shared holds are finitely many, whatever they are.
LEMMA HoldsFinite == IsFiniteSet(ReadHolds) /\ Cardinality(ReadHolds) \in Nat
<1>1. IsFiniteSet(1..MaxDepth)
  BY FS_Interval, USMAssumption
<1>2. IsFiniteSet(Threads \X (1..MaxDepth))
  BY <1>1, FS_Product, USMAssumption
<1>3. ReadHolds \subseteq Threads \X (1..MaxDepth)
  BY DEF ReadHolds
<1>4. IsFiniteSet(ReadHolds)
  BY <1>2, <1>3, FS_Subset
<1>5. QED
  BY <1>4, FS_CardinalityType

\* One more hold of one thread is one more hold.
LEMMA AddHold == ASSUME TypeOK, NEW t \in Threads, sheld[t] < MaxDepth,
                        sheld' = [sheld EXCEPT ![t] = @ + 1]
                 PROVE  Cardinality(ReadHolds)' = Cardinality(ReadHolds) + 1
<1> DEFINE new == <<t, sheld[t] + 1>>
<1>1. sheld[t] + 1 \in 1..MaxDepth
  BY USMAssumption DEF TypeOK
<1>2. new \notin ReadHolds
  BY DEF ReadHolds, TypeOK
<1>3. ReadHolds' = ReadHolds \cup {new}
  BY <1>1 DEF ReadHolds, TypeOK
<1>4. QED
  BY <1>2, <1>3, HoldsFinite, FS_AddElement

\* One hold of one thread less is one hold less.
LEMMA DropHold == ASSUME TypeOK, NEW t \in Threads, sheld[t] > 0,
                         sheld' = [sheld EXCEPT ![t] = @ - 1]
                  PROVE  /\ Cardinality(ReadHolds)' = Cardinality(ReadHolds) - 1
                         /\ Cardinality(ReadHolds) > 0
<1> DEFINE old == <<t, sheld[t]>>
<1>1. old \in ReadHolds
  BY USMAssumption DEF ReadHolds, TypeOK
<1>2. ReadHolds' = ReadHolds \ {old}
  <2>1. SUFFICES ASSUME NEW u \in Threads, NEW k \in 1..MaxDepth
                 PROVE  k <= sheld'[u] <=> k <= sheld[u] /\ <<u, k>> # old
    BY DEF ReadHolds
  <2>2. CASE u = t
    BY <2>2, USMAssumption DEF TypeOK
  <2>3. CASE u # t
    BY <2>3 DEF TypeOK
  <2>4. QED
    BY <2>2, <2>3
<1>3. Cardinality(ReadHolds) # 0
  BY <1>1, HoldsFinite, FS_EmptySet
<1>4. Cardinality(ReadHolds \ {old}) = Cardinality(ReadHolds) - 1
  BY <1>1, HoldsFinite, FS_RemoveElement
<1>5. Cardinality(ReadHolds) > 0
  BY <1>3, HoldsFinite
<1>6. QED
  BY <1>2, <1>4, <1>5

\* Nobody shares the lock when there is no hold.
LEMMA NoHold == ASSUME TypeOK, Cardinality(ReadHolds) = 0
                PROVE  \A u \in Threads : sheld[u] = 0
<1>1. ReadHolds = {}
  BY HoldsFinite, FS_EmptySet
<1>2. SUFFICES ASSUME NEW u \in Threads, sheld[u] # 0 PROVE FALSE
  OBVIOUS
<1>3. <<u, 1>> \in ReadHolds
  BY <1>2, USMAssumption DEF ReadHolds, TypeOK
<1>4. QED
  BY <1>1, <1>3

\* A thread with the only hold is the only one that shares the lock.
LEMMA OneHold == ASSUME TypeOK, NEW t \in Threads, sheld[t] > 0, Cardinality(ReadHolds) = 1
                 PROVE  sheld[t] = 1 /\ \A u \in Threads \ {t} : sheld[u] = 0
<1>1. PICK h : ReadHolds = {h}
  BY HoldsFinite, FS_Singleton
<1>2. \A u \in Threads : sheld[u] > 0 => <<u, 1>> \in ReadHolds
  BY USMAssumption DEF ReadHolds, TypeOK
<1>3. \A u \in Threads : sheld[u] > 0 => <<u, sheld[u]>> \in ReadHolds
  BY USMAssumption DEF ReadHolds, TypeOK
<1>4. <<t, 1>> = h /\ <<t, sheld[t]>> = h
  BY <1>1, <1>2, <1>3
<1>5. \A u \in Threads : sheld[u] > 0 => <<u, 1>> = <<t, 1>>
  BY <1>1, <1>2, <1>4
<1>6. QED
  BY <1>4, <1>5 DEF TypeOK

\* The holds are a function of sheld.
LEMMA SameHolds == ASSUME UNCHANGED sheld PROVE UNCHANGED Cardinality(ReadHolds)
<1>1. QED
  BY DEF ReadHolds

-----------------------------------------------------------------------------

\* shared-lock is called.
LEMMA ReadLockStep == ASSUME IInv, NEW t \in Threads, ReadLock(t) PROVE IInv'
<1> USE USMAssumption DEF IInv, TypeOK, Inv, ReadLock, Goto
<1>1. pc' \in [Threads -> Labels]
  BY DEF Labels
<1>2. ReadersCounted'
  BY SameHolds DEF ReadersCounted
<1>3. WriteMutexInv' /\ BlockInv' /\ WaitInv' /\ AloneInv'
  BY DEF WriteMutexInv, BlockInv, WaitInv, AloneInv
<1>4. QED
  BY <1>1, <1>2, <1>3

\* A reader is let in: no writer is there, so it disturbs none.
LEMMA AdmitReaderStep == ASSUME IInv, NEW t \in Threads, AdmitReader(t)
                         PROVE  IInv' /\ \A u \in Threads : xheld[u] = 0
<1> USE USMAssumption DEF IInv, TypeOK, Inv, AdmitReader, Goto
<1>0. sheld[t] < MaxDepth /\ \A u \in Threads : xheld[u] = 0
  BY DEF WaitInv, BlockInv
<1>1. /\ pc' \in [Threads -> Labels]
      /\ sheld' \in [Threads -> 0..MaxDepth]
      /\ readers' \in Nat
  BY <1>0 DEF Labels
<1>2. ReadersCounted'
  BY <1>0, AddHold DEF ReadersCounted
<1>3. WriteMutexInv' /\ BlockInv' /\ WaitInv'
  BY DEF WriteMutexInv, BlockInv, WaitInv
<1>4. AloneInv'
  BY <1>0 DEF AloneInv
<1>5. QED
  BY <1>0, <1>1, <1>2, <1>3, <1>4

\* A shared hold is given up, by a writer that upgraded or by anyone else.
LEMMA ReadUnlockStep == ASSUME IInv, NEW t \in Threads, ReadUnlock(t) PROVE IInv'
<1> USE USMAssumption DEF IInv, TypeOK, Inv, ReadUnlock, Goto
<1>1. pc' \in [Threads -> Labels] /\ sheld' \in [Threads -> 0..MaxDepth]
  BY DEF Labels
<1>2. /\ Cardinality(ReadHolds)' = Cardinality(ReadHolds) - 1
      /\ Cardinality(ReadHolds) > 0
  BY DropHold
<1>3. readers' \in Nat /\ ReadersCounted'
  BY <1>2 DEF ReadersCounted
<1>4. WriteMutexInv' /\ BlockInv'
  BY DEF WriteMutexInv, BlockInv
<1>5. WaitInv'
  BY DEF WaitInv
<1>6. AloneInv'
  BY DEF AloneInv
<1>7. QED
  BY <1>1, <1>3, <1>4, <1>5, <1>6

\* write-lock is called.
LEMMA WriteLockStep == ASSUME IInv, NEW t \in Threads, WriteLock(t) PROVE IInv'
<1> USE USMAssumption DEF IInv, TypeOK, Inv, WriteLock, Await, Goto
<1>1. pc' \in [Threads -> Labels] /\ numReaders' \in [Threads -> {0, 1}]
  BY DEF Labels
<1>2. ReadersCounted'
  BY SameHolds DEF ReadersCounted
<1>3. WriteMutexInv' /\ BlockInv' /\ AloneInv'
  BY DEF WriteMutexInv, BlockInv, AloneInv
<1>4. WaitInv'
  BY DEF WaitInv
<1>5. QED
  BY <1>1, <1>2, <1>3, <1>4

\* A writer gets mWriteMutex.
LEMMA LockWriteMutexStep == ASSUME IInv, NEW t \in Threads, LockWriteMutex(t) PROVE IInv'
<1> USE USMAssumption DEF IInv, TypeOK, Inv, LockWriteMutex, Goto
<1>1. pc' \in [Threads -> Labels] /\ wmutex' \in Threads \cup {NoThread}
  BY DEF Labels
<1>2. ReadersCounted'
  BY SameHolds DEF ReadersCounted
<1>3. WriteMutexInv'
  BY DEF WriteMutexInv
<1>4. BlockInv' /\ WaitInv' /\ AloneInv'
  BY DEF BlockInv, WaitInv, AloneInv
<1>5. QED
  BY <1>1, <1>2, <1>3, <1>4

\* write-try-lock gets mWriteMutex or is denied.
LEMMA WriteTryLockStep == ASSUME IInv, NEW t \in Threads, WriteTryLock(t) PROVE IInv'
<1> USE USMAssumption DEF IInv, TypeOK, Inv
<1>1. /\ pc[t] \in {"rest", "denied"} /\ xheld[t] = 0
      /\ UNCHANGED <<readsBlocked, readers, sheld, xheld>>
  BY DEF WriteTryLock, MayTry, WaitInv
<1>2. ReadersCounted'
  BY <1>1, SameHolds DEF ReadersCounted
<1>3. CASE wmutex = NoThread
  <2>1. /\ wmutex' = t
        /\ numReaders' = [numReaders EXCEPT ![t] = IF sheld[t] > 0 THEN 1 ELSE 0]
        /\ pc' = [pc EXCEPT ![t] = "block"]
    BY <1>3 DEF WriteTryLock, Await, Goto
  <2>2. pc' \in [Threads -> Labels] /\ numReaders' \in [Threads -> {0, 1}]
    BY <2>1 DEF Labels
  <2>3. WriteMutexInv'
    BY <1>1, <1>3, <2>1 DEF WriteMutexInv
  <2>4. BlockInv' /\ AloneInv'
    BY <1>1, <2>1 DEF BlockInv, AloneInv
  <2>5. WaitInv'
    BY <1>1, <2>1 DEF WaitInv
  <2>6. QED
    BY <1>1, <1>2, <2>1, <2>2, <2>3, <2>4, <2>5
<1>4. CASE wmutex # NoThread
  <2>1. \E l \in {"rest", "denied"} : pc' = [pc EXCEPT ![t] = l]
    BY <1>4 DEF WriteTryLock, Goto
  <2>2. UNCHANGED <<wmutex, numReaders>> /\ pc' \in [Threads -> Labels]
    BY <1>4, <2>1 DEF WriteTryLock, Labels
  <2>3. WriteMutexInv' /\ BlockInv' /\ WaitInv' /\ AloneInv'
    BY <1>1, <2>1, <2>2 DEF WriteMutexInv, BlockInv, WaitInv, AloneInv
  <2>4. QED
    BY <1>1, <1>2, <2>2, <2>3
<1>5. QED
  BY <1>3, <1>4

\* waitReaders blocks the readers.
LEMMA BlockReadersStep == ASSUME IInv, NEW t \in Threads, BlockReaders(t) PROVE IInv'
<1> USE USMAssumption DEF IInv, TypeOK, Inv, BlockReaders, Goto
<1>1. pc' \in [Threads -> Labels]
  BY DEF Labels
<1>2. ReadersCounted'
  BY SameHolds DEF ReadersCounted
<1>3. WriteMutexInv' /\ BlockInv'
  BY DEF WriteMutexInv, BlockInv
<1>4. WaitInv' /\ AloneInv'
  BY DEF WaitInv, AloneInv
<1>5. QED
  BY <1>1, <1>2, <1>3, <1>4

\* waitReaders finds the readers gone.
LEMMA EndWaitStep == ASSUME IInv, NEW t \in Threads, EndWait(t)
                     PROVE  IInv' /\ \A u \in Threads \ {t} : sheld[u] = 0 /\ xheld[u] = 0
<1> USE USMAssumption DEF IInv, TypeOK, Inv, EndWait, Goto
<1>1. pc' \in [Threads -> Labels] /\ xheld[t] = 0 /\ wmutex = t
  BY DEF Labels, WaitInv, WriteMutexInv
<1>2. xheld' \in [Threads -> {0, 1}] /\ xheld'[t] = 1
  BY <1>1
<1>3. ReadersCounted'
  BY SameHolds DEF ReadersCounted
<1>4. \A u \in Threads \ {t} : xheld[u] = 0
  BY <1>1 DEF WriteMutexInv
<1>5. sheld[t] <= 1 /\ \A u \in Threads \ {t} : sheld[u] = 0
  <2>1. CASE sheld[t] > 0
    <3>1. Cardinality(ReadHolds) = 1
      BY <2>1 DEF WaitInv, ReadersCounted
    <3>2. QED
      BY <2>1, <3>1, OneHold
  <2>2. CASE ~(sheld[t] > 0)
    <3>1. Cardinality(ReadHolds) = 0
      BY <2>2 DEF WaitInv, ReadersCounted
    <3>2. QED
      BY <3>1, NoHold
  <2>3. QED
    BY <2>1, <2>2
<1>6. WriteMutexInv' /\ BlockInv'
  BY <1>1, <1>2 DEF WriteMutexInv, BlockInv
<1>7. WaitInv'
  BY <1>1, <1>2 DEF WaitInv
<1>8. AloneInv'
  BY <1>2, <1>4, <1>5 DEF AloneInv
<1>9. QED
  BY <1>1, <1>2, <1>3, <1>4, <1>5, <1>6, <1>7, <1>8

\* write-unlock gives the write lock up, and the shared hold with it if asked.
LEMMA WriteUnlockStep ==
  ASSUME IInv, NEW t \in Threads, NEW r \in BOOLEAN, WriteUnlock(t, r)
  PROVE  /\ IInv'
         /\ sheld' # sheld => sheld[t] > 0 /\ sheld' = [sheld EXCEPT ![t] = @ - 1]
<1> USE USMAssumption DEF IInv, TypeOK, Inv, Goto
<1>1. /\ pc[t] = "rest" /\ xheld[t] = 1 /\ wmutex = t
      /\ xheld' = [xheld EXCEPT ![t] = 0]
      /\ readsBlocked' = FALSE
      /\ pc' = [pc EXCEPT ![t] = "unlock"]
      /\ UNCHANGED <<wmutex, numReaders>>
  <2>1. pc[t] = "rest" /\ xheld[t] = 1
    BY DEF WriteUnlock
  <2>2. wmutex = t
    BY <2>1 DEF WriteMutexInv
  <2>3. xheld' = [xheld EXCEPT ![t] = 0]
    BY <2>1 DEF WriteUnlock
  <2>4. QED
    BY <2>1, <2>2, <2>3 DEF WriteUnlock
<1>2. pc' \in [Threads -> Labels] /\ xheld' \in [Threads -> {0, 1}]
  BY <1>1 DEF Labels
<1>3. /\ sheld[t] <= 1
      /\ \A u \in Threads \ {t} : sheld[u] = 0 /\ xheld[u] = 0
  BY <1>1 DEF AloneInv
<1>4. \A u \in Threads \ {t} : pc[u] \notin {"block", "wait"}
  BY <1>1 DEF WriteMutexInv
<1>5. \A u \in Threads : xheld'[u] = 0 /\ pc'[u] # "wait"
  BY <1>1, <1>3, <1>4
<1>6. WriteMutexInv'
  BY <1>1, <1>5 DEF WriteMutexInv
<1>7. BlockInv' /\ AloneInv'
  BY <1>1, <1>5 DEF BlockInv, AloneInv
<1>8. CASE r /\ readers = 1
  <2>0. readers = 1 /\ Cardinality(ReadHolds) = 1
    BY <1>8 DEF ReadersCounted
  <2>1. readers' = 0 /\ sheld' = [sheld EXCEPT ![t] = @ - 1]
    BY <1>8 DEF WriteUnlock
  <2>2. sheld[t] > 0
    <3>1. SUFFICES ASSUME sheld[t] = 0 PROVE FALSE
      OBVIOUS
    <3>2. \A u \in Threads : sheld[u] = 0
      BY <1>3, <3>1
    <3>3. ReadHolds = {}
      BY <3>2 DEF ReadHolds
    <3>4. Cardinality(ReadHolds) = 0
      BY <3>3, FS_EmptySet
    <3>5. QED
      BY <2>0, <3>4
  <2>3. sheld' \in [Threads -> 0..MaxDepth]
    BY <2>1, <2>2
  <2>4. ReadersCounted'
    <3>1. Cardinality(ReadHolds)' = Cardinality(ReadHolds) - 1
      BY <2>1, <2>2, DropHold
    <3>2. QED
      BY <2>0, <2>1, <3>1 DEF ReadersCounted
  <2>5. WaitInv'
    BY <1>1, <1>5, <2>1 DEF WaitInv
  <2>6. QED
    BY <1>1, <1>2, <1>6, <1>7, <2>1, <2>2, <2>3, <2>4, <2>5
<1>9. CASE ~(r /\ readers = 1)
  <2>1. UNCHANGED <<readers, sheld>>
    BY <1>9 DEF WriteUnlock
  <2>2. ReadersCounted'
    BY <2>1, SameHolds DEF ReadersCounted
  <2>3. WaitInv'
    BY <1>1, <1>5, <2>1 DEF WaitInv
  <2>4. QED
    BY <1>1, <1>2, <1>6, <1>7, <2>1, <2>2, <2>3
<1>10. QED
  BY <1>8, <1>9

\* write-unlock lets mWriteMutex go.
LEMMA UnlockWriteMutexStep == ASSUME IInv, NEW t \in Threads, UnlockWriteMutex(t) PROVE IInv'
<1> USE USMAssumption DEF IInv, TypeOK, Inv, UnlockWriteMutex, Goto
<1>1. pc' \in [Threads -> Labels] /\ wmutex' \in Threads \cup {NoThread}
  BY DEF Labels
<1>2. ReadersCounted'
  BY SameHolds DEF ReadersCounted
<1>3. WriteMutexInv'
  BY DEF WriteMutexInv, WaitInv
<1>4. BlockInv' /\ WaitInv' /\ AloneInv'
  BY DEF BlockInv, WaitInv, AloneInv
<1>5. QED
  BY <1>1, <1>2, <1>3, <1>4

-----------------------------------------------------------------------------
\* A mutex nobody has used yet.
LEMMA InitIInv == Init => IInv
<1> SUFFICES ASSUME Init PROVE IInv
  OBVIOUS
<1> USE USMAssumption DEF Init
<1>1. TypeOK
  <2>1. pc \in [Threads -> Labels]
    BY DEF Labels
  <2>2. /\ readsBlocked \in BOOLEAN
        /\ readers \in Nat
        /\ wmutex \in Threads \cup {NoThread}
    OBVIOUS
  <2>3. numReaders \in [Threads -> {0, 1}] /\ xheld \in [Threads -> {0, 1}]
    OBVIOUS
  <2>4. sheld \in [Threads -> 0..MaxDepth]
    OBVIOUS
  <2>5. QED
    BY <2>1, <2>2, <2>3, <2>4 DEF TypeOK
<1>2. ReadHolds = {}
  BY DEF ReadHolds
<1>3. ReadersCounted
  BY <1>2, FS_EmptySet DEF ReadersCounted
<1>4. WriteMutexInv /\ BlockInv /\ WaitInv /\ AloneInv
  BY DEF WriteMutexInv, BlockInv, WaitInv, AloneInv
<1>5. QED
  BY <1>1, <1>3, <1>4 DEF IInv, Inv

\* Every call and every critical section preserves the invariant.
LEMMA NextIInv == IInv /\ [Next]_vars => IInv'
<1> SUFFICES ASSUME IInv, [Next]_vars PROVE IInv'
  OBVIOUS
<1>1. CASE UNCHANGED vars
  BY <1>1, SameHolds DEF vars, IInv, TypeOK, Inv, ReadersCounted, WriteMutexInv, BlockInv,
                         WaitInv, AloneInv
<1>2. CASE Next
  <2>1. PICK t \in Threads : \/ ReadLock(t)
                             \/ WriteLock(t) \/ WriteTryLock(t)
                             \/ Release(t)
                             \/ Step(t)
    BY <1>2 DEF Next
  <2>2. CASE ReadLock(t)
    BY <2>2, ReadLockStep
  <2>3. CASE WriteLock(t)
    BY <2>3, WriteLockStep
  <2>4. CASE WriteTryLock(t)
    BY <2>4, WriteTryLockStep
  <2>5. CASE Release(t)
    BY <2>5, ReadUnlockStep, WriteUnlockStep DEF Release
  <2>6. CASE Step(t)
    BY <2>6, AdmitReaderStep, LockWriteMutexStep, BlockReadersStep, EndWaitStep,
       UnlockWriteMutexStep DEF Step
  <2>7. QED
    BY <2>1, <2>2, <2>3, <2>4, <2>5, <2>6
<1>3. QED
  BY <1>1, <1>2

\* The inductive invariant holds in every reachable state, whatever the callers
\* combine.
THEOREM Invariance == Spec => []IInv
<1>1. QED
  BY InitIInv, NextIInv, PTL DEF Spec

\* Every variable of the mutex keeps its type: mReaders never goes below zero.
THEOREM TypeCorrect == Spec => []TypeOK
<1>1. IInv => TypeOK
  BY DEF IInv
<1>2. QED
  BY <1>1, Invariance, PTL

\* mReaders is the number of shared holds, mWriteMutex and mReadsBlocked belong
\* to the one writer, and the assertions of waitReaders and writeUnlock hold.
THEOREM HoldsAreCounted == Spec => []Inv
<1>1. IInv => Inv
  BY DEF IInv
<1>2. QED
  BY <1>1, Invariance, PTL

\* A writer, one that upgraded included, excludes every other thread.
THEOREM MutualExclusion == Spec => []Exclusion
<1>1. IInv => Exclusion
  BY DEF IInv, Inv, TypeOK, AloneInv, Exclusion, RW!Exclusion
<1>2. QED
  BY <1>1, Invariance, PTL

\* One step of a thread is one step of the abstract lock or invisible to it.
LEMMA AbstractStep == ASSUME IInv, NEW t \in Threads,
                             \/ ReadLock(t)
                             \/ WriteLock(t) \/ WriteTryLock(t)
                             \/ Release(t)
                             \/ Step(t)
                      PROVE  [RW!RWNext]_RW!rwvars
<1>1. \/ UNCHANGED <<sheld, xheld>>
      \/ RW!AcquireShared(t) \/ RW!ReleaseShared(t)
      \/ RW!AcquireExclusive(t) \/ RW!ReleaseExclusive(t)
      \/ RW!ReleaseBoth(t)
      => [RW!RWNext]_RW!rwvars
  BY DEF RW!RWNext, RW!rwvars
<1>2. CASE ReadLock(t) \/ WriteLock(t) \/ WriteTryLock(t) \/ LockWriteMutex(t)
           \/ BlockReaders(t) \/ UnlockWriteMutex(t)
  BY <1>1, <1>2 DEF ReadLock, WriteLock, WriteTryLock, LockWriteMutex, BlockReaders,
                    UnlockWriteMutex
<1>3. CASE AdmitReader(t)
  <2>1. \A u \in Threads : xheld[u] = 0
    BY <1>3, AdmitReaderStep
  <2>2. QED
    BY <1>1, <1>3, <2>1 DEF AdmitReader, RW!AcquireShared, RW!Others
<1>4. CASE ReadUnlock(t)
  BY <1>1, <1>4 DEF ReadUnlock, RW!ReleaseShared
<1>5. CASE EndWait(t)
  <2>1. \A u \in Threads \ {t} : sheld[u] = 0 /\ xheld[u] = 0
    BY <1>5, EndWaitStep
  <2>2. QED
    BY <1>1, <1>5, <2>1 DEF EndWait, RW!AcquireExclusive, RW!Others
<1>6. CASE \E r \in BOOLEAN : WriteUnlock(t, r)
  <2>1. PICK r \in BOOLEAN : WriteUnlock(t, r)
    BY <1>6
  <2>2. CASE sheld' = sheld
    BY <1>1, <2>1, <2>2 DEF WriteUnlock, RW!ReleaseExclusive
  <2>3. CASE sheld' # sheld
    <3>1. sheld[t] > 0 /\ sheld' = [sheld EXCEPT ![t] = @ - 1]
      BY <2>1, <2>3, WriteUnlockStep
    <3>2. QED
      BY <1>1, <2>1, <3>1 DEF WriteUnlock, RW!ReleaseBoth
  <2>4. QED
    BY <2>2, <2>3
<1>7. QED
  BY <1>2, <1>3, <1>4, <1>5, <1>6 DEF Release, Step

\* The mutex implements the reader/writer lock, upgrades included.
THEOREM Refinement == Spec => ImplementsRWLock
<1>1. Init => RW!RWInit
  BY DEF Init, RW!RWInit
<1>2. IInv /\ [Next]_vars => [RW!RWNext]_RW!rwvars
  BY AbstractStep DEF Next, vars, RW!rwvars
<1>3. QED
  BY <1>1, <1>2, Invariance, PTL DEF Spec, ImplementsRWLock, RW!RWSpec
-----------------------------------------------------------------------------
(***************************************************************************)
(* Waiting.  Some of the combinations that Discipline names make a thread  *)
(* wait for itself or for a thread that waits for it; the rest is about    *)
(* the callers that hold once, and that give a shared hold up when the     *)
(* upgrade is denied, at once or after a number of retries.                *)
(***************************************************************************)
SafeDiscipline == /\ Discipline \subseteq {"retry", "back_off"}
                  /\ "retry" \in Discipline => "back_off" \in Discipline

\* A thread that waits in a call holds nothing that the call waits for, and one
\* that was denied the upgrade may give its shared hold up.
HoldOnceInv == \A t \in Threads :
                  /\ sheld[t] <= 1
                  /\ pc[t] = "read" => sheld[t] = 0 /\ xheld[t] = 0
                  /\ pc[t] = "write" => sheld[t] = 0
                  /\ pc[t] = "denied" => sheld[t] > 0 /\ "back_off" \in Discipline

\* Such callers keep HoldOnceInv.
LEMMA HoldOnceStep == ASSUME SafeDiscipline, IInv, HoldOnceInv, [Next]_vars
                      PROVE  HoldOnceInv'
<1> USE DEF IInv, TypeOK, HoldOnceInv, Goto
<1>1. CASE UNCHANGED vars
  BY <1>1 DEF vars
<1>2. CASE Next
  <2>1. PICK t \in Threads : \/ ReadLock(t)
                             \/ WriteLock(t) \/ WriteTryLock(t)
                             \/ Release(t)
                             \/ Step(t)
    BY <1>2 DEF Next
  <2>2. CASE ReadLock(t)
    BY <2>2 DEF ReadLock, SafeDiscipline
  <2>3. CASE WriteLock(t)
    BY <2>3 DEF WriteLock, SafeDiscipline
  <2>4. CASE WriteTryLock(t)
    BY <2>4 DEF WriteTryLock, MayTry, SafeDiscipline
  <2>5. CASE ReadUnlock(t)
    BY <2>5 DEF ReadUnlock
  <2>6. CASE \E r \in BOOLEAN : WriteUnlock(t, r)
    <3>1. PICK r \in BOOLEAN : WriteUnlock(t, r)
      BY <2>6
    <3>2. /\ pc' = [pc EXCEPT ![t] = "unlock"]
          /\ xheld' = [xheld EXCEPT ![t] = @ - 1]
      BY <3>1 DEF WriteUnlock
    <3>3. sheld' = sheld \/ sheld' = [sheld EXCEPT ![t] = @ - 1]
      BY <3>1 DEF WriteUnlock
    <3>4. QED
      BY <3>2, <3>3
  <2>7. CASE AdmitReader(t)
    BY <2>7 DEF AdmitReader
  <2>8. CASE EndWait(t)
    BY <2>8 DEF EndWait
  <2>9. CASE LockWriteMutex(t) \/ BlockReaders(t) \/ UnlockWriteMutex(t)
    BY <2>9 DEF LockWriteMutex, BlockReaders, UnlockWriteMutex
  <2>10. QED
    BY <2>1, <2>2, <2>3, <2>4, <2>5, <2>6, <2>7, <2>8, <2>9 DEF Release, Step
<1>3. QED
  BY <1>1, <1>2

\* The polls and the locks of mWriteMutex that a thread cannot leave by itself.
Waits(t) == \/ pc[t] = "read" /\ (readsBlocked \/ readers >= MaxReaders)
            \/ pc[t] = "write" /\ wmutex # NoThread
            \/ pc[t] = "wait" /\ readers # numReaders[t]

\* A thread inside a call, or with a hold that it is going to give up.
Busy(t) == pc[t] # "rest" \/ sheld[t] + xheld[t] > 0

\* Every thread that waits, waits for another one that does not: no ring of
\* threads waits for one another.
NoCircularWait ==
  \A t \in Threads : Waits(t) => \E u \in Threads \ {t} : Busy(u) /\ ~Waits(u)

\* Holds of one thread only, and at most one, are what mReaders comes to.
LEMMA OnlyOwnHold == ASSUME TypeOK, ReadersCounted, NEW t \in Threads, sheld[t] <= 1,
                            \A u \in Threads \ {t} : sheld[u] = 0
                     PROVE  readers = sheld[t]
<1>1. CASE sheld[t] = 0
  <2>1. ReadHolds = {}
    BY <1>1 DEF ReadHolds, TypeOK
  <2>2. QED
    BY <1>1, <2>1, FS_EmptySet DEF ReadersCounted
<1>2. CASE sheld[t] = 1
  <2>1. ReadHolds = {<<t, 1>>}
    <3>1. 1 \in 1..MaxDepth
      BY <1>2, USMAssumption DEF TypeOK
    <3>2. \A u \in Threads, k \in 1..MaxDepth : k <= sheld[u] <=> <<u, k>> = <<t, 1>>
      BY <1>2 DEF TypeOK
    <3>3. QED
      BY <3>1, <3>2 DEF ReadHolds
  <2>2. QED
    BY <1>2, <2>1, FS_Singleton DEF ReadersCounted
<1>3. QED
  BY <1>1, <1>2, USMAssumption DEF TypeOK

\* A writer that polls mReaders waits for a reader that does not wait.
LEMMA WriterWaitsForReader ==
  ASSUME IInv, HoldOnceInv, NEW w \in Threads, pc[w] = "wait", Waits(w)
  PROVE  \E u \in Threads \ {w} : sheld[u] > 0 /\ ~Waits(u)
<1> USE DEF IInv, Inv, TypeOK
<1>1. readers # numReaders[w] /\ numReaders[w] = (IF sheld[w] > 0 THEN 1 ELSE 0)
  BY DEF Waits, WaitInv
<1>2. PICK u \in Threads \ {w} : sheld[u] # 0
  BY <1>1, OnlyOwnHold DEF HoldOnceInv
<1>3. pc[u] # "wait"
  BY DEF WriteMutexInv
<1>4. QED
  BY <1>2, <1>3 DEF Waits, HoldOnceInv

\* The owner of mWriteMutex runs, or waits for a reader that runs.
LEMMA BehindWriteMutex ==
  ASSUME IInv, HoldOnceInv, NEW t \in Threads, pc[t] \in {"read", "write"},
         wmutex # NoThread
  PROVE  \E u \in Threads \ {t} : Busy(u) /\ ~Waits(u)
<1> USE DEF IInv, Inv, TypeOK
<1>1. PICK w \in Threads : wmutex = w
  OBVIOUS
<1>2. pc[w] \in {"block", "wait", "unlock"} \/ (xheld[w] = 1 /\ pc[w] = "rest")
  BY <1>1 DEF WriteMutexInv, WaitInv, HoldOnceInv
<1>3. w # t
  BY <1>2
<1>4. CASE pc[w] = "wait" /\ Waits(w)
  <2>1. PICK u \in Threads \ {w} : sheld[u] > 0 /\ ~Waits(u)
    BY <1>4, WriterWaitsForReader
  <2>2. u # t
    BY <2>1 DEF HoldOnceInv
  <2>3. QED
    BY <2>1, <2>2 DEF Busy
<1>5. CASE ~(pc[w] = "wait" /\ Waits(w))
  BY <1>2, <1>3, <1>5 DEF Busy, Waits
<1>6. QED
  BY <1>4, <1>5

\* With callers that hold once and back off, the readers that poll, the writers
\* that lock mWriteMutex and the one that polls mReaders never end up waiting
\* for each other in a ring, provided mMaxReaders admits a reader at all.
THEOREM NoRingOfWaiters ==
  SafeDiscipline /\ MaxReaders > 0 => (Spec => []NoCircularWait)
<1> SUFFICES ASSUME SafeDiscipline, MaxReaders > 0 PROVE Spec => []NoCircularWait
  OBVIOUS
<1>1. Init => HoldOnceInv
  BY DEF Init, HoldOnceInv
<1>2. IInv /\ HoldOnceInv /\ [Next]_vars => HoldOnceInv'
  BY HoldOnceStep
<1>3. IInv /\ HoldOnceInv => NoCircularWait
  <2> SUFFICES ASSUME IInv, HoldOnceInv, NEW t \in Threads, Waits(t)
               PROVE  \E u \in Threads \ {t} : Busy(u) /\ ~Waits(u)
    BY DEF NoCircularWait
  <2> USE DEF IInv, Inv, TypeOK
  <2>1. CASE pc[t] = "wait"
    BY <2>1, WriterWaitsForReader DEF Busy
  <2>2. CASE pc[t] = "write"
    BY <2>2, BehindWriteMutex DEF Waits
  <2>3. CASE pc[t] = "read" /\ readsBlocked
    <3>1. wmutex # NoThread
      BY <2>3, USMAssumption DEF BlockInv, WriteMutexInv
    <3>2. QED
      BY <2>3, <3>1, BehindWriteMutex
  <2>4. CASE pc[t] = "read" /\ ~readsBlocked
    <3>1. readers > 0
      BY <2>4, USMAssumption DEF Waits
    <3>2. PICK u \in Threads \ {t} : sheld[u] # 0
      BY <2>4, <3>1, OnlyOwnHold DEF HoldOnceInv
    <3>3. pc[u] # "wait"
      BY <2>4 DEF BlockInv
    <3>4. QED
      BY <3>2, <3>3 DEF Waits, Busy, HoldOnceInv
  <2>5. QED
    BY <2>1, <2>2, <2>3, <2>4 DEF Waits
<1>4. QED
  BY <1>1, <1>2, <1>3, Invariance, PTL DEF Spec

\* While a writer polls mReaders, mReaders does not go up: what it waits for
\* only becomes less.
WaitShrinks == [][\A w \in Threads : pc[w] = "wait" => readers' <= readers]_vars

\* No reader joins the ones a writer waits for, whatever the callers combine.
THEOREM WritersAreNotOvertaken == Spec => WaitShrinks
<1> DEFINE A == \A w \in Threads : pc[w] = "wait" => readers' <= readers
<1>1. ASSUME IInv, Next PROVE A
  <2> USE <1>1 DEF IInv, Inv, TypeOK
  <2> SUFFICES ASSUME NEW w \in Threads, pc[w] = "wait" PROVE readers' <= readers
    OBVIOUS
  <2>1. readsBlocked
    BY DEF BlockInv
  <2>2. PICK t \in Threads : \/ ReadLock(t)
                             \/ WriteLock(t) \/ WriteTryLock(t)
                             \/ Release(t)
                             \/ Step(t)
    BY <1>1 DEF Next
  <2>3. CASE ReadUnlock(t)
    BY <2>3 DEF ReadUnlock
  <2>4. CASE \E r \in BOOLEAN : WriteUnlock(t, r)
    BY <2>4 DEF WriteUnlock
  <2>5. CASE \/ ReadLock(t) \/ WriteLock(t) \/ WriteTryLock(t) \/ LockWriteMutex(t)
             \/ BlockReaders(t) \/ EndWait(t) \/ UnlockWriteMutex(t)
    BY <2>5 DEF ReadLock, WriteLock, WriteTryLock, LockWriteMutex, BlockReaders, EndWait,
                UnlockWriteMutex
  <2>6. CASE AdmitReader(t)
    BY <2>1, <2>6 DEF AdmitReader
  <2>7. QED
    BY <2>2, <2>3, <2>4, <2>5, <2>6 DEF Release, Step
<1> HIDE DEF A
<1>2. IInv /\ [Next]_vars => [A]_vars
  BY <1>1
<1>3. Spec => [][A]_vars
  BY <1>2, Invariance, PTL DEF Spec
<1>4. QED
  BY <1>3 DEF A, WaitShrinks
=============================================================================
