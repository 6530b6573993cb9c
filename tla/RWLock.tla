------------------------------- MODULE RWLock -------------------------------
(***************************************************************************)
(* What a reader/writer lock of the mp package promises, whatever its      *)
(* implementation: any number of threads share it, or one thread has it    *)
(* alone; the thread that has it alone may also hold shared locks (a       *)
(* writer that upgraded), and each kind of hold is counted, so that it is  *)
(* given back once per acquisition.                                        *)
(*                                                                         *)
(* UpgradableSharedMutex and ContentionFreeSharedMutex implement it.       *)
(***************************************************************************)
EXTENDS Naturals

CONSTANT Threads

VARIABLES sheld,   \* shared holds of each thread
          xheld    \* exclusive holds of each thread

rwvars == <<sheld, xheld>>

RWTypeOK == /\ sheld \in [Threads -> Nat]
            /\ xheld \in [Threads -> Nat]

RWInit == /\ sheld = [t \in Threads |-> 0]
          /\ xheld = [t \in Threads |-> 0]

Others(t) == Threads \ {t}

AcquireShared(t) == /\ \A u \in Others(t) : xheld[u] = 0
                    /\ sheld' = [sheld EXCEPT ![t] = @ + 1]
                    /\ UNCHANGED xheld

ReleaseShared(t) == /\ sheld[t] > 0
                    /\ sheld' = [sheld EXCEPT ![t] = @ - 1]
                    /\ UNCHANGED xheld

AcquireExclusive(t) == /\ \A u \in Others(t) : xheld[u] = 0 /\ sheld[u] = 0
                       /\ xheld' = [xheld EXCEPT ![t] = @ + 1]
                       /\ UNCHANGED sheld

ReleaseExclusive(t) == /\ xheld[t] > 0
                       /\ xheld' = [xheld EXCEPT ![t] = @ - 1]
                       /\ UNCHANGED sheld

\* write-unlock with releasep true gives both holds of an upgraded writer back.
ReleaseBoth(t) == /\ xheld[t] > 0 /\ sheld[t] > 0
                  /\ xheld' = [xheld EXCEPT ![t] = @ - 1]
                  /\ sheld' = [sheld EXCEPT ![t] = @ - 1]

RWNext == \E t \in Threads : \/ AcquireShared(t)
                             \/ ReleaseShared(t)
                             \/ AcquireExclusive(t)
                             \/ ReleaseExclusive(t)
                             \/ ReleaseBoth(t)

RWSpec == RWInit /\ [][RWNext]_rwvars

-----------------------------------------------------------------------------
\* A thread that has the lock alone excludes every hold of every other thread.
Exclusion == \A t, u \in Threads :
                t # u /\ xheld[t] > 0 => xheld[u] = 0 /\ sheld[u] = 0
=============================================================================
