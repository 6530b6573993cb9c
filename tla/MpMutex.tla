------------------------------- MODULE MpMutex -------------------------------
(***************************************************************************)
(* A lock of mp:make-lock and a condition variable used with it: Mutex_O   *)
(* keeps a pthread mutex, a count of its holds and its owner, and          *)
(* ConditionVariable_O hands the pthread mutex to pthread_cond_wait        *)
(* without telling Mutex_O.                                                *)
(*                                                                         *)
(* The operators are the steps of the calls; the module of a client puts   *)
(* them in order.  _Owner is read by mp:holding-lock-p and mp:lock-owner   *)
(* without the lock, so that it is written by steps of its own.            *)
(***************************************************************************)
EXTENDS Integers, FiniteSets

CONSTANTS Threads, NoThread

VARIABLES holder,   \* the thread that has the pthread mutex
          counter,  \* _Counter
          owner,    \* _Owner, NoThread for NIL
          asleep    \* the threads blocked on the condition variable

MutexInit == /\ holder = NoThread
             /\ counter = 0
             /\ owner = NoThread
             /\ asleep = {}

MutexTypeOK == /\ holder \in Threads \cup {NoThread}
               /\ counter \in 0..Cardinality(Threads)
               /\ owner \in Threads \cup {NoThread}
               /\ asleep \subseteq Threads

\* Faulty: the lock is not waited for.
LockMutexAtOnce(t) == /\ holder' = t
                      /\ counter' = counter + 1
                      /\ UNCHANGED <<owner, asleep>>

\* mp:get-lock waits for the pthread mutex and counts the hold,
LockMutex(t) == /\ holder = NoThread
                /\ holder' = t
                /\ counter' = counter + 1
                /\ UNCHANGED <<owner, asleep>>

\* and then writes the owner down.
TakeOwnership(t) == /\ owner' = t
                    /\ UNCHANGED <<holder, counter, asleep>>

\* Faulty: the owner is wiped when nothing is counted any more.
DisownAtZero == /\ owner' = IF counter = 0 THEN NoThread ELSE owner
                /\ counter' = counter - 1
                /\ UNCHANGED <<holder, asleep>>

\* mp:giveup-lock wipes the owner when the count says that the hold is the last,
Disown == /\ owner' = IF counter = 1 THEN NoThread ELSE owner
          /\ counter' = counter - 1
          /\ UNCHANGED <<holder, asleep>>

\* and then unlocks the pthread mutex.
UnlockMutex == /\ holder' = NoThread
               /\ UNCHANGED <<counter, owner, asleep>>

\* pthread_cond_wait: the thread lets the pthread mutex go and falls asleep.
CondWait(t) == /\ holder' = NoThread
               /\ asleep' = asleep \cup {t}
               /\ UNCHANGED <<counter, owner>>

\* It wakes up on a signal, after its time, or for no reason.
CondWakeUp(t) == /\ t \in asleep
                 /\ asleep' = asleep \ {t}
                 /\ UNCHANGED <<holder, counter, owner>>

\* Faulty: the hold is counted again.
CondReturnCounted(t) == /\ t \notin asleep
                        /\ holder = NoThread
                        /\ holder' = t
                        /\ counter' = counter + 1
                        /\ UNCHANGED <<owner, asleep>>

\* It returns when it has the pthread mutex again.
CondReturn(t) == /\ t \notin asleep
                 /\ holder = NoThread
                 /\ holder' = t
                 /\ UNCHANGED <<counter, owner, asleep>>

\* Faulty: nobody is woken up.
CondSignalNobody == UNCHANGED <<holder, counter, owner, asleep>>

\* pthread_cond_signal wakes at least one of the threads that sleep.
CondSignal == /\ \/ asleep = {} /\ UNCHANGED asleep
                 \/ \E woken \in SUBSET asleep : /\ woken # {}
                                                 /\ asleep' = asleep \ woken
              /\ UNCHANGED <<holder, counter, owner>>
=============================================================================
