---------------------------- MODULE MessageQueue ----------------------------
(***************************************************************************)
(* core::queue of queue.lisp: a list of messages with its head and tail,   *)
(* a lock, and a condition variable that tells that it is not empty.       *)
(*                                                                         *)
(* A message stands for its list cell: Next of the cell is the message     *)
(* enqueued after it.  dequeue-timed is dequeue: it ignores its time.      *)
(* queue-emptyp reads one variable without the lock and is left out.       *)
(***************************************************************************)
EXTENDS Integers, Sequences, FiniteSets, Functions

CONSTANTS Threads,     \* the threads that use the queue
          NoThread,    \* NIL as the owner of a lock
          MaxMessages  \* bound of the model: messages ever enqueued

ASSUME MQAssumption == /\ IsFiniteSet(Threads)
                       /\ NoThread \notin Threads
                       /\ MaxMessages \in Nat

VARIABLES head, tail,  \* queue-head and queue-tail: a message, 0 for NIL
          next,        \* the CDR of each cell
          sent,        \* the messages made so far
          got,         \* the messages returned, in the order they were taken
          pc,          \* where each thread is in its call, "rest" outside of one
          op,          \* the call
          msg,         \* the argument of enqueue
          holder, counter, owner, asleep

mutexvars == <<holder, counter, owner, asleep>>
queuevars == <<head, tail, next, sent, got, msg>>
vars == <<head, tail, next, sent, got, pc, op, msg, holder, counter, owner, asleep>>

Mutex == INSTANCE MpMutex

Messages == 1..MaxMessages
Ops == {"enqueue", "dequeue", "dequeue_timeout", "count"}
Labels == {"rest", "lock", "own", "body", "signal", "sleep", "disown", "unlock"}

Init == /\ head = 0 /\ tail = 0
        /\ next = [m \in Messages |-> 0]
        /\ sent = 0
        /\ got = <<>>
        /\ pc = [t \in Threads |-> "rest"]
        /\ op = [t \in Threads |-> "none"]
        /\ msg = [t \in Threads |-> 0]
        /\ Mutex!MutexInit

Goto(t, from, to) == pc[t] = from /\ pc' = [pc EXCEPT ![t] = to]

-----------------------------------------------------------------------------
\* A call begins, with-lock first.
Call(t, o) == /\ Goto(t, "rest", "lock")
              /\ op' = [op EXCEPT ![t] = o]
              /\ \/ /\ o = "enqueue"
                    /\ sent < MaxMessages
                    /\ sent' = sent + 1
                    /\ msg' = [msg EXCEPT ![t] = sent + 1]
                 \/ /\ o # "enqueue"
                    /\ UNCHANGED <<sent, msg>>
              /\ UNCHANGED <<head, tail, next, got, mutexvars>>

Lock(t) == /\ Goto(t, "lock", "own")
           /\ Mutex!LockMutex(t)
           /\ UNCHANGED <<queuevars, op>>

Own(t) == /\ Goto(t, "own", "body")
          /\ Mutex!TakeOwnership(t)
          /\ UNCHANGED <<queuevars, op>>

-----------------------------------------------------------------------------
\* Faulty: the tail is not moved to the new cell.
LinkHeadOnly(m) == IF tail # 0 THEN /\ next' = [next EXCEPT ![tail] = m]
                                    /\ UNCHANGED <<head, tail>>
                               ELSE /\ head' = m /\ tail' = m
                                    /\ UNCHANGED next

\* The cell goes behind the tail, or becomes the list.
Link(m) == IF tail # 0 THEN /\ next' = [next EXCEPT ![tail] = m]
                            /\ tail' = m
                            /\ UNCHANGED head
                       ELSE /\ head' = m /\ tail' = m
                            /\ UNCHANGED next

Enqueue(t) == /\ Goto(t, "body", "signal")
              /\ op[t] = "enqueue"
              /\ Link(msg[t])
              /\ msg' = [msg EXCEPT ![t] = 0]
              /\ UNCHANGED <<sent, got, op, mutexvars>>

Signal(t) == /\ Goto(t, "signal", "disown")
             /\ Mutex!CondSignal
             /\ UNCHANGED <<queuevars, op>>

Dequeuing(t) == op[t] \in {"dequeue", "dequeue_timeout"}

\* Faulty: the tail stays on the last cell that was taken.
UnlinkHeadOnly == /\ head' = next[head]
                  /\ UNCHANGED tail

\* The last cell leaves both ends NIL.
Unlink == IF head = tail THEN head' = 0 /\ tail' = 0
                         ELSE head' = next[head] /\ UNCHANGED tail

Dequeue(t) == /\ Goto(t, "body", "disown")
              /\ Dequeuing(t)
              /\ head # 0
              /\ got' = Append(got, head)
              /\ Unlink
              /\ UNCHANGED <<next, sent, op, msg, mutexvars>>

Wait(t) == /\ Goto(t, "body", "sleep")
           /\ Dequeuing(t)
           /\ head = 0
           /\ Mutex!CondWait(t)
           /\ UNCHANGED <<queuevars, op>>

\* Timed out, or spurious.
WakeUp(t) == /\ pc[t] = "sleep"
             /\ Mutex!CondWakeUp(t)
             /\ UNCHANGED <<queuevars, op, pc>>

\* The loop goes round again, or gives up: with a timeout an empty queue ends
\* the call even if the time is not up.
Return(t) == /\ Goto(t, "sleep", IF op[t] = "dequeue_timeout" /\ head = 0
                                 THEN "disown" ELSE "body")
             /\ Mutex!CondReturn(t)
             /\ UNCHANGED <<queuevars, op>>

Count(t) == /\ Goto(t, "body", "disown")
            /\ op[t] = "count"
            /\ UNCHANGED <<queuevars, op, mutexvars>>

Disown(t) == /\ Goto(t, "disown", "unlock")
             /\ Mutex!Disown
             /\ UNCHANGED <<queuevars, op>>

Unlock(t) == /\ Goto(t, "unlock", "rest")
             /\ op' = [op EXCEPT ![t] = "none"]
             /\ Mutex!UnlockMutex
             /\ UNCHANGED queuevars

-----------------------------------------------------------------------------
\* What a thread does by itself once it is inside a call.
Step(t) == \/ Lock(t) \/ Own(t)
           \/ Enqueue(t) \/ Signal(t)
           \/ Dequeue(t) \/ Wait(t) \/ Return(t)
           \/ Count(t)
           \/ Disown(t) \/ Unlock(t)

Next == \E t \in Threads : \/ \E o \in Ops : Call(t, o)
                           \/ WakeUp(t)
                           \/ Step(t)

Spec == Init /\ [][Next]_vars

(***************************************************************************)
(* A thread inside a call keeps running; of the threads that wait for the  *)
(* lock again and again each gets it at last, which pthreads leaves to the *)
(* scheduler.  A timeout expires.                                          *)
(***************************************************************************)
Fairness == \A t \in Threads :
               /\ WF_vars(Step(t))
               /\ SF_vars(Lock(t)) /\ SF_vars(Return(t))
               /\ WF_vars(op[t] = "dequeue_timeout" /\ WakeUp(t))

FairSpec == Spec /\ Fairness

-----------------------------------------------------------------------------
TypeOK == /\ head \in 0..MaxMessages /\ tail \in 0..MaxMessages
          /\ next \in [Messages -> 0..MaxMessages]
          /\ sent \in 0..MaxMessages
          /\ got \in Seq(Messages)
          /\ pc \in [Threads -> Labels]
          /\ op \in [Threads -> Ops \cup {"none"}]
          /\ msg \in [Threads -> 0..MaxMessages]
          /\ Mutex!MutexTypeOK

\* The threads between get-lock and giveup-lock that do not wait.
Inside(t) == pc[t] \in {"own", "body", "signal", "disown", "unlock"}

\* The pthread mutex keeps the others out, also of a body that waited.
Exclusion == \A t \in Threads : Inside(t) <=> holder = t

\* _Counter counts the holds and the sleepers, so that the last of them to give
\* the lock up finds 1 and wipes the owner, whoever it was.
CounterInv ==
  /\ \A t \in asleep : pc[t] = "sleep"
  /\ (\A t \in Threads : pc[t] \in {"rest", "lock"}) => counter = 0 /\ owner = NoThread

Lists == UNION {[1..n -> Messages] : n \in 0..MaxMessages}

\* The cells from the head on are those of s.
IsList(s) == /\ head = IF s = <<>> THEN 0 ELSE s[1]
             /\ \A i \in 1..Len(s) : next[s[i]] = IF i = Len(s) THEN 0 ELSE s[i + 1]

\* The messages in the list.
Contents == CHOOSE s \in Lists : IsList(s)

\* The head and the tail are the ends of one list, and every message is with the
\* thread that enqueues it, in the list, or taken.
ListInv == /\ head = 0 <=> tail = 0
           /\ tail # 0 => next[tail] = 0
           /\ 1..sent = {m \in Messages : \E t \in Threads : msg[t] = m}
                          \cup Range(Contents) \cup Range(got)

Fifo == INSTANCE FifoQueue WITH queue <- Contents

\* Messages come out once and in the order they went in.
ImplementsFifo == Fifo!FifoSpec

\* No wakeup is lost: a message does not stay in the queue while a thread
\* sleeps for one.
NoLostWakeUp == \A t \in Threads :
                   t \in asleep /\ head # 0 ~> t \notin asleep \/ head = 0
=============================================================================
