------------------------ MODULE MessageQueue_proofs ------------------------
(***************************************************************************)
(* Theorems about MessageQueue, for any finite set of threads and any      *)
(* number of messages: the lock excludes and its count is right            *)
(* (MutexIInv), the two ends of the list belong to one sequence of cells   *)
(* (Holds), and the list implements FifoQueue.                             *)
(***************************************************************************)
EXTENDS MessageQueue, FiniteSetTheorems, FunctionTheorems, SequenceTheorems, WellFoundedInduction,
        TLAPS

\* The threads whose hold is counted: they are inside, or wait for a message.
Counted == {t \in Threads : pc[t] \in {"own", "body", "signal", "sleep", "disown"}}

QueueTyped == /\ head \in 0..MaxMessages /\ tail \in 0..MaxMessages
              /\ next \in [Messages -> 0..MaxMessages]
              /\ sent \in 0..MaxMessages
              /\ got \in Seq(Messages)
              /\ op \in [Threads -> Ops \cup {"none"}]
              /\ msg \in [Threads -> 0..MaxMessages]

PlaceTyped == /\ pc \in [Threads -> Labels]
              /\ holder \in Threads \cup {NoThread}
              /\ owner \in Threads \cup {NoThread}

Sleepers == asleep \subseteq Threads /\ \A t \in asleep : pc[t] = "sleep"

\* The count is that of the threads it should count, and without a hold there is
\* no owner.
Counting == counter = Cardinality(Counted) /\ (counter = 0 => owner = NoThread)

MutexIInv == PlaceTyped /\ Exclusion /\ Sleepers /\ Counting

\* The threads that are counted are a finite set.
LEMMA CountedFinite == /\ IsFiniteSet(Counted) /\ Cardinality(Counted) \in Nat
                       /\ Cardinality(Threads) \in Nat /\ Cardinality(Counted) <= Cardinality(Threads)
<1>1. IsFiniteSet(Threads) /\ Counted \subseteq Threads
  BY MQAssumption DEF Counted
<1>2. QED
  BY <1>1, FS_Subset, FS_CardinalityType

\* A thread that comes to be counted adds one,
LEMMA CountOne == ASSUME PlaceTyped, NEW t \in Threads, t \notin Counted, Counted' = Counted \cup {t}
                  PROVE  Cardinality(Counted') = Cardinality(Counted) + 1
BY CountedFinite, FS_AddElement

\* and one that is not counted any more takes one away.
LEMMA UncountOne == ASSUME PlaceTyped, NEW t \in Counted, Counted' = Counted \ {t}
                    PROVE  /\ Cardinality(Counted) > 0
                           /\ Cardinality(Counted') = Cardinality(Counted) - 1
<1>1. Cardinality(Counted') = Cardinality(Counted) - 1
  BY CountedFinite, FS_RemoveElement
<1>2. Cardinality(Counted) # 0
  BY CountedFinite, FS_EmptySet
<1>3. QED
  BY <1>1, <1>2, CountedFinite

\* At first nobody is inside.
LEMMA InitMutex == Init => MutexIInv
<1> SUFFICES ASSUME Init PROVE MutexIInv
  OBVIOUS
<1>1. Counted = {}
  BY DEF Init, Counted
<1>2. Cardinality(Counted) = 0
  BY <1>1, FS_EmptySet
<1>3. QED
  BY <1>2, MQAssumption DEF Init, Mutex!MutexInit, MutexIInv, PlaceTyped, Exclusion, Inside, Sleepers,
                          Counting, Labels

\* A step that leaves the lock alone, and everybody inside who is.
LEMMA Elsewhere ==
  ASSUME MutexIInv, NEW t \in Threads, NEW from \in Labels, NEW to \in Labels,
         Goto(t, from, to), UNCHANGED <<holder, counter, owner>>,
         asleep' \subseteq asleep, from # "sleep", to # "sleep",
         from \in {"rest", "lock"} <=> to \in {"rest", "lock"},
         from = "unlock" <=> to = "unlock"
  PROVE  MutexIInv'
<1>1. pc' \in [Threads -> Labels] /\ pc[t] = from /\ pc'[t] = to
      /\ \A u \in Threads : u # t => pc'[u] = pc[u]
  BY DEF Goto, MutexIInv, PlaceTyped
<1>2. Counted' = Counted
  BY <1>1 DEF Counted, Labels
<1>3. Sleepers'
  BY <1>1 DEF MutexIInv, Sleepers
<1>4. Exclusion'
  BY <1>1 DEF MutexIInv, Exclusion, Inside, Labels
<1>5. QED
  BY <1>1, <1>2, <1>3, <1>4 DEF MutexIInv, PlaceTyped, Counting

\* Every step keeps the lock, its count and the sleepers in agreement.
LEMMA NextMutex == MutexIInv /\ [Next]_vars => MutexIInv'
<1> SUFFICES ASSUME MutexIInv, [Next]_vars PROVE MutexIInv'
  OBVIOUS
<1> USE DEF mutexvars
<1>1. ASSUME NEW t \in Threads, NEW o \in Ops, Call(t, o) PROVE MutexIInv'
  BY <1>1, Elsewhere DEF Call, Labels
<1>2. ASSUME NEW t \in Threads, WakeUp(t) PROVE MutexIInv'
  <2>1. UNCHANGED <<pc, holder, counter, owner>> /\ asleep' = asleep \ {t}
    BY <1>2 DEF WakeUp, Mutex!CondWakeUp
  <2>2. QED
    BY <2>1 DEF MutexIInv, PlaceTyped, Exclusion, Inside, Sleepers, Counting, Counted
<1>3. ASSUME NEW t \in Threads, Lock(t) PROVE MutexIInv'
  <2>1. /\ pc[t] = "lock" /\ pc' = [pc EXCEPT ![t] = "own"]
        /\ holder = NoThread /\ holder' = t /\ counter' = counter + 1 /\ UNCHANGED <<owner, asleep>>
    BY <1>3 DEF Lock, Goto, Mutex!LockMutex
  <2>2. /\ pc' \in [Threads -> Labels] /\ pc'[t] = "own"
        /\ \A u \in Threads : u # t => pc'[u] = pc[u]
    BY <2>1 DEF MutexIInv, PlaceTyped, Labels
  <2>3. t \notin Counted /\ Counted' = Counted \cup {t}
    BY <2>1, <2>2 DEF Counted
  <2>4. Counting'
    BY <2>1, <2>3, CountOne, CountedFinite DEF MutexIInv, Counting
  <2>5. Exclusion'
    BY <2>1, <2>2, MQAssumption DEF MutexIInv, Exclusion, Inside
  <2>6. Sleepers'
    BY <2>1, <2>2 DEF MutexIInv, Sleepers
  <2>7. QED
    BY <2>1, <2>2, <2>4, <2>5, <2>6 DEF MutexIInv, PlaceTyped
<1>4. ASSUME NEW t \in Threads, Own(t) PROVE MutexIInv'
  <2>1. /\ pc[t] = "own" /\ pc' = [pc EXCEPT ![t] = "body"]
        /\ owner' = t /\ UNCHANGED <<holder, counter, asleep>>
    BY <1>4 DEF Own, Goto, Mutex!TakeOwnership
  <2>2. /\ pc' \in [Threads -> Labels] /\ pc'[t] = "body"
        /\ \A u \in Threads : u # t => pc'[u] = pc[u]
    BY <2>1 DEF MutexIInv, PlaceTyped, Labels
  <2>3. t \in Counted /\ Counted' = Counted
    BY <2>1, <2>2 DEF Counted
  <2>4. counter # 0
    BY <2>3, CountedFinite, FS_EmptySet DEF MutexIInv, Counting
  <2>5. Exclusion' /\ Sleepers'
    BY <2>1, <2>2 DEF MutexIInv, Exclusion, Inside, Sleepers
  <2>6. QED
    BY <2>1, <2>2, <2>3, <2>4, <2>5 DEF MutexIInv, PlaceTyped, Counting
<1>5. ASSUME NEW t \in Threads, Enqueue(t) \/ Signal(t) \/ Dequeue(t) \/ Count(t) PROVE MutexIInv'
  <2>1. UNCHANGED <<holder, counter, owner>> /\ asleep' \subseteq asleep
    BY <1>5 DEF Enqueue, Signal, Dequeue, Count, Mutex!CondSignal
  <2>2. \/ Goto(t, "body", "signal") \/ Goto(t, "signal", "disown") \/ Goto(t, "body", "disown")
    BY <1>5 DEF Enqueue, Signal, Dequeue, Count
  <2>3. QED
    BY <2>1, <2>2, Elsewhere DEF Labels
<1>6. ASSUME NEW t \in Threads, Wait(t) PROVE MutexIInv'
  <2>1. /\ pc[t] = "body" /\ pc' = [pc EXCEPT ![t] = "sleep"]
        /\ holder' = NoThread /\ asleep' = asleep \cup {t} /\ UNCHANGED <<counter, owner>>
    BY <1>6 DEF Wait, Goto, Mutex!CondWait
  <2>2. /\ pc' \in [Threads -> Labels] /\ pc'[t] = "sleep"
        /\ \A u \in Threads : u # t => pc'[u] = pc[u]
    BY <2>1 DEF MutexIInv, PlaceTyped, Labels
  <2>3. Counted' = Counted
    BY <2>1, <2>2 DEF Counted
  <2>4. Exclusion'
    BY <2>1, <2>2, MQAssumption DEF MutexIInv, Exclusion, Inside
  <2>5. Sleepers'
    BY <2>1, <2>2 DEF MutexIInv, Sleepers
  <2>6. QED
    BY <2>1, <2>2, <2>3, <2>4, <2>5 DEF MutexIInv, PlaceTyped, Counting
<1>7. ASSUME NEW t \in Threads, Return(t) PROVE MutexIInv'
  <2>1. PICK to \in {"disown", "body"} : pc[t] = "sleep" /\ pc' = [pc EXCEPT ![t] = to]
    BY <1>7 DEF Return, Goto
  <2>2. t \notin asleep /\ holder = NoThread /\ holder' = t /\ UNCHANGED <<counter, owner, asleep>>
    BY <1>7 DEF Return, Mutex!CondReturn
  <2>3. /\ pc' \in [Threads -> Labels] /\ pc'[t] = to
        /\ \A u \in Threads : u # t => pc'[u] = pc[u]
    BY <2>1 DEF MutexIInv, PlaceTyped, Labels
  <2>4. Counted' = Counted
    BY <2>1, <2>3 DEF Counted
  <2>5. Exclusion'
    BY <2>1, <2>2, <2>3, MQAssumption DEF MutexIInv, Exclusion, Inside
  <2>6. Sleepers'
    BY <2>2, <2>3 DEF MutexIInv, Sleepers
  <2>7. QED
    BY <2>2, <2>3, <2>4, <2>5, <2>6 DEF MutexIInv, PlaceTyped, Counting
<1>8. ASSUME NEW t \in Threads, Disown(t) PROVE MutexIInv'
  <2>1. /\ pc[t] = "disown" /\ pc' = [pc EXCEPT ![t] = "unlock"]
        /\ owner' = IF counter = 1 THEN NoThread ELSE owner
        /\ counter' = counter - 1 /\ UNCHANGED <<holder, asleep>>
    BY <1>8 DEF Disown, Goto, Mutex!Disown
  <2>2. /\ pc' \in [Threads -> Labels] /\ pc'[t] = "unlock"
        /\ \A u \in Threads : u # t => pc'[u] = pc[u]
    BY <2>1 DEF MutexIInv, PlaceTyped, Labels
  <2>3. t \in Counted /\ Counted' = Counted \ {t}
    BY <2>1, <2>2 DEF Counted
  <2>4. counter \in Nat /\ counter' = Cardinality(Counted')
    BY <2>1, <2>3, UncountOne, CountedFinite DEF MutexIInv, Counting
  <2>5. counter' = 0 => owner' = NoThread
    BY <2>1, <2>4
  <2>6. Exclusion' /\ Sleepers'
    BY <2>1, <2>2 DEF MutexIInv, Exclusion, Inside, Sleepers
  <2>7. owner' \in Threads \cup {NoThread}
    BY <2>1 DEF MutexIInv, PlaceTyped
  <2>8. QED
    BY <2>1, <2>2, <2>4, <2>5, <2>6, <2>7 DEF MutexIInv, PlaceTyped, Counting
<1>9. ASSUME NEW t \in Threads, Unlock(t) PROVE MutexIInv'
  <2>1. /\ pc[t] = "unlock" /\ pc' = [pc EXCEPT ![t] = "rest"]
        /\ holder' = NoThread /\ UNCHANGED <<counter, owner, asleep>>
    BY <1>9 DEF Unlock, Goto, Mutex!UnlockMutex
  <2>2. /\ pc' \in [Threads -> Labels] /\ pc'[t] = "rest"
        /\ \A u \in Threads : u # t => pc'[u] = pc[u]
    BY <2>1 DEF MutexIInv, PlaceTyped, Labels
  <2>3. Counted' = Counted
    BY <2>1, <2>2 DEF Counted
  <2>4. Exclusion'
    BY <2>1, <2>2, MQAssumption DEF MutexIInv, Exclusion, Inside
  <2>5. Sleepers'
    BY <2>1, <2>2 DEF MutexIInv, Sleepers
  <2>6. QED
    BY <2>1, <2>2, <2>3, <2>4, <2>5 DEF MutexIInv, PlaceTyped, Counting
<1>10. CASE UNCHANGED vars
  BY <1>10 DEF vars, MutexIInv, PlaceTyped, Exclusion, Inside, Sleepers, Counting, Counted
<1>11. QED
  BY <1>1, <1>2, <1>3, <1>4, <1>5, <1>6, <1>7, <1>8, <1>9, <1>10 DEF Next, Step

\* The messages stay within their bound.
LEMMA NextQueue == QueueTyped /\ [Next]_vars => QueueTyped'
<1> SUFFICES ASSUME QueueTyped, [Next]_vars PROVE QueueTyped'
  OBVIOUS
<1> USE DEF QueueTyped
<1>1. ASSUME NEW t \in Threads, NEW o \in Ops, Call(t, o) PROVE QueueTyped'
  <2>1. sent' \in 0..MaxMessages /\ msg' \in [Threads -> 0..MaxMessages]
    <3>1. CASE UNCHANGED <<sent, msg>>
      BY <3>1
    <3>2. CASE sent < MaxMessages /\ sent' = sent + 1 /\ msg' = [msg EXCEPT ![t] = sent + 1]
      <4>1. sent + 1 \in 0..MaxMessages
        BY <3>2, MQAssumption
      <4>2. QED
        BY <3>2, <4>1
    <3>3. QED
      BY <1>1, <3>1, <3>2 DEF Call
  <2>2. op' \in [Threads -> Ops \cup {"none"}]
    BY <1>1 DEF Call
  <2>3. UNCHANGED <<head, tail, next, got>>
    BY <1>1 DEF Call
  <2>4. QED
    BY <2>1, <2>2, <2>3
<1>2. ASSUME NEW t \in Threads,
             WakeUp(t) \/ Lock(t) \/ Own(t) \/ Signal(t) \/ Wait(t) \/ Return(t) \/ Count(t) \/ Disown(t)
      PROVE  QueueTyped'
  BY <1>2 DEF WakeUp, Lock, Own, Signal, Wait, Return, Count, Disown, queuevars
<1>3. ASSUME NEW t \in Threads, Unlock(t) PROVE QueueTyped'
  <2>1. op' \in [Threads -> Ops \cup {"none"}]
    BY <1>3 DEF Unlock
  <2>2. QED
    BY <1>3, <2>1 DEF Unlock, queuevars
<1>4. ASSUME NEW t \in Threads, Enqueue(t) PROVE QueueTyped'
  <2>1. msg[t] \in 0..MaxMessages /\ 0 \in 0..MaxMessages
    BY MQAssumption
  <2>2. msg' \in [Threads -> 0..MaxMessages] /\ UNCHANGED <<sent, got, op>>
    BY <1>4, <2>1 DEF Enqueue
  <2>3. head' \in 0..MaxMessages /\ tail' \in 0..MaxMessages
    BY <1>4, <2>1 DEF Enqueue, Link
  <2>4. next' \in [Messages -> 0..MaxMessages]
    BY <1>4, <2>1 DEF Enqueue, Link
  <2>5. QED
    BY <2>2, <2>3, <2>4
<1>5. ASSUME NEW t \in Threads, Dequeue(t) PROVE QueueTyped'
  <2>1. head \in Messages
    BY <1>5, MQAssumption DEF Dequeue, Messages
  <2>2. got' \in Seq(Messages)
    BY <1>5, <2>1 DEF Dequeue
  <2>3. head' \in 0..MaxMessages /\ tail' \in 0..MaxMessages
    BY <1>5, <2>1, MQAssumption DEF Dequeue, Unlink
  <2>4. QED
    BY <1>5, <2>2, <2>3 DEF Dequeue
<1>6. CASE UNCHANGED vars
  BY <1>6 DEF vars
<1>7. QED
  BY <1>1, <1>2, <1>3, <1>4, <1>5, <1>6 DEF Next, Step

\* Both parts of the invariant hold in every state.
THEOREM Invariance == Spec => [](MutexIInv /\ QueueTyped)
<1>1. Init => QueueTyped
  BY MQAssumption DEF Init, QueueTyped
<1>2. QED
  BY <1>1, InitMutex, NextMutex, NextQueue, PTL DEF Spec

\* Every variable of the queue and of its lock has the values it should have.
THEOREM TypeCorrect == Spec => []TypeOK
<1>1. MutexIInv /\ QueueTyped => TypeOK
  <2> SUFFICES ASSUME MutexIInv, QueueTyped PROVE TypeOK
    OBVIOUS
  <2>1. Mutex!Cardinality(Threads) = Cardinality(Threads)
    BY DEF Mutex!Cardinality, Cardinality
  <2>2. counter \in 0..Mutex!Cardinality(Threads)
    BY <2>1, CountedFinite DEF MutexIInv, Counting
  <2>3. Mutex!MutexTypeOK
    BY <2>2 DEF MutexIInv, PlaceTyped, Sleepers, Mutex!MutexTypeOK
  <2>4. QED
    BY <2>3 DEF MutexIInv, PlaceTyped, QueueTyped, TypeOK
<1>2. QED
  BY <1>1, Invariance, PTL

\* At most one thread is inside, though bodies give the lock up and take it back
\* while they wait (condition-variable-wait).
THEOREM MutualExclusion == Spec => []Exclusion
<1>1. MutexIInv => Exclusion
  BY DEF MutexIInv
<1>2. QED
  BY <1>1, Invariance, PTL

\* The count of the holds comes back to zero, and the owner goes with the last of
\* them (giveup-lock), though waiting threads let the lock go without counting.
THEOREM HoldsAreCounted == Spec => []CounterInv
<1>1. MutexIInv => CounterInv
  <2> SUFFICES ASSUME MutexIInv PROVE CounterInv
    OBVIOUS
  <2>1. ASSUME \A t \in Threads : pc[t] \in {"rest", "lock"} PROVE counter = 0
    <3>1. Counted = {}
      BY <2>1 DEF Counted
    <3>2. QED
      BY <3>1, FS_EmptySet DEF MutexIInv, Counting
  <2>2. QED
    BY <2>1 DEF MutexIInv, Sleepers, Counting, CounterInv
<1>2. QED
  BY <1>1, Invariance, PTL
-----------------------------------------------------------------------------
\* A set of numbers has a least one.
LEMMA LeastNat == ASSUME NEW T \in SUBSET Nat, T # {} PROVE \E x \in T : \A y \in T : x <= y
<1> DEFINE R == OpToRel(<, Nat)
<1>1. IsWellFoundedOn(R, Nat)
  BY NatLessThanWellFounded
<1>2. \A x, y \in Nat : <<y, x>> \in R <=> y < x
  BY DEF OpToRel
<1> HIDE DEF R
<1>3. \E x \in T: \A y \in T: ~(<<y, x>> \in R)
  BY <1>1, WFMin
<1>4. PICK x \in T : \A y \in T : ~(<<y, x>> \in R)
  BY <1>3
<1>5. ASSUME NEW y \in T PROVE x <= y
  <2>1. x \in Nat /\ y \in Nat /\ ~(<<y, x>> \in R)
    BY <1>4
  <2>2. ~(y < x)
    BY <1>2, <2>1
  <2>3. QED
    BY <2>1, <2>2
<1>6. QED
  BY <1>5

\* Of two sequences of cells from the head on, neither is longer.
LEMMA ListAgrees == ASSUME NEW r \in Seq(Messages), NEW s \in Seq(Messages), IsList(r), IsList(s),
                           NEW i \in 1..Len(r)
                    PROVE  i <= Len(s) /\ r[i] = s[i]
<1> DEFINE Bad == {j \in 1..Len(r) : ~(j <= Len(s) /\ r[j] = s[j])}
<1> SUFFICES ASSUME Bad # {} PROVE FALSE
  OBVIOUS
<1>1. 0 \notin Messages /\ Len(r) \in Nat /\ Len(s) \in Nat
  BY DEF Messages
<1>2. Bad \in SUBSET Nat
  OBVIOUS
<1>3. PICK m \in Bad : \A j \in Bad : m <= j
  <2> HIDE DEF Bad
  <2>1. QED
    BY <1>2, LeastNat
<1>4. m \in 1..Len(r) /\ r[m] \in Messages /\ ~(m <= Len(s) /\ r[m] = s[m])
  OBVIOUS
<1>5. \A j \in 1..Len(r) : j < m => j <= Len(s) /\ r[j] = s[j]
  BY <1>3, <1>4
<1> HIDE DEF Bad
<1>6. CASE m = 1
  <2>1. head = r[1] /\ head # 0 /\ r # <<>>
    BY <1>1, <1>4, <1>6 DEF IsList
  <2>2. s # <<>> /\ head = s[1]
    BY <2>1 DEF IsList
  <2>3. Len(s) > 0
    BY <1>1, <2>2, EmptySeq
  <2>4. QED
    BY <1>1, <1>4, <1>6, <2>1, <2>2, <2>3
<1>7. CASE m > 1
  <2>1. m - 1 \in 1..Len(r) /\ m - 1 \in 1..Len(s) /\ r[m - 1] = s[m - 1]
    BY <1>1, <1>4, <1>5, <1>7
  <2>2. next[r[m - 1]] = r[m]
    BY <1>4, <2>1 DEF IsList
  <2>3. next[s[m - 1]] = IF m - 1 = Len(s) THEN 0 ELSE s[m]
    BY <1>4, <2>1 DEF IsList
  <2>4. m - 1 # Len(s) /\ r[m] = s[m]
    BY <1>1, <1>4, <2>1, <2>2, <2>3
  <2>5. QED
    BY <1>1, <1>4, <2>1, <2>4
<1>8. QED
  BY <1>1, <1>4, <1>6, <1>7

\* The list is one sequence of messages.
LEMMA OneList == ASSUME NEW r \in Seq(Messages), NEW s \in Seq(Messages), IsList(r), IsList(s)
                 PROVE  r = s
<1>1. Len(r) \in Nat /\ Len(s) \in Nat
  OBVIOUS
<1>2. \A i \in 1..Len(r) : i <= Len(s) /\ r[i] = s[i]
  BY ListAgrees
<1>3. \A i \in 1..Len(s) : i <= Len(r)
  BY ListAgrees
<1>4. Len(r) = Len(s)
  BY <1>1, <1>2, <1>3
<1>5. QED
  BY <1>2, <1>4, SeqEqual
-----------------------------------------------------------------------------
Distinct(s) == \A i, j \in 1..Len(s) : s[i] = s[j] => i = j
InList(m, s) == \E i \in 1..Len(s) : s[i] = m
Given(m) == \E t \in Threads : msg[t] = m
Enqueuing(t) == op[t] = "enqueue" /\ pc[t] \in {"lock", "own", "body"}

\* The cells of the list are those of s, with the tail at the end; a message that
\* is not made, or not enqueued, is in no cell before another; each message that
\* was made is with one thread, in the list, or taken.
Holds(s) == /\ s \in Seq(Messages) /\ IsList(s) /\ Distinct(s)
            /\ tail = IF s = <<>> THEN 0 ELSE s[Len(s)]
            /\ \A m \in Messages : m > sent \/ Given(m) => next[m] = 0 /\ ~InList(m, s)
            /\ \A t, u \in Threads : msg[t] # 0 /\ msg[t] = msg[u] => t = u
            /\ \A t \in Threads : msg[t] <= sent
            /\ \A t \in Threads : msg[t] # 0 <=> Enqueuing(t)
            /\ \A m \in Messages : m <= sent <=> Given(m) \/ InList(m, s) \/ InList(m, got)

\* What a step does to the list: nothing, a message at its end, or the first taken.
Becomes(s, r) == \/ r = s /\ got' = got
                 \/ got' = got /\ \E m \in Messages : r = Append(s, m)
                 \/ s # <<>> /\ r = Tail(s) /\ got' = Append(got, Head(s))

\* The list is s whenever it can be.
Only == \A s : Holds(s) => Contents = s

\* A list has no more cells than there are messages, so that it is among Lists.
LEMMA ContentsIs == Only
<1> SUFFICES ASSUME NEW s, Holds(s) PROVE Contents = s
  BY DEF Only
<1>1. s \in Seq(Messages) /\ IsList(s) /\ Distinct(s)
  BY DEF Holds
<1>2. Len(s) \in Nat /\ s \in [1..Len(s) -> Messages]
  BY <1>1
<1>3. s \in Injection(1..Len(s), Messages)
  BY <1>1, <1>2 DEF Distinct, Injection, IsInjective
<1>4. IsFiniteSet(Messages) /\ Cardinality(Messages) = MaxMessages
  BY FS_Interval, MQAssumption DEF Messages
<1>5. Cardinality(1..Len(s)) = Len(s)
  BY <1>2, FS_Interval
<1>6. Len(s) <= MaxMessages
  BY <1>3, <1>4, <1>5, FS_Injection
<1>7. s \in Lists
  <2>1. Len(s) \in 0..MaxMessages
    BY <1>2, <1>6, MQAssumption
  <2>2. QED
    BY <1>2, <2>1 DEF Lists
<1>8. Contents \in Lists /\ IsList(Contents)
  BY <1>1, <1>7 DEF Contents
<1>9. Contents \in Seq(Messages)
  BY <1>8 DEF Lists
<1>10. QED
  BY <1>1, <1>8, <1>9, OneList

\* A step that does not touch the list, nor the end of an enqueue.
LEMMA ListStays ==
  ASSUME NEW s, Holds(s), UNCHANGED <<head, tail, next, sent, got, msg>>,
         \A t \in Threads : Enqueuing(t)' <=> Enqueuing(t)
  PROVE  Holds(s)' /\ Becomes(s, s)
BY DEF Holds, IsList, Distinct, Given, InList, Becomes

\* The places of the others are as they were.
LEMMA Moves == ASSUME PlaceTyped, NEW t \in Threads, NEW from, NEW to, Goto(t, from, to)
               PROVE  pc[t] = from /\ pc'[t] = to /\ \A u \in Threads : u # t => pc'[u] = pc[u]
BY DEF PlaceTyped, Goto

\* A message is made for a call of enqueue.
LEMMA CallKeepsList ==
  ASSUME PlaceTyped, QueueTyped, NEW s, Holds(s), NEW t \in Threads, NEW o \in Ops, Call(t, o)
  PROVE  Holds(s)' /\ Becomes(s, s)
<1>1. /\ pc[t] = "rest" /\ pc'[t] = "lock" /\ \A u \in Threads : u # t => pc'[u] = pc[u]
      /\ op'[t] = o /\ \A u \in Threads : u # t => op'[u] = op[u]
  BY Moves DEF Call, QueueTyped
<1>2. UNCHANGED <<head, tail, next, got>>
  BY DEF Call
<1>3. msg[t] = 0
  BY <1>1 DEF Holds, Enqueuing
<1>4. CASE o # "enqueue"
  <2>1. UNCHANGED <<sent, msg>>
    BY <1>4 DEF Call
  <2>2. \A u \in Threads : Enqueuing(u)' <=> Enqueuing(u)
    BY <1>1, <1>4 DEF Enqueuing
  <2>3. QED
    BY <1>2, <2>1, <2>2, ListStays
<1>5. CASE o = "enqueue"
  <2>1. /\ sent < MaxMessages /\ sent' = sent + 1 /\ sent \in Nat
        /\ msg'[t] = sent + 1 /\ \A u \in Threads : u # t => msg'[u] = msg[u]
    BY <1>5 DEF Call, QueueTyped
  <2>2. \A u \in Threads : msg[u] \in Nat /\ msg[u] <= sent
    BY DEF Holds, QueueTyped
  <2>3. \A u \in Threads : msg'[u] <= sent'
    BY <2>1, <2>2
  <2>4. \A u, w \in Threads : msg'[u] # 0 /\ msg'[u] = msg'[w] => u = w
    BY <2>1, <2>2 DEF Holds
  <2>5. \A u \in Threads : msg'[u] # 0 <=> Enqueuing(u)'
    BY <1>1, <1>5, <2>1 DEF Holds, Enqueuing
  <2>6. \A m \in Messages : Given(m)' <=> Given(m) \/ m = sent + 1
    BY <1>3, <2>1 DEF Given, Messages
  <2>7. \A m \in Messages : m > sent' \/ Given(m)' => m > sent \/ Given(m)
    BY <2>1, <2>6 DEF Messages
  <2>8. \A m \in Messages : m <= sent' <=> m <= sent \/ m = sent + 1
    BY <2>1 DEF Messages
  <2>9. Becomes(s, s)
    BY <1>2 DEF Becomes
  <2>10. s \in Seq(Messages) /\ IsList(s)' /\ Distinct(s) /\ tail' = IF s = <<>> THEN 0 ELSE s[Len(s)]
    BY <1>2 DEF Holds, IsList
  <2>11. \A m \in Messages : m > sent' \/ Given(m)' => next'[m] = 0 /\ ~InList(m, s)
    BY <1>2, <2>7 DEF Holds
  <2>12. \A m \in Messages : m <= sent' <=> Given(m)' \/ InList(m, s) \/ InList(m, got')
    BY <1>2, <2>6, <2>8 DEF Holds
  <2>13. QED
    BY <2>3, <2>4, <2>5, <2>9, <2>10, <2>11, <2>12 DEF Holds, InList, Distinct
<1>6. QED
  BY <1>4, <1>5

\* The cell goes to the end of the list.
LEMMA EnqueueAppends ==
  ASSUME PlaceTyped, QueueTyped, NEW s, Holds(s), NEW t \in Threads, Enqueue(t),
         NEW m, m = msg[t], NEW n, n = Len(s), NEW r, r = Append(s, m)
  PROVE  Holds(r)' /\ Becomes(s, r)
<1>1. /\ pc[t] = "body" /\ pc'[t] = "signal" /\ \A u \in Threads : u # t => pc'[u] = pc[u]
      /\ op[t] = "enqueue" /\ UNCHANGED <<op, sent, got>>
      /\ Link(m)
      /\ msg'[t] = 0 /\ \A u \in Threads : u # t => msg'[u] = msg[u]
  BY Moves DEF Enqueue, QueueTyped
<1>2. m # 0 /\ m \in Messages /\ m <= sent
  BY <1>1, MQAssumption DEF Holds, Enqueuing, QueueTyped, Messages
<1>3. next[m] = 0 /\ \A i \in 1..n : s[i] # m
  BY <1>2 DEF Holds, Given, InList
<1>4. /\ n \in Nat /\ s \in Seq(Messages) /\ \A i \in 1..n : s[i] \in Messages
      /\ s = <<>> <=> n = 0
  BY EmptySeq DEF Holds
<1>5. /\ r \in Seq(Messages) /\ Len(r) = n + 1 /\ r[n + 1] = m /\ \A i \in 1..n : r[i] = s[i]
      /\ r # <<>>
  BY <1>2, <1>4
<1>6. 0 \notin Messages
  BY DEF Messages
<1>7. tail # 0 <=> n # 0
  BY <1>4, <1>6 DEF Holds
<1>8. tail' = m /\ head' = IF n = 0 THEN m ELSE head
  BY <1>1, <1>7 DEF Link
<1>9. \A c \in Messages : next'[c] = IF n # 0 /\ c = s[n] THEN m ELSE next[c]
  BY <1>1, <1>4, <1>7 DEF Link, Holds, QueueTyped
<1>10. head' = r[1]
  BY <1>4, <1>5, <1>8 DEF Holds, IsList
<1>11. ASSUME NEW i \in 1..(n + 1) PROVE next'[r[i]] = IF i = n + 1 THEN 0 ELSE r[i + 1]
  <2>1. CASE i = n + 1
    BY <1>2, <1>3, <1>4, <1>5, <1>9, <2>1
  <2>2. CASE i = n /\ n # 0
    BY <1>4, <1>5, <1>9, <2>2
  <2>3. CASE i < n
    <3>1. i \in 1..n /\ i + 1 \in 1..n /\ r[i] = s[i] /\ r[i + 1] = s[i + 1] /\ s[i] # s[n]
      BY <1>4, <1>5, <2>3 DEF Holds, Distinct
    <3>2. next[s[i]] = s[i + 1]
      BY <1>4, <2>3, <3>1 DEF Holds, IsList
    <3>3. QED
      BY <1>4, <1>9, <2>3, <3>1, <3>2
  <2>4. QED
    BY <1>4, <2>1, <2>2, <2>3
<1>12. IsList(r)'
  BY <1>5, <1>10, <1>11 DEF IsList
<1>13. Distinct(r)
  <2>1. \A i \in 1..(n + 1) : i = n + 1 \/ i \in 1..n
    BY <1>4
  <2>2. QED
    BY <1>3, <1>4, <1>5, <2>1 DEF Holds, Distinct
<1>14. \A c \in Messages : InList(c, r) <=> InList(c, s) \/ c = m
  <2>1. \A i \in 1..(n + 1) : i = n + 1 \/ i \in 1..n
    BY <1>4
  <2>2. \A i \in 1..n : i \in 1..(n + 1)
    BY <1>4
  <2>3. n + 1 \in 1..(n + 1)
    BY <1>4
  <2>4. QED
    BY <1>5, <2>1, <2>2, <2>3 DEF InList
<1>15. \A c \in Messages : Given(c) <=> Given(c)' \/ c = m
  BY <1>1, <1>6 DEF Given
<1>16. \A c \in Messages : Given(c)' => Given(c) /\ c # m
  BY <1>1, <1>6 DEF Given, Holds, Messages
<1>17. \A c \in Messages : c > sent \/ Given(c)' => next'[c] = 0 /\ ~InList(c, r)
  <2> SUFFICES ASSUME NEW c \in Messages, c > sent \/ Given(c)' PROVE next'[c] = 0 /\ ~InList(c, r)
    OBVIOUS
  <2>1. c # m /\ next[c] = 0 /\ ~InList(c, s)
    BY <1>2, <1>16 DEF Holds, Messages, QueueTyped
  <2>2. ~InList(c, r)
    BY <1>14, <2>1
  <2>3. ~(n # 0 /\ c = s[n])
    BY <1>4, <2>1 DEF InList
  <2>4. QED
    BY <1>9, <2>1, <2>2, <2>3
<1>18. \A c \in Messages : c <= sent <=> Given(c)' \/ InList(c, r) \/ InList(c, got)
  BY <1>2, <1>14, <1>15 DEF Holds
<1>19. \A u \in Threads : msg'[u] # 0 <=> Enqueuing(u)'
  BY <1>1 DEF Holds, Enqueuing
<1>20. \A u, w \in Threads : msg'[u] # 0 /\ msg'[u] = msg'[w] => u = w
  BY <1>1 DEF Holds
<1>21. \A u \in Threads : msg'[u] <= sent
  BY <1>1 DEF Holds, QueueTyped
<1>22. Becomes(s, r)
  BY <1>1, <1>2 DEF Becomes
<1>23. tail' = IF r = <<>> THEN 0 ELSE r[Len(r)]
  BY <1>5, <1>8
<1>24. Distinct(r)'
  BY <1>13 DEF Distinct
<1>25. \A c \in Messages : c > sent' \/ Given(c)' => next'[c] = 0 /\ ~InList(c, r)'
  BY <1>1, <1>17 DEF InList
<1>26. \A c \in Messages : c <= sent' <=> Given(c)' \/ InList(c, r)' \/ InList(c, got)'
  BY <1>1, <1>18 DEF InList
<1>27. \A u \in Threads : msg'[u] <= sent'
  BY <1>1, <1>21
<1>28. QED
  BY <1>5, <1>12, <1>19, <1>20, <1>22, <1>23, <1>24, <1>25, <1>26, <1>27 DEF Holds

\* The first cell is taken, and with the last one the list is empty.
LEMMA DequeueTakes ==
  ASSUME PlaceTyped, QueueTyped, NEW s, Holds(s), NEW t \in Threads, Dequeue(t),
         NEW n, n = Len(s), NEW r, r = Tail(s)
  PROVE  Holds(r)' /\ Becomes(s, r)
<1>1. /\ head # 0 /\ got' = Append(got, head) /\ Unlink /\ UNCHANGED <<next, sent, op, msg>>
      /\ pc[t] = "body" /\ op[t] # "enqueue" /\ \A u \in Threads : u # t => pc'[u] = pc[u]
  BY Moves DEF Dequeue, Dequeuing
<1>2. s # <<>> /\ head = s[1] /\ s \in Seq(Messages)
  BY <1>1 DEF Holds, IsList
<1>3. n \in Nat \ {0} /\ r \in Seq(Messages) /\ Len(r) = n - 1 /\ \A i \in 1..(n - 1) : r[i] = s[i + 1]
  BY <1>2
<1>4. r = <<>> <=> n = 1
  <2>1. r = <<>> <=> Len(r) = 0
    BY <1>3, EmptySeq
  <2>2. QED
    BY <1>3, <2>1
<1>5. tail = s[n] /\ \A i \in 1..n : s[i] \in Messages
  BY <1>2, <1>3 DEF Holds
<1>6. head = tail <=> n = 1
  BY <1>2, <1>3, <1>5 DEF Holds, Distinct
<1>7. head' = IF r = <<>> THEN 0 ELSE r[1]
  BY <1>1, <1>2, <1>3, <1>4, <1>6 DEF Unlink, Holds, IsList
<1>8. tail' = IF r = <<>> THEN 0 ELSE r[Len(r)]
  BY <1>1, <1>3, <1>4, <1>5, <1>6 DEF Unlink
<1>9. \A i \in 1..(n - 1) : next[r[i]] = IF i = n - 1 THEN 0 ELSE r[i + 1]
  <2> SUFFICES ASSUME NEW i \in 1..(n - 1) PROVE next[r[i]] = IF i = n - 1 THEN 0 ELSE r[i + 1]
    OBVIOUS
  <2>1. i + 1 \in 1..n /\ r[i] = s[i + 1] /\ (i # n - 1 => r[i + 1] = s[i + 2])
    BY <1>3
  <2>2. next[s[i + 1]] = IF i + 1 = n THEN 0 ELSE s[i + 2]
    BY <1>3, <2>1 DEF Holds, IsList
  <2>3. QED
    BY <1>3, <2>1, <2>2
<1>10. IsList(r)'
  BY <1>1, <1>3, <1>7, <1>9 DEF IsList
<1>11. Distinct(r)
  BY <1>3 DEF Holds, Distinct
<1>12. \A c \in Messages : InList(c, s) <=> InList(c, r) \/ c = head
  <2>1. \A i \in 1..n : i = 1 \/ (i - 1 \in 1..(n - 1) /\ r[i - 1] = s[i])
    BY <1>3
  <2>2. \A i \in 1..(n - 1) : i + 1 \in 1..n /\ r[i] = s[i + 1]
    BY <1>3
  <2>3. 1 \in 1..n
    BY <1>3
  <2>4. ASSUME NEW c \in Messages, InList(c, s) PROVE InList(c, r) \/ c = head
    <3>1. PICK i \in 1..n : s[i] = c
      BY <2>4 DEF InList
    <3>2. QED
      BY <1>2, <1>3, <2>1, <3>1 DEF InList
  <2>5. ASSUME NEW c \in Messages, InList(c, r) PROVE InList(c, s)
    <3>1. PICK i \in 1..(n - 1) : r[i] = c
      BY <1>3, <2>5 DEF InList
    <3>2. QED
      BY <1>3, <2>2, <3>1 DEF InList
  <2>6. QED
    BY <1>2, <2>3, <2>4, <2>5 DEF InList
<1>13. \A c \in Messages : InList(c, got') <=> InList(c, got) \/ c = head
  <2>1. got \in Seq(Messages) /\ head \in Messages /\ Len(got) \in Nat
    BY <1>2, <1>3, <1>5 DEF QueueTyped
  <2>2. /\ Len(got') = Len(got) + 1 /\ got'[Len(got) + 1] = head
        /\ \A i \in 1..Len(got) : got'[i] = got[i]
    BY <1>1, <2>1
  <2>3. \A i \in 1..(Len(got) + 1) : i = Len(got) + 1 \/ i \in 1..Len(got)
    BY <2>1
  <2>4. \A i \in 1..Len(got) : i \in 1..(Len(got) + 1)
    BY <2>1
  <2>5. Len(got) + 1 \in 1..(Len(got) + 1)
    BY <2>1
  <2>6. QED
    BY <2>2, <2>3, <2>4, <2>5 DEF InList
<1>14. \A u \in Threads : Enqueuing(u)' <=> Enqueuing(u)
  BY <1>1 DEF Enqueuing
<1>15. \A c \in Messages : c > sent \/ Given(c) => next[c] = 0 /\ ~InList(c, r)
  BY <1>12 DEF Holds
<1>16. \A c \in Messages : c <= sent <=> Given(c) \/ InList(c, r) \/ InList(c, got')
  BY <1>12, <1>13 DEF Holds
<1>17. Becomes(s, r)
  BY <1>1, <1>2 DEF Becomes
<1>18. \A c : Given(c)' <=> Given(c)
  BY <1>1 DEF Given
<1>19. Distinct(r)' /\ \A c : InList(c, r)' <=> InList(c, r)
  BY <1>11 DEF Distinct, InList
<1>20. \A c \in Messages : c > sent' \/ Given(c)' => next'[c] = 0 /\ ~InList(c, r)'
  BY <1>1, <1>15, <1>18, <1>19
<1>21. \A c \in Messages : c <= sent' <=> Given(c)' \/ InList(c, r)' \/ InList(c, got)'
  <2>1. \A c : InList(c, got)' <=> InList(c, got')
    BY DEF InList
  <2>2. QED
    BY <1>1, <1>16, <1>18, <1>19, <2>1
<1>22. /\ \A u, v \in Threads : msg'[u] # 0 /\ msg'[u] = msg'[v] => u = v
       /\ \A u \in Threads : msg'[u] <= sent'
       /\ \A u \in Threads : msg'[u] # 0 <=> Enqueuing(u)'
  BY <1>1, <1>14 DEF Holds
<1>23. Holds(r)'
  BY <1>3, <1>8, <1>10, <1>19, <1>20, <1>21, <1>22 DEF Holds
<1>24. QED
  BY <1>17, <1>23

\* Only dequeue waits.
Waiters == \A t \in Threads : pc[t] = "sleep" => Dequeuing(t)

\* Who sleeps is dequeuing, and the call it sleeps in stays the same.
LEMMA NextWaiters == ASSUME PlaceTyped, QueueTyped, Waiters, [Next]_vars PROVE Waiters'
<1>1. ASSUME NEW t \in Threads, NEW o \in Ops, Call(t, o) PROVE Waiters'
  <2>1. /\ pc'[t] = "lock" /\ \A u \in Threads : u # t => pc'[u] = pc[u]
        /\ \A u \in Threads : u # t => op'[u] = op[u]
    BY <1>1, Moves DEF Call, QueueTyped
  <2>2. QED
    BY <2>1 DEF Waiters, Dequeuing
<1>2. ASSUME NEW t \in Threads, WakeUp(t) PROVE Waiters'
  BY <1>2 DEF WakeUp, Waiters, Dequeuing, queuevars
<1>3. ASSUME NEW t \in Threads, Wait(t) PROVE Waiters'
  <2>1. /\ Dequeuing(t) /\ UNCHANGED op
        /\ \A u \in Threads : u # t => pc'[u] = pc[u]
    BY <1>3, Moves DEF Wait
  <2>2. QED
    BY <2>1 DEF Waiters, Dequeuing
<1>4. ASSUME NEW t \in Threads, Unlock(t) PROVE Waiters'
  <2>1. /\ op'[t] = "none" /\ \A u \in Threads : u # t => pc'[u] = pc[u] /\ op'[u] = op[u]
    BY <1>4, Moves DEF Unlock, QueueTyped
  <2>2. pc'[t] # "sleep"
    BY <1>4, Moves DEF Unlock
  <2>3. QED
    BY <2>1, <2>2 DEF Waiters, Dequeuing
<1>5. ASSUME NEW t \in Threads, Lock(t) \/ Own(t) \/ Enqueue(t) \/ Signal(t) \/ Dequeue(t) \/ Return(t)
                               \/ Count(t) \/ Disown(t)
      PROVE  Waiters'
  <2>1. PICK from \in Labels, to \in Labels \ {"sleep"} : Goto(t, from, to)
    BY <1>5 DEF Lock, Own, Enqueue, Signal, Dequeue, Return, Count, Disown, Labels
  <2>2. /\ UNCHANGED op /\ pc'[t] # "sleep" /\ \A u \in Threads : u # t => pc'[u] = pc[u]
    BY <1>5, <2>1, Moves DEF Lock, Own, Enqueue, Signal, Dequeue, Return, Count, Disown, queuevars
  <2>3. QED
    BY <2>2 DEF Waiters, Dequeuing
<1>6. CASE UNCHANGED vars
  BY <1>6 DEF Waiters, Dequeuing, vars
<1>7. QED
  BY <1>1, <1>2, <1>3, <1>4, <1>5, <1>6 DEF Next, Step

\* Each step takes the list to one that the queue may become.
LEMMA NextList ==
  ASSUME PlaceTyped, QueueTyped, Waiters, NEW s, Holds(s), [Next]_vars
  PROVE  \E r : Holds(r)' /\ Becomes(s, r)
<1>1. ASSUME NEW t \in Threads, NEW o \in Ops, Call(t, o) PROVE Holds(s)' /\ Becomes(s, s)
  BY <1>1, CallKeepsList
<1>2. ASSUME NEW t \in Threads, Enqueue(t) PROVE \E r : Holds(r)' /\ Becomes(s, r)
  BY <1>2, EnqueueAppends
<1>3. ASSUME NEW t \in Threads, Dequeue(t) PROVE \E r : Holds(r)' /\ Becomes(s, r)
  BY <1>3, DequeueTakes
<1>4. ASSUME NEW t \in Threads, WakeUp(t) PROVE Holds(s)' /\ Becomes(s, s)
  BY <1>4, ListStays DEF WakeUp, queuevars, Enqueuing
<1>5. ASSUME NEW t \in Threads, Lock(t) \/ Own(t) PROVE Holds(s)' /\ Becomes(s, s)
  <2>1. UNCHANGED <<queuevars, op>> /\ \E from \in {"lock", "own"}, to \in {"own", "body"} : Goto(t, from, to)
    BY <1>5 DEF Lock, Own
  <2>2. \A u \in Threads : Enqueuing(u)' <=> Enqueuing(u)
    BY <2>1, Moves DEF Enqueuing
  <2>3. QED
    BY <2>1, <2>2, ListStays DEF queuevars
<1>6. ASSUME NEW t \in Threads, Wait(t) \/ Return(t) PROVE Holds(s)' /\ Becomes(s, s)
  <2>1. UNCHANGED <<queuevars, op>> /\ \E from, to : Goto(t, from, to)
    BY <1>6 DEF Wait, Return
  <2>2. op[t] # "enqueue"
    BY <1>6 DEF Wait, Return, Goto, Dequeuing, Waiters
  <2>3. QED
    BY <2>1, <2>2, Moves, ListStays DEF queuevars, Enqueuing
<1>7. ASSUME NEW t \in Threads, Signal(t) \/ Count(t) \/ Disown(t) \/ Unlock(t)
      PROVE Holds(s)' /\ Becomes(s, s)
  <2>1. UNCHANGED queuevars /\ \A u \in Threads : u # t => op'[u] = op[u]
    BY <1>7 DEF Signal, Count, Disown, Unlock, QueueTyped
  <2>2. /\ ~Enqueuing(t)
        /\ pc'[t] \in {"disown", "unlock", "rest"} /\ \A u \in Threads : u # t => pc'[u] = pc[u]
    BY <1>7, Moves DEF Signal, Count, Disown, Unlock, Enqueuing
  <2>3. \A u \in Threads : Enqueuing(u)' <=> Enqueuing(u)
    BY <2>1, <2>2 DEF Enqueuing
  <2>4. QED
    BY <2>1, <2>3, ListStays DEF queuevars
<1>8. CASE UNCHANGED vars
  BY <1>8, ListStays DEF vars, Enqueuing
<1>9. QED
  BY <1>1, <1>2, <1>3, <1>4, <1>5, <1>6, <1>7, <1>8 DEF Next, Step

\* At first the list is empty.
LEMMA InitList == Init => Waiters /\ Holds(<<>>)
<1> SUFFICES ASSUME Init PROVE Waiters /\ Holds(<<>>)
  OBVIOUS
<1>1. \A m : ~InList(m, <<>>)
  BY DEF InList
<1>2. QED
  BY <1>1 DEF Init, Waiters, Holds, IsList, Distinct, Given, Enqueuing, Messages

ListIInv == Waiters /\ \E s : Holds(s)

\* The head and the tail are the ends of one list, and every message that was
\* made is with the thread that enqueues it, in the list, or taken (enqueue and
\* dequeue of queue.lisp).
THEOREM ListIsSound == Spec => []ListInv
<1>1. MutexIInv /\ QueueTyped /\ ListIInv /\ [Next]_vars => ListIInv'
  BY NextWaiters, NextList DEF MutexIInv, ListIInv
<1>2. Init => ListIInv
  BY InitList DEF ListIInv
<1>3. QueueTyped /\ ListIInv => ListInv
  <2> SUFFICES ASSUME QueueTyped, NEW s, Holds(s) PROVE ListInv
    BY DEF ListIInv
  <2>1. Contents = s
    BY ContentsIs DEF Only
  <2>2. Len(s) \in Nat /\ s \in Seq(Messages) /\ (s = <<>> <=> Len(s) = 0)
    BY EmptySeq DEF Holds
  <2>3. 0 \notin Messages
    BY DEF Messages
  <2>4. (head = 0 <=> tail = 0) /\ (tail # 0 => next[tail] = 0)
    BY <2>2, <2>3 DEF Holds, IsList
  <2>5. got \in Seq(Messages)
    BY DEF QueueTyped
  <2>6. \A m : m \in Range(s) <=> InList(m, s)
    BY <2>2 DEF Range, InList
  <2>7. \A m : m \in Range(got) <=> InList(m, got)
    BY <2>5 DEF Range, InList
  <2>8. \A m : InList(m, s) \/ InList(m, got) => m \in Messages
    BY <2>2, <2>5 DEF InList
  <2>9. \A m : m \in 1..sent <=> m \in Messages /\ m <= sent
    BY MQAssumption DEF QueueTyped, Messages
  <2>10. \A m : m \in 1..sent <=> \/ m \in Messages /\ Given(m)
                                  \/ m \in Range(s)
                                  \/ m \in Range(got)
    BY <2>6, <2>7, <2>8, <2>9 DEF Holds
  <2>11. 1..sent = {m \in Messages : \E t \in Threads : msg[t] = m} \cup Range(s) \cup Range(got)
    BY <2>10 DEF Given
  <2>12. QED
    BY <2>1, <2>4, <2>11 DEF ListInv
<1>4. QED
  BY <1>1, <1>2, <1>3, Invariance, PTL DEF Spec

\* Messages come out once and in the order they went in, however enqueues and
\* dequeues meet.
THEOREM Refinement == Spec => ImplementsFifo
<1>1. MutexIInv /\ QueueTyped /\ ListIInv /\ [Next]_vars => ListIInv'
  BY NextWaiters, NextList DEF MutexIInv, ListIInv
<1>2. Init => ListIInv
  BY InitList DEF ListIInv
<1>3. Only
  BY ContentsIs
<1>4. Init => Fifo!FifoInit
  <2> SUFFICES ASSUME Init PROVE Fifo!FifoInit
    OBVIOUS
  <2>1. Contents = <<>>
    BY InitList, ContentsIs DEF Only
  <2>2. QED
    BY <2>1 DEF Init, Fifo!FifoInit
<1>5. Only /\ Only' /\ MutexIInv /\ QueueTyped /\ ListIInv /\ [Next]_vars
        => [Fifo!FifoNext]_<<Contents, got>>
  <2> SUFFICES ASSUME Only, Only', MutexIInv, QueueTyped, Waiters, NEW s, Holds(s), [Next]_vars
               PROVE  [Fifo!FifoNext]_<<Contents, got>>
    BY DEF ListIInv
  <2>1. PICK r : Holds(r)' /\ Becomes(s, r)
    BY NextList DEF MutexIInv
  <2>2. Contents = s /\ Contents' = r
    BY <2>1 DEF Only
  <2>3. CASE r = s /\ got' = got
    BY <2>2, <2>3
  <2>4. CASE got' = got /\ \E m \in Messages : r = Append(s, m)
    BY <2>2, <2>4 DEF Fifo!FifoNext, Fifo!Put
  <2>5. CASE s # <<>> /\ r = Tail(s) /\ got' = Append(got, Head(s))
    BY <2>2, <2>5 DEF Fifo!FifoNext, Fifo!Get
  <2>6. QED
    BY <2>1, <2>3, <2>4, <2>5 DEF Becomes
<1>6. QED
  BY <1>1, <1>2, <1>3, <1>4, <1>5, Invariance, PTL DEF Spec, ImplementsFifo, Fifo!FifoSpec
-----------------------------------------------------------------------------
(***************************************************************************)
(* The wakeups.  A thread that was woken up may find the queue empty: it   *)
(* was another one that took the message.  What holds at every moment is   *)
(* that the threads which are going to look at the list, or to wake one up *)
(* that will, are no fewer than the messages, as long as somebody sleeps.  *)
(***************************************************************************)
Coming == {t \in Threads : \/ pc[t] = "sleep" /\ t \notin asleep
                           \/ pc[t] = "signal"
                           \/ pc[t] = "body" /\ Dequeuing(t)}

NoMessageIsSleptOn == asleep # {} => Len(Contents) <= Cardinality(Coming)

\* The same, of the cells in the list.
Covers(s) == asleep # {} => Len(s) <= Cardinality(Coming)

\* The threads that come are a finite set, in this state and in the next.
LEMMA ComingFinite == /\ IsFiniteSet(Coming) /\ Cardinality(Coming) \in Nat
                      /\ IsFiniteSet(Coming') /\ Cardinality(Coming') \in Nat
<1>1. IsFiniteSet(Threads) /\ Coming \subseteq Threads /\ Coming' \subseteq Threads
  BY MQAssumption DEF Coming
<1>2. QED
  BY <1>1, FS_Subset, FS_CardinalityType

\* While no thread stops coming, and no message is put in, the wakeups suffice.
LEMMA StillCovers ==
  ASSUME NEW s \in Seq(Messages), Covers(s), Coming \subseteq Coming', asleep' \subseteq asleep
  PROVE  Covers(s)'
<1>1. Cardinality(Coming) <= Cardinality(Coming')
  BY ComingFinite, FS_Subset
<1>2. Len(s) \in Nat
  OBVIOUS
<1>3. QED
  BY <1>1, <1>2, ComingFinite DEF Covers

\* An empty list needs nobody.
LEMMA EmptyCovered == Covers(<<>>)'
BY ComingFinite DEF Covers

\* enqueue puts a message in, and is now going to signal.
LEMMA EnqueueCovers ==
  ASSUME PlaceTyped, NEW s \in Seq(Messages), NEW m \in Messages, NEW r, r = Append(s, m),
         Covers(s), NEW t \in Threads, Enqueue(t)
  PROVE  Covers(r)'
<1>1. /\ pc[t] = "body" /\ op[t] = "enqueue" /\ pc'[t] = "signal"
      /\ \A u \in Threads : u # t => pc'[u] = pc[u]
      /\ UNCHANGED <<op, asleep>>
  BY Moves DEF Enqueue, mutexvars
<1>2. t \notin Coming /\ Coming' = Coming \cup {t}
  BY <1>1 DEF Coming, Dequeuing
<1>3. Cardinality(Coming') = Cardinality(Coming) + 1
  BY <1>2, ComingFinite, FS_AddElement
<1>4. Len(r) = Len(s) + 1 /\ Len(s) \in Nat
  OBVIOUS
<1>5. QED
  BY <1>1, <1>3, <1>4, ComingFinite DEF Covers

\* A signal replaces the thread that gives it by one that it wakes up.
LEMMA SignalCovers ==
  ASSUME PlaceTyped, Sleepers, NEW s \in Seq(Messages), Covers(s), NEW t \in Threads, Signal(t)
  PROVE  Covers(s)'
<1>1. /\ pc[t] = "signal" /\ pc'[t] = "disown"
      /\ \A u \in Threads : u # t => pc'[u] = pc[u]
      /\ UNCHANGED op
  BY Moves DEF Signal
<1>2. CASE asleep' = {}
  BY <1>2 DEF Covers
<1>3. CASE asleep' # {}
  <2>1. PICK woken \in SUBSET asleep : woken # {} /\ asleep' = asleep \ woken
    BY <1>3 DEF Signal, Mutex!CondSignal
  <2>2. PICK w \in woken : TRUE
    BY <2>1
  <2>3. w \in Threads /\ pc[w] = "sleep" /\ w \in asleep /\ w # t /\ w \notin asleep'
    BY <1>1, <2>1 DEF Sleepers
  <2>4. w \notin Coming /\ t \in Coming
    BY <1>1, <2>3 DEF Coming
  <2>5. (Coming \ {t}) \cup {w} \subseteq Coming'
    BY <1>1, <2>1, <2>3 DEF Coming, Dequeuing
  <2>6. IsFiniteSet(Coming \ {t}) /\ Cardinality(Coming \ {t}) = Cardinality(Coming) - 1
    BY <2>4, ComingFinite, FS_RemoveElement
  <2> DEFINE rest == Coming \ {t}
  <2>7. w \notin rest /\ IsFiniteSet(rest) /\ Cardinality(rest) = Cardinality(Coming) - 1
    BY <2>4, <2>6
  <2> HIDE DEF rest
  <2>a. Cardinality(rest \cup {w}) = Cardinality(rest) + 1
    BY <2>7, FS_AddElement
  <2>b. Cardinality(rest \cup {w}) = Cardinality(Coming)
    BY <2>7, <2>a, ComingFinite
  <2>8. Cardinality(Coming) <= Cardinality(Coming')
    <3>1. rest \cup {w} \subseteq Coming'
      BY <2>5 DEF rest
    <3>2. QED
      BY <3>1, <2>b, ComingFinite, FS_Subset
  <2>9. Len(s) \in Nat
    OBVIOUS
  <2>10. QED
    BY <2>1, <2>2, <2>8, <2>9, ComingFinite DEF Covers
<1>4. QED
  BY <1>2, <1>3

\* dequeue takes one message out, and comes no more.
LEMMA DequeueCovers ==
  ASSUME PlaceTyped, NEW s \in Seq(Messages), s # <<>>, NEW r, r = Tail(s),
         Covers(s), NEW t \in Threads, Dequeue(t)
  PROVE  Covers(r)'
<1>1. /\ pc[t] = "body" /\ Dequeuing(t) /\ pc'[t] = "disown"
      /\ \A u \in Threads : u # t => pc'[u] = pc[u]
      /\ UNCHANGED <<op, asleep>>
  BY Moves DEF Dequeue, mutexvars
<1>2. t \in Coming /\ Coming' = Coming \ {t}
  BY <1>1 DEF Coming, Dequeuing
<1>3. Cardinality(Coming') = Cardinality(Coming) - 1
  BY <1>2, ComingFinite, FS_RemoveElement
<1>4. Len(r) = Len(s) - 1 /\ Len(s) \in Nat
  OBVIOUS
<1>5. QED
  BY <1>1, <1>3, <1>4, ComingFinite DEF Covers

\* A thread that waits for a message, or gives up, has seen the list empty; one
\* that goes round the loop looks again.
LEMMA WaitCovers ==
  ASSUME PlaceTyped, Waiters, NEW s, Holds(s), Covers(s), NEW t \in Threads, Wait(t) \/ Return(t)
  PROVE  Covers(s)'
<1>1. s \in Seq(Messages) /\ (head = 0 => s = <<>>)
  <2>1. s \in Seq(Messages) /\ (s # <<>> => s[1] \in Messages)
    BY EmptySeq DEF Holds
  <2>2. 0 \notin Messages
    BY DEF Messages
  <2>3. QED
    BY <2>1, <2>2 DEF Holds, IsList
<1>2. CASE head = 0
  BY <1>1, <1>2, EmptyCovered
<1>3. CASE head # 0
  <2>1. Return(t)
    BY <1>3 DEF Wait
  <2>2. /\ pc[t] = "sleep" /\ pc'[t] = "body" /\ Dequeuing(t)
        /\ \A u \in Threads : u # t => pc'[u] = pc[u]
        /\ UNCHANGED <<op, asleep>>
    BY <1>3, <2>1, Moves DEF Return, Mutex!CondReturn, Waiters
  <2>3. Coming \subseteq Coming' /\ asleep' \subseteq asleep
    BY <2>2 DEF Coming, Dequeuing
  <2>4. QED
    BY <1>1, <2>3, StillCovers
<1>4. QED
  BY <1>2, <1>3

\* No other step makes a thread stop coming.
LEMMA OthersCover ==
  ASSUME PlaceTyped, QueueTyped, NEW s \in Seq(Messages), Covers(s), NEW t \in Threads,
         \/ \E o \in Ops : Call(t, o)
         \/ WakeUp(t) \/ Lock(t) \/ Own(t) \/ Count(t) \/ Disown(t) \/ Unlock(t)
  PROVE  Covers(s)'
<1>1. CASE WakeUp(t)
  <2>1. Coming \subseteq Coming' /\ asleep' \subseteq asleep
    BY <1>1 DEF WakeUp, Mutex!CondWakeUp, queuevars, Coming, Dequeuing
  <2>2. QED
    BY <2>1, StillCovers
<1>2. CASE \/ \E o \in Ops : Call(t, o)
           \/ Lock(t) \/ Own(t) \/ Count(t) \/ Disown(t) \/ Unlock(t)
  <2>1. /\ asleep' = asleep
        /\ \A u \in Threads : u # t => pc'[u] = pc[u] /\ op'[u] = op[u]
    BY <1>2, Moves DEF Call, Lock, Own, Count, Disown, Unlock, mutexvars, QueueTyped,
                       Mutex!LockMutex, Mutex!TakeOwnership, Mutex!Disown, Mutex!UnlockMutex
  <2>2. t \notin Coming
    BY <1>2 DEF Call, Lock, Own, Count, Disown, Unlock, Goto, Coming, Dequeuing
  <2>3. Coming \subseteq Coming' /\ asleep' \subseteq asleep
    BY <2>1, <2>2 DEF Coming, Dequeuing
  <2>4. QED
    BY <2>3, StillCovers
<1>3. QED
  BY <1>1, <1>2

\* Each step takes the list to one that the threads that come suffice for.
LEMMA NextCovers ==
  ASSUME PlaceTyped, Sleepers, QueueTyped, Waiters, NEW s, Holds(s), Covers(s), [Next]_vars
  PROVE  \E r : Holds(r)' /\ Covers(r)'
<1>1. s \in Seq(Messages)
  BY DEF Holds
<1>2. ASSUME NEW t \in Threads, Enqueue(t) PROVE \E r : Holds(r)' /\ Covers(r)'
  <2>1. msg[t] \in Messages
    BY <1>2, Moves, MQAssumption DEF Enqueue, Holds, Enqueuing, QueueTyped, Messages
  <2>2. QED
    BY <1>1, <1>2, <2>1, EnqueueAppends, EnqueueCovers
<1>3. ASSUME NEW t \in Threads, Dequeue(t) PROVE \E r : Holds(r)' /\ Covers(r)'
  <2>1. s # <<>>
    BY <1>3 DEF Dequeue, Holds, IsList
  <2>2. QED
    BY <1>1, <1>3, <2>1, DequeueTakes, DequeueCovers
<1>4. ASSUME NEW r, Holds(r)' PROVE s = r \/ ~(UNCHANGED <<head, tail, next>>)
  <2>1. SUFFICES ASSUME UNCHANGED <<head, tail, next>> PROVE s = r
    OBVIOUS
  <2>2. r \in Seq(Messages) /\ IsList(r)
    BY <1>4, <2>1 DEF Holds, IsList
  <2>3. QED
    BY <1>1, <2>2, OneList DEF Holds
<1>5. PICK r : Holds(r)'
  BY NextList
<1>6. CASE \E t \in Threads :
             \/ \E o \in Ops : Call(t, o)
             \/ WakeUp(t) \/ Lock(t) \/ Own(t) \/ Signal(t) \/ Wait(t) \/ Return(t) \/ Count(t)
             \/ Disown(t) \/ Unlock(t)
  <2>1. UNCHANGED <<head, tail, next>>
    BY <1>6 DEF Call, WakeUp, Lock, Own, Signal, Wait, Return, Count, Disown, Unlock, queuevars
  <2>2. Covers(s)'
    BY <1>1, <1>6, OthersCover, SignalCovers, WaitCovers
  <2>3. QED
    BY <1>4, <1>5, <2>1, <2>2
<1>7. CASE UNCHANGED vars
  <2>1. Covers(s)'
    BY <1>7 DEF Covers, Coming, Dequeuing, vars
  <2>2. QED
    BY <1>4, <1>5, <1>7, <2>1 DEF vars
<1>8. QED
  BY <1>2, <1>3, <1>6, <1>7 DEF Next, Step

CoverIInv == Waiters /\ \E s : Holds(s) /\ Covers(s)

\* No wakeup is lost: at every moment when a thread sleeps in dequeue, there are
\* as many threads on their way to the list, or to wake one up, as there are
\* messages in it; a timeout, a spurious wakeup or a thread that takes the message
\* another one was woken up for does not change that.
THEOREM WakeUpsSuffice == Spec => []NoMessageIsSleptOn
<1>1. Init => CoverIInv
  <2> SUFFICES ASSUME Init PROVE CoverIInv
    OBVIOUS
  <2>1. Covers(<<>>)
    BY DEF Init, Mutex!MutexInit, Covers
  <2>2. QED
    BY <2>1, InitList DEF CoverIInv
<1>2. MutexIInv /\ QueueTyped /\ CoverIInv /\ [Next]_vars => CoverIInv'
  BY NextWaiters, NextCovers DEF MutexIInv, CoverIInv
<1>3. CoverIInv => NoMessageIsSleptOn
  BY ContentsIs DEF CoverIInv, Only, Covers, NoMessageIsSleptOn
<1>4. QED
  BY <1>1, <1>2, <1>3, Invariance, PTL DEF Spec
=============================================================================
