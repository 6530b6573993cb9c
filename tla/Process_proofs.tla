--------------------------- MODULE Process_proofs ---------------------------
(***************************************************************************)
(* Theorems about Process, for any number of processes and clients: the    *)
(* list of the active threads, the suspended threads, and, where one       *)
(* client joins or resumes, the result of a join and the phases.           *)
(***************************************************************************)
EXTENDS Process, SequenceTheorems, TLAPS

-----------------------------------------------------------------------------
\* What a client does that queues an interrupt, but for where it was.
LEMMA QueueDoes ==
  ASSUME NEW c \in Clients, NEW what, Queue(c, what)
  PROVE  /\ ~crashed /\ call' = [call EXCEPT ![c] = "rest"]
         /\ \/ pending' = [pending EXCEPT ![on[c]] = Append(pending[on[c]], what)] /\ crashed' = crashed
            \/ pending' = pending /\ crashed' \in BOOLEAN
         /\ UNCHANGED <<phase, listed, live, pc, back, outcome, values, aborted, on, seen, joined>>
<1>1. Turn(c, what, "rest")
  BY DEF Queue
<1>2. ~crashed /\ call' = [call EXCEPT ![c] = "rest"]
  BY <1>1 DEF Turn
<1>3. QED
  BY <1>2 DEF Queue, Undefined, Set, threadvars, resultvars

-----------------------------------------------------------------------------
\* Every step keeps the variables within their types.
LEMMA NextType == TypeOK /\ [Next]_vars => TypeOK'
<1> SUFFICES ASSUME TypeOK, [Next]_vars PROVE TypeOK'
  OBVIOUS
<1>1. CASE UNCHANGED vars
  BY <1>1 DEF TypeOK, vars
<1>2. ASSUME NEW p \in Processes, ThreadStep(p) PROVE TypeOK'
  <2> USE DEF TypeOK, Goto, At, Set, Labels, Loop, Phases, Outcomes, Rest, resultvars, clientvars
  <2>1. CASE Find(p)
    BY <2>1 DEF Find
  <2>2. CASE SetUp(p)
    BY <2>2 DEF SetUp
  <2>3. CASE Begin(p)
    BY <2>3 DEF Begin
  <2>4. CASE Finish(p)
    BY <2>4 DEF Finish
  <2>5. CASE Store(p)
    BY <2>5 DEF Store
  <2>6. CASE ExitByItself(p)
    BY <2>6 DEF ExitByItself, Exit
  <2>7. CASE Abort(p)
    BY <2>7 DEF Abort
  <2>8. CASE Handle(p)
    <3>1. pending' \in [Processes -> Seq({"suspend", "exit"})]
      <4>1. pending[p] \in Seq({"suspend", "exit"}) /\ pending[p] # <<>>
        BY <2>8 DEF Handle
      <4>2. Tail(pending[p]) \in Seq({"suspend", "exit"})
        BY <4>1
      <4>3. pending' = [pending EXCEPT ![p] = Tail(pending[p])]
        BY <2>8 DEF Handle
      <4>4. QED
        BY <4>2, <4>3
    <3>2. CASE Head(pending[p]) = "exit"
      <4>1. Exit(p, pc[p])
        BY <2>8, <3>2 DEF Handle
      <4>2. QED
        BY <3>1, <4>1 DEF Exit
    <3>3. CASE Head(pending[p]) = "suspend"
      <4>1. /\ pc[p] \in Polls
            /\ pc' = Set(pc, p, "suspend")
            /\ back' = Set(back, p, pc[p])
            /\ UNCHANGED <<phase, listed, live, outcome, resultvars, clientvars, crashed>>
        BY <2>8, <3>3 DEF Handle
      <4>2. QED
        BY <3>1, <4>1 DEF Polls
    <3>4. QED
      BY <2>8, <3>2, <3>3 DEF Handle
  <2>9. CASE EndThread(p)
    BY <2>9 DEF EndThread
  <2>10. CASE Remove(p)
    BY <2>10 DEF Remove
  <2>11. CASE EnterLoop(p)
    BY <2>11 DEF EnterLoop
  <2>12. CASE Test(p)
    BY <2>12 DEF Test
  <2>13. CASE Sleep(p) \/ SpuriousWakeUp(p) \/ Return(p)
    BY <2>13 DEF Sleep, SpuriousWakeUp, Return
  <2>14. QED
    BY <1>2, <2>1, <2>2, <2>3, <2>4, <2>5, <2>6, <2>7, <2>8, <2>9, <2>10, <2>11, <2>12, <2>13
    DEF ThreadStep, LoopStep
<1>3. ASSUME NEW c \in Clients, CallStep(c) PROVE TypeOK'
  <2> USE DEF TypeOK, Turn, Set, CallLabels, Labels, Phases, Outcomes, threadvars, resultvars, Untouched
  <2>1. CASE Add(c)
    BY <2>1 DEF Add
  <2>2. CASE Activate(c)
    BY <2>2 DEF Activate
  <2>3. CASE Create(c)
    BY <2>3 DEF Create, Goto, At
  <2>4. ASSUME NEW what \in {"suspend", "exit"}, Queue(c, what) PROVE TypeOK'
    <3>1. pending[on[c]] \in Seq({"suspend", "exit"})
      OBVIOUS
    <3>2. Append(pending[on[c]], what) \in Seq({"suspend", "exit"})
      BY <3>1
    <3>3. pending' \in [Processes -> Seq({"suspend", "exit"})]
      <4>1. CASE pending' = pending
        BY <4>1
      <4>2. CASE pending' = [pending EXCEPT ![on[c]] = Append(pending[on[c]], what)]
        BY <3>2, <4>2
      <4>3. QED
        BY <2>4, <4>1, <4>2, QueueDoes
    <3>4. QED
      BY <2>4, <3>3, QueueDoes
  <2>5. CASE SetActive(c)
    BY <2>5 DEF SetActive, WakeUp, Loop
  <2>6. CASE PthreadJoin(c)
    <3>1. call' \in [Clients -> CallLabels]
      <4>1. Turn(c, "pthread_join", "wait") \/ Turn(c, "pthread_join", "read")
        BY <2>6 DEF PthreadJoin
      <4>2. CASE call' = [call EXCEPT ![c] = "wait"]
        BY <4>2
      <4>3. CASE call' = [call EXCEPT ![c] = "read"]
        BY <4>3
      <4>4. QED
        BY <4>1, <4>2, <4>3
    <3>2. joined' \subseteq Processes
      BY <2>6 DEF PthreadJoin
    <3>3. crashed' \in BOOLEAN
      BY <2>6 DEF PthreadJoin, Undefined
    <3>4. UNCHANGED <<phase, listed, live, pc, back, outcome, pending, values, aborted, on, seen>>
      BY <2>6 DEF PthreadJoin
    <3>5. QED
      BY <3>1, <3>2, <3>3, <3>4
  <2>7. CASE ThreadOver(c)
    BY <2>7 DEF ThreadOver
  <2>8. CASE ReadResult(c)
    BY <2>8 DEF ReadResult
  <2>9. QED
    BY <1>3, <2>1, <2>2, <2>3, <2>4, <2>5, <2>6, <2>7, <2>8 DEF CallStep
<1>4. ASSUME NEW c \in Clients, NEW p \in Processes, BeginCall(c, p) PROVE TypeOK'
  BY <1>4 DEF BeginCall, Start, Suspend, Kill, Resume, Join, Begins, Untouched, Turn, TypeOK,
              CallLabels, Outcomes, threadvars, resultvars
<1>5. QED
  BY <1>1, <1>2, <1>3, <1>4 DEF Next, Terminated

\* Every variable of the processes and of the clients has the values it should have.
THEOREM TypeCorrect == Spec => []TypeOK
<1>1. Init => TypeOK
  <2> SUFFICES ASSUME Init PROVE TypeOK
    OBVIOUS
  <2>1. <<>> \in Seq({"suspend", "exit"})
    BY EmptySeq
  <2>2. pending \in [Processes -> Seq({"suspend", "exit"})]
    BY <2>1 DEF Init
  <2>3. /\ phase \in [Processes -> Phases] /\ pc \in [Processes -> Labels]
        /\ outcome \in [Processes -> Outcomes]
    BY DEF Init, Phases, Labels, Outcomes
  <2>4. /\ call \in [Clients -> CallLabels] /\ on \in [Clients -> Processes]
        /\ seen \in [Clients -> Outcomes \cup {"nil"}]
    BY DEF Init, CallLabels, Outcomes
  <2>5. QED
    BY <2>2, <2>3, <2>4 DEF Init, TypeOK
<1>2. QED
  BY <1>1, NextType, PTL DEF Spec

-----------------------------------------------------------------------------
\* The list of the active threads.  A client that starts a process is the only
\* one that does, and the process is listed before it has a thread.
Starting == {"add", "activate", "create"}

StartInv == /\ \A p \in Processes : phase[p] = "nascent" => pc[p] = "none"
            /\ \A c \in Clients : call[c] \in Starting => "start" \in Calls(c) /\ pc[on[c]] = "none"
            /\ \A c \in Clients : call[c] \in {"activate", "create"} => on[c] \in listed
            /\ \A c \in Clients : call[c] \in {"create", "resume"} => phase[on[c]] # "nascent"

\* A thread that was interrupted returns to where it was.
BackInv == \A p \in Processes : pc[p] \in {"suspend"} \cup Loop => back[p] \in Polls

\* What the step of a thread does to its place, its phase and the list.
LEMMA ThreadMoves ==
  ASSUME TypeOK, BackInv, NEW p \in Processes, ThreadStep(p)
  PROVE  /\ UNCHANGED clientvars
         /\ \A q \in Processes : q # p => pc'[q] = pc[q] /\ phase'[q] = phase[q] /\ back'[q] = back[q]
         /\ pc[p] \notin {"none", "over"} /\ pc'[p] # "none"
         /\ phase[p] # "nascent" => phase'[p] # "nascent"
         /\ \/ listed' = listed
            \/ listed' = listed \ {p} /\ pc'[p] = "over"
         /\ pc'[p] \in {"suspend"} \cup Loop => back'[p] \in Polls
<1> USE DEF TypeOK, BackInv, Goto, At, Set, Rest, resultvars, Polls, Loop
<1>1. CASE Find(p)
  BY <1>1 DEF Find, clientvars
<1>2. CASE SetUp(p)
  BY <1>2 DEF SetUp, clientvars
<1>3. CASE Begin(p)
  BY <1>3 DEF Begin, clientvars
<1>4. CASE Finish(p)
  BY <1>4 DEF Finish, clientvars
<1>5. CASE Store(p)
  BY <1>5 DEF Store, clientvars
<1>6. CASE ExitByItself(p)
  BY <1>6 DEF ExitByItself, Exit, clientvars
<1>7. CASE Abort(p)
  BY <1>7 DEF Abort, clientvars
<1>8. CASE Handle(p)
  <2>1. CASE Head(pending[p]) = "exit"
    BY <1>8, <2>1 DEF Handle, Exit, clientvars
  <2>2. CASE Head(pending[p]) = "suspend"
    BY <1>8, <2>2 DEF Handle, clientvars
  <2>3. QED
    BY <1>8, <2>1, <2>2 DEF Handle
<1>9. CASE EndThread(p)
  BY <1>9 DEF EndThread, clientvars
<1>10. CASE Remove(p)
  BY <1>10 DEF Remove, clientvars
<1>11. CASE EnterLoop(p)
  BY <1>11 DEF EnterLoop, clientvars
<1>12. CASE Test(p)
  BY <1>12 DEF Test, clientvars
<1>13. CASE Sleep(p) \/ SpuriousWakeUp(p) \/ Return(p)
  BY <1>13 DEF Sleep, SpuriousWakeUp, Return, clientvars
<1>14. QED
  BY <1>1, <1>2, <1>3, <1>4, <1>5, <1>6, <1>7, <1>8, <1>9, <1>10, <1>11, <1>12, <1>13
  DEF ThreadStep, LoopStep

ListIInv == BackInv /\ StartInv /\ Listed

\* A step of a thread leaves the list in order.
LEMMA ThreadKeepsList ==
  ASSUME TypeOK, ListIInv, NEW p \in Processes, ThreadStep(p)
  PROVE  ListIInv'
<1>1. BackInv'
  BY ThreadMoves DEF ListIInv, BackInv
<1>2. StartInv'
  <2>1. UNCHANGED <<call, on>> /\ \A c \in Clients : on[c] \in Processes
    BY ThreadMoves DEF ListIInv, TypeOK, clientvars
  <2>2. \A q \in Processes : phase'[q] = "nascent" => pc'[q] = "none"
    BY ThreadMoves DEF ListIInv, StartInv
  <2>3. ASSUME NEW c \in Clients, call[c] \in Starting
        PROVE  pc'[on[c]] = "none" /\ phase'[on[c]] = phase[on[c]] /\ on[c] # p
    BY <2>1, <2>3, ThreadMoves DEF ListIInv, StartInv
  <2>4. ASSUME NEW c \in Clients, call[c] = "resume" PROVE phase'[on[c]] # "nascent"
    BY <2>1, <2>4, ThreadMoves DEF ListIInv, StartInv
  <2>5. \A c \in Clients : call[c] \in {"activate", "create"} => on[c] \in listed'
    BY <2>1, <2>3, ThreadMoves DEF ListIInv, StartInv, Starting
  <2>6. QED
    BY <2>1, <2>2, <2>3, <2>4, <2>5 DEF ListIInv, StartInv, Starting
<1>3. Listed'
  BY ThreadMoves DEF ListIInv, Listed
<1>4. QED
  BY <1>1, <1>2, <1>3 DEF ListIInv

\* So does a step of a client.
LEMMA ClientKeepsList ==
  ASSUME TypeOK, ListIInv, NEW c \in Clients, CallStep(c)
  PROVE  ListIInv'
<1> USE DEF TypeOK, ListIInv, BackInv, StartInv, Listed, Starting, Turn, Set, Untouched,
            threadvars, resultvars
<1>1. CASE Add(c)
  BY <1>1 DEF Add
<1>2. CASE Activate(c)
  BY <1>2 DEF Activate
<1>3. CASE Create(c)
  BY <1>3, ProcessAssumption DEF Create, Goto, At, Loop
<1>4. ASSUME NEW what, Queue(c, what) PROVE ListIInv'
  BY <1>4, QueueDoes
<1>5. CASE SetActive(c)
  BY <1>5 DEF SetActive, WakeUp, Loop
<1>6. CASE PthreadJoin(c)
  <2>1. Turn(c, "pthread_join", "wait") \/ Turn(c, "pthread_join", "read")
    BY <1>6 DEF PthreadJoin
  <2>2. \A d \in Clients : call'[d] = call[d] \/ call'[d] \in {"wait", "read"}
    BY <2>1
  <2>3. UNCHANGED <<phase, listed, threadvars, on>>
    BY <1>6 DEF PthreadJoin
  <2>4. QED
    BY <2>2, <2>3
<1>7. CASE ThreadOver(c)
  BY <1>7 DEF ThreadOver
<1>8. CASE ReadResult(c)
  BY <1>8 DEF ReadResult
<1>9. QED
  BY <1>1, <1>2, <1>3, <1>4, <1>5, <1>6, <1>7, <1>8 DEF CallStep

\* What a client does that begins a call.
LEMMA CallBegins ==
  ASSUME TypeOK, NEW c \in Clients, NEW p \in Processes, BeginCall(c, p)
  PROVE  /\ call[c] = "rest" /\ \A d \in Clients : d # c => call'[d] = call[d] /\ on'[d] = on[d]
                                                            /\ seen'[d] = seen[d]
         /\ on'[c] = p /\ seen'[c] = "none"
         /\ UNCHANGED <<phase, joined, listed, live, pc, back, outcome, pending, values, aborted, crashed>>
         /\ \/ call'[c] = "add" /\ phase[p] = "nascent" /\ "start" \in Calls(c)
            \/ call'[c] \in {"suspend", "exit"}
            \/ call'[c] = "resume" /\ phase[p] = "suspended" /\ "resume" \in Calls(c)
            \/ call'[c] = "pthread_join" /\ phase[p] \in {"active", "suspended"} /\ "join" \in Calls(c)
            \/ call'[c] = "read" /\ phase[p] = "exited" /\ "join" \in Calls(c)
<1> USE DEF TypeOK, Begins, Turn, Untouched, threadvars, resultvars
<1>1. CASE Start(c, p)
  BY <1>1 DEF Start
<1>2. CASE Suspend(c, p) \/ Kill(c, p)
  BY <1>2 DEF Suspend, Kill
<1>3. CASE Resume(c, p)
  BY <1>3 DEF Resume
<1>4. CASE Join(c, p)
  BY <1>4 DEF Join
<1>5. QED
  BY <1>1, <1>2, <1>3, <1>4 DEF BeginCall

\* Every step leaves the list in order.
LEMMA NextList == TypeOK /\ ListIInv /\ [Next]_vars => ListIInv'
<1> SUFFICES ASSUME TypeOK, ListIInv, [Next]_vars PROVE ListIInv'
  OBVIOUS
<1>1. CASE UNCHANGED vars
  BY <1>1 DEF ListIInv, BackInv, StartInv, Listed, vars
<1>2. ASSUME NEW c \in Clients, NEW p \in Processes, BeginCall(c, p) PROVE ListIInv'
  BY <1>2, CallBegins DEF ListIInv, BackInv, StartInv, Listed, Starting
<1>3. QED
  BY <1>1, <1>2, ThreadKeepsList, ClientKeepsList DEF Next, Terminated

\* A process is in the list of mp:all-processes for all the life of its thread.
THEOREM ActiveThreadsAreListed == Spec => []Listed
<1>1. Init => ListIInv
  BY DEF Init, ListIInv, BackInv, StartInv, Starting, Listed, Loop
<1>2. QED
  BY <1>1, NextList, TypeCorrect, PTL DEF Spec, ListIInv

-----------------------------------------------------------------------------
\* The suspended threads.

\* A step of a thread leaves the others suspended, and a suspended one in its loop.
LEMMA ThreadStaysStill ==
  ASSUME TypeOK, SuspendedIsStill, NEW p \in Processes, ThreadStep(p)
  PROVE  SuspendedIsStill'
<1> USE DEF TypeOK, SuspendedIsStill, Goto, At, Set, Rest, Polls, Loop
<1>1. CASE Find(p)
  BY <1>1 DEF Find
<1>2. CASE SetUp(p)
  BY <1>2 DEF SetUp
<1>3. CASE Begin(p)
  BY <1>3 DEF Begin
<1>4. CASE Finish(p)
  BY <1>4 DEF Finish
<1>5. CASE Store(p)
  BY <1>5 DEF Store
<1>6. CASE ExitByItself(p)
  BY <1>6 DEF ExitByItself, Exit
<1>7. CASE Abort(p)
  BY <1>7 DEF Abort
<1>8. CASE Handle(p)
  <2>1. CASE Head(pending[p]) = "exit"
    BY <1>8, <2>1 DEF Handle, Exit
  <2>2. CASE Head(pending[p]) = "suspend"
    BY <1>8, <2>2 DEF Handle
  <2>3. QED
    BY <1>8, <2>1, <2>2 DEF Handle
<1>9. CASE EndThread(p)
  BY <1>9 DEF EndThread
<1>10. CASE Remove(p)
  BY <1>10 DEF Remove
<1>11. CASE EnterLoop(p)
  BY <1>11 DEF EnterLoop
<1>12. CASE Test(p)
  BY <1>12 DEF Test
<1>13. CASE Sleep(p) \/ SpuriousWakeUp(p) \/ Return(p)
  BY <1>13 DEF Sleep, SpuriousWakeUp, Return
<1>14. QED
  BY <1>1, <1>2, <1>3, <1>4, <1>5, <1>6, <1>7, <1>8, <1>9, <1>10, <1>11, <1>12, <1>13
  DEF ThreadStep, LoopStep

\* What an outcome is to mp:process-join.
Result(p) == IF aborted[p] THEN "abort" ELSE values[p]

\* What the step of a client in a call does.
LEMMA ClientActs ==
  ASSUME TypeOK, NEW c \in Clients, CallStep(c)
  PROVE  /\ \A d \in Clients : d # c => call'[d] = call[d] /\ seen'[d] = seen[d]
         /\ UNCHANGED <<on, back, outcome, values, aborted>>
         /\ call'[c] # "read" /\ call[c] # "read" => seen'[c] = seen[c]
         /\ \/ call[c] = "add" /\ call'[c] = "activate" /\ UNCHANGED <<phase, pc, joined, seen>>
            \/ /\ call[c] = "activate" /\ call'[c] = "create" /\ UNCHANGED <<pc, joined, seen>>
               /\ phase' = [phase EXCEPT ![on[c]] = "active"]
            \/ /\ call[c] = "create" /\ call'[c] = "rest" /\ UNCHANGED <<phase, joined, seen>>
               /\ pc[on[c]] = "none" /\ pc' = [pc EXCEPT ![on[c]] = "find"]
            \/ call[c] \in {"suspend", "exit"} /\ call'[c] = "rest" /\ UNCHANGED <<phase, pc, joined, seen>>
            \/ /\ call[c] = "resume" /\ call'[c] = "rest" /\ UNCHANGED <<joined, seen>>
               /\ MutexFree(on[c]) /\ WakeUp(on[c])
               /\ phase' = [phase EXCEPT ![on[c]] = "active"]
            \/ /\ call[c] = "pthread_join" /\ call'[c] = "wait" /\ UNCHANGED <<phase, pc, seen>>
               /\ joined' = joined \cup {on[c]}
            \/ /\ call[c] = "pthread_join" /\ call'[c] = "read" /\ UNCHANGED <<phase, pc, joined, seen>>
               /\ on[c] \in joined \/ pc[on[c]] = "none"
            \/ /\ call[c] = "wait" /\ call'[c] = "read" /\ UNCHANGED <<phase, pc, joined, seen>>
               /\ pc[on[c]] = "over"
            \/ /\ call[c] = "read" /\ call'[c] = "rest" /\ UNCHANGED <<phase, pc, joined>>
               /\ seen'[c] = Result(on[c])
<1> USE DEF TypeOK, Turn, Set, Untouched, threadvars, resultvars
<1>1. CASE Add(c)
  BY <1>1 DEF Add
<1>2. CASE Activate(c)
  BY <1>2 DEF Activate
<1>3. CASE Create(c)
  BY <1>3 DEF Create, Goto, At
<1>4. ASSUME NEW what \in {"suspend", "exit"}, Queue(c, what) PROVE call[c] = what
  BY <1>4 DEF Queue
<1>5. CASE \E what \in {"suspend", "exit"} : Queue(c, what)
  BY <1>4, <1>5, QueueDoes
<1>6. CASE SetActive(c)
  BY <1>6 DEF SetActive
<1>7. CASE PthreadJoin(c)
  <2>1. CASE on[c] \notin joined /\ pc[on[c]] # "none"
    BY <1>7, <2>1 DEF PthreadJoin
  <2>2. CASE on[c] \in joined \/ pc[on[c]] = "none"
    BY <1>7, <2>2 DEF PthreadJoin
  <2>3. QED
    BY <2>1, <2>2
<1>8. CASE ThreadOver(c)
  BY <1>8 DEF ThreadOver
<1>9. CASE ReadResult(c)
  BY <1>9 DEF ReadResult, Result
<1>10. QED
  BY <1>1, <1>2, <1>3, <1>5, <1>6, <1>7, <1>8, <1>9 DEF CallStep

\* Every step keeps a suspended process in its loop.
LEMMA NextStill == TypeOK /\ SuspendedIsStill /\ [Next]_vars => SuspendedIsStill'
<1> SUFFICES ASSUME TypeOK, SuspendedIsStill, [Next]_vars PROVE SuspendedIsStill'
  OBVIOUS
<1>1. CASE UNCHANGED vars
  BY <1>1 DEF SuspendedIsStill, vars
<1>2. ASSUME NEW c \in Clients, NEW p \in Processes, BeginCall(c, p) PROVE SuspendedIsStill'
  BY <1>2, CallBegins DEF SuspendedIsStill
<1>3. ASSUME NEW c \in Clients, CallStep(c) PROVE SuspendedIsStill'
  BY <1>3, ClientActs DEF SuspendedIsStill, TypeOK, WakeUp, Set, Loop
<1>4. QED
  BY <1>1, <1>2, <1>3, ThreadStaysStill DEF Next, Terminated

\* A suspended process runs nothing but suspend_loop, whoever resumes it.
THEOREM SuspendedStaysStill == Spec => []SuspendedIsStill
<1>1. Init => SuspendedIsStill
  BY DEF Init, SuspendedIsStill
<1>2. QED
  BY <1>1, NextStill, TypeCorrect, PTL DEF Spec

-----------------------------------------------------------------------------
\* The resumed threads.

\* A thread that is about to wait, or waits, on the condition variable belongs to a
\* suspended process.
SleepersAreSuspended == \A p \in Processes : pc[p] \in {"wait", "asleep"} => phase[p] = "suspended"

\* A thread falls asleep only when it has seen that its process is suspended.
LEMMA ThreadSleeps ==
  ASSUME TypeOK, SleepersAreSuspended, NEW p \in Processes, ThreadStep(p)
  PROVE  SleepersAreSuspended'
<1> USE DEF TypeOK, SleepersAreSuspended, Goto, At, Set, Rest, Polls
<1>1. CASE Find(p) \/ SetUp(p) \/ Begin(p) \/ Finish(p) \/ Store(p) \/ Abort(p)
  BY <1>1 DEF Find, SetUp, Begin, Finish, Store, Abort
<1>2. CASE ExitByItself(p)
  BY <1>2 DEF ExitByItself, Exit
<1>3. CASE Handle(p)
  <2>1. CASE Head(pending[p]) = "exit"
    BY <1>3, <2>1 DEF Handle, Exit
  <2>2. CASE Head(pending[p]) = "suspend"
    BY <1>3, <2>2 DEF Handle
  <2>3. QED
    BY <1>3, <2>1, <2>2 DEF Handle
<1>4. CASE EndThread(p) \/ Remove(p)
  BY <1>4 DEF EndThread, Remove
<1>5. CASE EnterLoop(p) \/ Test(p) \/ Sleep(p) \/ Return(p) \/ SpuriousWakeUp(p)
  BY <1>5 DEF EnterLoop, Test, Sleep, Return, SpuriousWakeUp
<1>6. QED
  BY <1>1, <1>2, <1>3, <1>4, <1>5 DEF ThreadStep, LoopStep

\* Who makes a process active finds its thread out of the mutex, and wakes it up;
\* who starts one, finds that it has no thread.
LEMMA NextSleepers ==
  ASSUME TypeOK, ListIInv, SleepersAreSuspended, [Next]_vars
  PROVE  SleepersAreSuspended'
<1>1. CASE UNCHANGED vars
  BY <1>1 DEF SleepersAreSuspended, vars
<1>2. ASSUME NEW c \in Clients, NEW p \in Processes, BeginCall(c, p) PROVE SleepersAreSuspended'
  BY <1>2, CallBegins DEF SleepersAreSuspended
<1>3. ASSUME NEW c \in Clients, CallStep(c) PROVE SleepersAreSuspended'
  <2>1. on[c] \in Processes
    BY DEF TypeOK
  <2>2. CASE call[c] = "activate"
    <3>1. pc[on[c]] = "none" /\ pc' = pc /\ phase' = [phase EXCEPT ![on[c]] = "active"]
      BY <1>3, <2>2, ClientActs DEF ListIInv, StartInv, Starting
    <3>2. QED
      BY <2>1, <3>1 DEF SleepersAreSuspended, TypeOK
  <2>3. CASE call[c] = "resume"
    <3>1. /\ phase' = [phase EXCEPT ![on[c]] = "active"]
          /\ MutexFree(on[c]) /\ WakeUp(on[c])
      BY <1>3, <2>3, ClientActs
    <3>2. QED
      BY <2>1, <3>1 DEF SleepersAreSuspended, TypeOK, MutexFree, WakeUp, Set
  <2>4. CASE call[c] \notin {"activate", "resume"}
    <3>1. phase' = phase /\ (pc' = pc \/ pc' = [pc EXCEPT ![on[c]] = "find"])
      BY <1>3, <2>4, ClientActs
    <3>2. QED
      BY <2>1, <3>1 DEF SleepersAreSuspended, TypeOK
  <2>5. QED
    BY <2>2, <2>3, <2>4
<1>4. QED
  BY <1>1, <1>2, <1>3, ThreadSleeps DEF Next, Terminated

\* No process-resume is lost between suspend_loop's test of the phase and its
\* pthread_cond_wait: a thread that waits there waits for a process that is still
\* suspended, whoever else suspends, resumes or kills it.
THEOREM NoResumeIsLost == Spec => []SleepersAreSuspended
<1>1. Init => ListIInv /\ SleepersAreSuspended
  BY DEF Init, ListIInv, BackInv, StartInv, Starting, Listed, Loop, SleepersAreSuspended
<1>2. TypeOK /\ ListIInv /\ SleepersAreSuspended /\ [Next]_vars => SleepersAreSuspended'
  BY NextSleepers
<1>3. QED
  BY <1>1, <1>2, NextList, TypeCorrect, PTL DEF Spec

-----------------------------------------------------------------------------
\* The phases, where one client resumes.
OneResumes == \A c, d \in Clients : "resume" \in Calls(c) /\ "resume" \in Calls(d) => c = d

Running == {"find", "setup", "bindings", "run", "values", "suspend", "exiting"}

PhaseIInv == /\ \A p \in Processes : pc[p] \in Running => phase[p] = "active"
             /\ \A p \in Processes : pc[p] \in Loop => phase[p] \in {"active", "suspended"}
             /\ \A c \in Clients : call[c] \in {"add", "activate"} => phase[on[c]] = "nascent"
             /\ \A c \in Clients : call[c] = "create" => phase[on[c]] = "active"
             /\ \A c \in Clients : call[c] = "resume" => phase[on[c]] = "suspended" /\ "resume" \in Calls(c)

Proceeds == \A p \in Processes : phase'[p] # phase[p] => <<phase[p], phase'[p]>> \in PhaseProceeds

\* The step of a thread takes its phase on, and keeps a suspended one so.
LEMMA ThreadProceeds ==
  ASSUME TypeOK, BackInv, PhaseIInv, NEW p \in Processes, ThreadStep(p)
  PROVE  /\ \A q \in Processes : q # p => pc'[q] = pc[q] /\ phase'[q] = phase[q]
         /\ UNCHANGED clientvars
         /\ pc[p] \in Running \cup Loop \cup {"remove"}
         /\ phase[p] = "suspended" => phase'[p] = "suspended"
         /\ pc'[p] \in Running => phase'[p] = "active"
         /\ pc'[p] \in Loop => phase'[p] \in {"active", "suspended"}
         /\ phase'[p] # phase[p] => phase[p] = "active" /\ phase'[p] \in {"suspended", "exited"}
<1> USE DEF TypeOK, BackInv, PhaseIInv, Goto, At, Set, Rest, Polls, Loop, Running
<1>1. CASE Find(p)
  BY <1>1 DEF Find
<1>2. CASE SetUp(p)
  BY <1>2 DEF SetUp, clientvars
<1>3. CASE Begin(p)
  BY <1>3 DEF Begin, clientvars
<1>4. CASE Finish(p)
  BY <1>4 DEF Finish, clientvars
<1>5. CASE Store(p)
  BY <1>5 DEF Store, clientvars
<1>6. CASE ExitByItself(p)
  BY <1>6 DEF ExitByItself, Exit, clientvars
<1>7. CASE Abort(p)
  BY <1>7 DEF Abort, clientvars
<1>8. CASE Handle(p)
  <2>1. CASE Head(pending[p]) = "exit"
    BY <1>8, <2>1 DEF Handle, Exit, clientvars
  <2>2. CASE Head(pending[p]) = "suspend"
    BY <1>8, <2>2 DEF Handle, clientvars
  <2>3. QED
    BY <1>8, <2>1, <2>2 DEF Handle
<1>9. CASE EndThread(p)
  BY <1>9 DEF EndThread, clientvars
<1>10. CASE Remove(p)
  BY <1>10 DEF Remove, clientvars
<1>11. CASE EnterLoop(p)
  BY <1>11 DEF EnterLoop, clientvars
<1>12. CASE Test(p)
  BY <1>12 DEF Test, clientvars
<1>13. CASE Sleep(p) \/ SpuriousWakeUp(p) \/ Return(p)
  BY <1>13 DEF Sleep, SpuriousWakeUp, Return, clientvars
<1>14. QED
  BY <1>1, <1>2, <1>3, <1>4, <1>5, <1>6, <1>7, <1>8, <1>9, <1>10, <1>11, <1>12, <1>13
  DEF ThreadStep, LoopStep

\* Every step takes the phases on.
LEMMA NextPhase ==
  ASSUME OneResumes, TypeOK, ListIInv, SuspendedIsStill, PhaseIInv, [Next]_vars
  PROVE  PhaseIInv' /\ Proceeds
<1>1. CASE UNCHANGED vars
  BY <1>1 DEF PhaseIInv, Proceeds, vars
<1>2. ASSUME NEW c \in Clients, NEW p \in Processes, BeginCall(c, p) PROVE PhaseIInv' /\ Proceeds
  BY <1>2, CallBegins DEF PhaseIInv, Proceeds
<1>3. ASSUME NEW p \in Processes, ThreadStep(p) PROVE PhaseIInv' /\ Proceeds
  <2>1. UNCHANGED <<call, on>> /\ \A c \in Clients : on[c] \in Processes
    BY <1>3, ThreadProceeds DEF ListIInv, TypeOK, clientvars
  <2>2. Proceeds
    BY <1>3, ThreadProceeds DEF Proceeds, PhaseProceeds, ListIInv
  <2>3. \A q \in Processes : /\ pc'[q] \in Running => phase'[q] = "active"
                             /\ pc'[q] \in Loop => phase'[q] \in {"active", "suspended"}
    BY <1>3, ThreadProceeds DEF PhaseIInv, ListIInv
  <2>4. ASSUME NEW c \in Clients PROVE /\ call[c] \in {"add", "activate"} => phase'[on[c]] = "nascent"
                                       /\ call[c] = "create" => phase'[on[c]] = "active"
                                       /\ call[c] = "resume" => phase'[on[c]] = "suspended"
    <3>1. call[c] \in Starting => on[c] # p
      BY <1>3, ThreadProceeds DEF ListIInv, StartInv, Running, Loop
    <3>2. QED
      BY <1>3, <2>1, <3>1, ThreadProceeds DEF PhaseIInv, ListIInv, Starting
  <2>5. QED
    BY <2>1, <2>2, <2>3, <2>4 DEF PhaseIInv
<1>4. ASSUME NEW c \in Clients, CallStep(c) PROVE PhaseIInv' /\ Proceeds
  <2> DEFINE p == on[c]
  <2>1. p \in Processes /\ on' = on /\ \A d \in Clients : d # c => call'[d] = call[d]
    BY <1>4, ClientActs DEF TypeOK
  <2>2. CASE phase' = phase /\ pc' = pc /\ call'[c] \notin {"add", "create", "resume"}
    BY <1>4, <2>1, <2>2, ClientActs DEF PhaseIInv, Proceeds
  <2>3. CASE /\ call[c] = "activate" /\ call'[c] = "create" /\ UNCHANGED pc
             /\ phase' = [phase EXCEPT ![p] = "active"]
    <3>1. /\ phase[p] = "nascent" /\ phase'[p] = "active"
          /\ \A q \in Processes : q # p => phase'[q] = phase[q]
      BY <2>1, <2>3 DEF PhaseIInv, TypeOK
    <3>2. \A d \in Clients : d # c => call[d] \notin Starting
      BY <2>3, ProcessAssumption DEF ListIInv, StartInv, Starting
    <3>3. QED
      BY <2>1, <2>3, <3>1, <3>2 DEF PhaseIInv, Proceeds, PhaseProceeds, Starting
  <2>4. CASE /\ call[c] = "create" /\ call'[c] = "rest" /\ UNCHANGED phase
             /\ pc[p] = "none" /\ pc' = [pc EXCEPT ![p] = "find"]
    <3>1. /\ phase[p] = "active" /\ pc'[p] = "find"
          /\ \A q \in Processes : q # p => pc'[q] = pc[q]
      BY <2>1, <2>4 DEF PhaseIInv, TypeOK
    <3>2. QED
      BY <2>1, <2>4, <3>1 DEF PhaseIInv, Proceeds, Loop
  <2>5. CASE /\ call[c] = "resume" /\ call'[c] = "rest" /\ WakeUp(p)
             /\ phase' = [phase EXCEPT ![p] = "active"]
    <3>1. /\ phase[p] = "suspended" /\ phase'[p] = "active"
          /\ \A q \in Processes : q # p => phase'[q] = phase[q]
      BY <2>1, <2>5 DEF PhaseIInv, TypeOK
    <3>2. \A d \in Clients : d # c => call[d] # "resume"
      BY <2>5 DEF PhaseIInv, OneResumes
    <3>3. \A q \in Processes : pc'[q] = pc[q] \/ (pc[q] \in Loop /\ pc'[q] \in Loop)
      BY <2>1, <2>5 DEF WakeUp, Set, Loop, TypeOK
    <3>4. \A q \in Loop : q \notin Running
      BY DEF Loop, Running
    <3>5. QED
      BY <2>1, <2>5, <3>1, <3>2, <3>3, <3>4 DEF PhaseIInv, Proceeds, PhaseProceeds
  <2>6. QED
    BY <1>4, <2>2, <2>3, <2>4, <2>5, ClientActs
<1>5. QED
  BY <1>1, <1>2, <1>3, <1>4 DEF Next, Terminated

\* Where one client resumes, the phases proceed as ProcessPhase says, and an
\* exited process stays exited (SuspendLoop, process-resume and run of mpPackage).
THEOREM PhasesProceed == ASSUME OneResumes PROVE Spec => PhaseSteps
<1>1. Init => ListIInv /\ SuspendedIsStill /\ PhaseIInv
  BY DEF Init, ListIInv, BackInv, StartInv, Starting, Listed, Loop, SuspendedIsStill, PhaseIInv, Running
<1>2. TypeOK /\ ListIInv /\ SuspendedIsStill /\ PhaseIInv /\ [Next]_vars => PhaseIInv' /\ Proceeds
  BY NextPhase
<1>3. Proceeds <=> \A p \in Processes : phase'[p] # phase[p] => <<phase[p], phase'[p]>> \in PhaseProceeds
  BY DEF Proceeds
<1>4. TypeOK /\ ListIInv /\ SuspendedIsStill /\ PhaseIInv /\ [Next]_vars
      => [\A p \in Processes : phase'[p] # phase[p] => <<phase[p], phase'[p]>> \in PhaseProceeds]_vars
  BY <1>2, <1>3
<1>5. QED
  BY <1>1, <1>2, <1>4, NextList, NextStill, TypeCorrect, PTL DEF Spec, PhaseSteps

-----------------------------------------------------------------------------
\* The result of a join, where one client joins, and does not meet another's start.
OneJoins == \A c, d \in Clients :
              "join" \in Calls(c) /\ ("join" \in Calls(d) \/ "start" \in Calls(d)) => c = d

Ended(p) == pc[p] \in {"remove", "over"}

\* The function has returned, and its values are not stored yet.
Returning(p) == \/ pc[p] = "values"
                \/ pc[p] \in {"suspend"} \cup Loop /\ back[p] = "values"

\* How the function ended is settled before the thread ends, and its values with it.
Settled(p) == /\ pc[p] \in {"exiting", "remove", "over"}
                   => outcome[p] # "none" /\ Result(p) = outcome[p]
              /\ pc[p] \notin {"exiting", "remove", "over"} => ~aborted[p]
              /\ Returning(p) => outcome[p] = "returned"
              /\ phase[p] = "exited" => Ended(p)

ResultInv == \A p \in Processes : Settled(p)

Same(q) == /\ pc'[q] = pc[q] /\ back'[q] = back[q] /\ phase'[q] = phase[q]
           /\ outcome'[q] = outcome[q] /\ values'[q] = values[q] /\ aborted'[q] = aborted[q]

\* The step of a thread is about its own process,
LEMMA ThreadOwnStep ==
  ASSUME TypeOK, NEW p \in Processes, ThreadStep(p)
  PROVE  \A q \in Processes : q # p => Same(q)
<1> USE DEF TypeOK, Same, Goto, At, Set, Rest, resultvars
<1>1. CASE Find(p) \/ SetUp(p) \/ Begin(p) \/ Finish(p) \/ Store(p) \/ Abort(p) \/ EndThread(p) \/ Remove(p)
  BY <1>1 DEF Find, SetUp, Begin, Finish, Store, Abort, EndThread, Remove
<1>2. CASE ExitByItself(p)
  BY <1>2 DEF ExitByItself, Exit
<1>3. CASE Handle(p)
  <2>1. CASE Head(pending[p]) = "exit"
    BY <1>3, <2>1 DEF Handle, Exit
  <2>2. CASE Head(pending[p]) = "suspend"
    BY <1>3, <2>2 DEF Handle
  <2>3. QED
    BY <1>3, <2>1, <2>2 DEF Handle
<1>4. CASE LoopStep(p) \/ SpuriousWakeUp(p)
  BY <1>4 DEF LoopStep, EnterLoop, Test, Sleep, Return, SpuriousWakeUp
<1>5. QED
  BY <1>1, <1>2, <1>3, <1>4 DEF ThreadStep

\* and settles its result once.
LEMMA ThreadSettles ==
  ASSUME TypeOK, BackInv, NEW p \in Processes, Settled(p), ThreadStep(p)
  PROVE  Settled(p)' /\ (Ended(p) => Ended(p)' /\ outcome'[p] = outcome[p])
<1> USE DEF TypeOK, Settled, Result, Ended, Returning, Goto, At, Set, Rest, Loop, resultvars
<1>1. CASE Find(p) \/ SetUp(p)
  BY <1>1 DEF Find, SetUp
<1>2. CASE Begin(p)
  BY <1>2 DEF Begin
<1>3. CASE Finish(p)
  BY <1>3 DEF Finish
<1>4. CASE Store(p)
  BY <1>4 DEF Store
<1>5. ASSUME NEW from \in Polls, Exit(p, from)
      PROVE  Settled(p)' /\ (Ended(p) => Ended(p)' /\ outcome'[p] = outcome[p])
  <2>1. CASE from = "run"
    BY <1>5, <2>1 DEF Exit
  <2>2. CASE from # "run"
    BY <1>5, <2>2 DEF Exit, Polls
  <2>3. QED
    BY <2>1, <2>2
<1>6. CASE ExitByItself(p)
  BY <1>5, <1>6 DEF ExitByItself, Polls
<1>7. CASE Abort(p)
  BY <1>7 DEF Abort
<1>8. CASE Handle(p)
  <2>1. CASE Exit(p, pc[p])
    BY <1>5, <1>8, <2>1 DEF Handle
  <2>2. CASE Head(pending[p]) = "suspend"
    <3>1. /\ pc[p] \in Polls /\ pc' = Set(pc, p, "suspend") /\ back' = Set(back, p, pc[p])
          /\ UNCHANGED <<phase, outcome, values, aborted>>
      BY <1>8, <2>2 DEF Handle
    <3>2. QED
      BY <3>1 DEF Polls
  <2>3. QED
    BY <1>8, <2>1, <2>2 DEF Handle
<1>9. CASE EndThread(p)
  BY <1>9 DEF EndThread
<1>10. CASE Remove(p)
  BY <1>10 DEF Remove
<1>11. CASE EnterLoop(p)
  BY <1>11 DEF EnterLoop
<1>12. CASE Test(p)
  <2>1. back[p] \in Polls
    BY <1>12 DEF Test, BackInv
  <2>2. QED
    BY <1>12, <2>1 DEF Test, Polls
<1>13. CASE Sleep(p) \/ SpuriousWakeUp(p) \/ Return(p)
  BY <1>13 DEF Sleep, SpuriousWakeUp, Return
<1>14. QED
  BY <1>1, <1>2, <1>3, <1>4, <1>6, <1>7, <1>8, <1>9, <1>10, <1>11, <1>12, <1>13
  DEF ThreadStep, LoopStep

JoinInv ==
  /\ \A c \in Clients : call[c] \in {"pthread_join", "wait", "read"} => "join" \in Calls(c)
  /\ \A c \in Clients : call[c] = "read" \/ seen[c] # "none" => Ended(on[c])
  /\ \A c \in Clients : call[c] = "pthread_join" => pc[on[c]] # "none"
  /\ \A p \in joined : pc[p] = "over" \/ \E c \in Clients : call[c] = "wait" /\ on[c] = p
  /\ \A p \in Processes : phase[p] # "nascent" /\ pc[p] = "none"
                            => \E c \in Clients : call[c] = "create" /\ on[c] = p

ResultIInv == ResultInv /\ JoinInv /\ JoinSeesOutcome

\* No step changes a result that was given.
LEMMA ThreadKeepsResult ==
  ASSUME TypeOK, ListIInv, ResultIInv, NEW p \in Processes, ThreadStep(p)
  PROVE  ResultIInv'
<1>1. /\ UNCHANGED <<call, on, seen, joined>> /\ \A c \in Clients : on[c] \in Processes
      /\ joined \subseteq Processes
  BY ThreadMoves DEF ListIInv, TypeOK, clientvars
<1>2. ResultInv' /\ \A q \in Processes : Ended(q) => Ended(q)' /\ outcome'[q] = outcome[q]
  <2>1. ASSUME NEW q \in Processes, q # p
        PROVE  Settled(q)' /\ (Ended(q) => Ended(q)' /\ outcome'[q] = outcome[q])
    <3>1. Same(q) /\ Settled(q)
      BY <2>1, ThreadOwnStep DEF ResultIInv, ResultInv
    <3>2. QED
      BY <3>1 DEF Same, Settled, Result, Ended, Returning
  <2>2. Settled(p)' /\ (Ended(p) => Ended(p)' /\ outcome'[p] = outcome[p])
    BY ThreadSettles DEF ResultIInv, ResultInv, ListIInv
  <2>3. QED
    BY <2>1, <2>2 DEF ResultInv
<1>3. JoinSeesOutcome'
  BY <1>1, <1>2 DEF ResultIInv, JoinInv, JoinSeesOutcome
<1>4. \A c \in Clients : call[c] = "read" \/ seen[c] # "none" => Ended(on[c])'
  BY <1>1, <1>2 DEF ResultIInv, JoinInv
<1>5. \A q \in Processes : pc[q] # "none" => pc'[q] # "none"
  BY ThreadMoves DEF ListIInv
<1>6. \A q \in Processes : pc[q] = "over" => pc'[q] = "over"
  BY ThreadMoves DEF ListIInv
<1>7. \A q \in Processes : phase'[q] # "nascent" /\ pc'[q] = "none" => phase[q] # "nascent" /\ pc[q] = "none"
  BY ThreadMoves DEF ListIInv
<1>8. JoinInv'
  BY <1>1, <1>4, <1>5, <1>6, <1>7 DEF ResultIInv, JoinInv
<1>9. QED
  BY <1>2, <1>3, <1>8 DEF ResultIInv

\* A client that joins gets what is settled.
LEMMA ClientKeepsResult ==
  ASSUME OneJoins, TypeOK, ListIInv, ResultIInv, NEW c \in Clients, CallStep(c)
  PROVE  ResultIInv'
<1> DEFINE p == on[c]
<1>1. /\ p \in Processes /\ on' = on /\ \A d \in Clients : on[d] \in Processes
      /\ \A d \in Clients : d # c => call'[d] = call[d] /\ seen'[d] = seen[d]
      /\ UNCHANGED <<back, outcome, values, aborted>>
  BY ClientActs DEF TypeOK
<1>2. ASSUME NEW q \in Processes
      PROVE  /\ \/ pc'[q] = pc[q]
                \/ pc[q] = "none" /\ pc'[q] = "find" /\ q = p /\ call[c] = "create"
                \/ pc[q] = "asleep" /\ pc'[q] = "woken"
             /\ phase'[q] = phase[q] \/ phase'[q] = "active"
  BY <1>1, ClientActs DEF WakeUp, Set, TypeOK
<1>3. ResultInv'
  <2>1. ASSUME NEW q \in Processes PROVE Settled(q)'
    <3>1. Settled(q)
      BY DEF ResultIInv, ResultInv
    <3>2. QED
      BY <1>1, <1>2, <3>1 DEF Settled, Result, Ended, Returning, Loop
  <2>2. QED
    BY <2>1 DEF ResultInv
<1>4. \A q \in Processes : Ended(q) => Ended(q)' /\ pc'[q] = pc[q]
  BY <1>2 DEF Ended
<1>5. ASSUME call'[c] = "read" \/ seen'[c] # "none" PROVE Ended(p)
  <2>1. CASE call[c] = "pthread_join" /\ call'[c] = "read" /\ UNCHANGED seen
    <3>1. p \in joined
      BY <2>1, ClientActs DEF ResultIInv, JoinInv
    <3>2. ASSUME NEW e \in Clients, call[e] = "wait" PROVE FALSE
      BY <2>1, <3>2 DEF OneJoins, ResultIInv, JoinInv
    <3>3. QED
      BY <3>1, <3>2 DEF ResultIInv, JoinInv, Ended
  <2>2. CASE seen'[c] = seen[c] /\ seen[c] # "none"
    BY <2>2 DEF ResultIInv, JoinInv
  <2>3. CASE call[c] = "read"
    BY <2>3 DEF ResultIInv, JoinInv
  <2>4. CASE call[c] = "wait" /\ pc[p] = "over"
    BY <2>4 DEF Ended
  <2>5. QED
    BY <1>5, <2>1, <2>2, <2>3, <2>4, ClientActs
<1>6. \A d \in Clients : call'[d] = "read" \/ seen'[d] # "none" => Ended(on[d])'
  BY <1>1, <1>4, <1>5 DEF ResultIInv, JoinInv
<1>7. \A d \in Clients : /\ call'[d] \in {"pthread_join", "wait", "read"} => "join" \in Calls(d)
                         /\ call'[d] = "pthread_join" => pc'[on[d]] # "none"
  BY <1>1, <1>2, ClientActs DEF ResultIInv, JoinInv
<1>8. ASSUME NEW q \in joined'
      PROVE  pc'[q] = "over" \/ \E d \in Clients : call'[d] = "wait" /\ on[d] = q
  <2>1. q \in joined \/ (q = p /\ call'[c] = "wait")
    BY <1>8, ClientActs
  <2>2. CASE pc[q] = "over"
    BY <1>1, <1>2, <2>1, <2>2 DEF TypeOK
  <2>3. ASSUME NEW d \in Clients, call[d] = "wait", on[d] = q, d # c PROVE call'[d] = "wait"
    BY <1>1, <2>3
  <2>4. CASE call[c] = "wait" /\ p = q
    BY <2>4, ClientActs
  <2>5. QED
    BY <2>1, <2>2, <2>3, <2>4 DEF ResultIInv, JoinInv
<1>9. ASSUME NEW q \in Processes, phase'[q] # "nascent", pc'[q] = "none"
      PROVE  \E d \in Clients : call'[d] = "create" /\ on[d] = q
  <2>1. CASE phase[q] # "nascent"
    <3>1. PICK d \in Clients : call[d] = "create" /\ on[d] = q
      BY <1>2, <1>9, <2>1 DEF ResultIInv, JoinInv
    <3>2. d # c
      BY <1>1, <1>9, <3>1, ClientActs DEF TypeOK
    <3>3. QED
      BY <1>1, <3>1, <3>2
  <2>2. CASE phase[q] = "nascent"
    <3>1. q = p /\ (call'[c] = "create" \/ call[c] = "resume")
      BY <1>1, <1>9, <2>2, ClientActs DEF TypeOK
    <3>2. QED
      BY <2>2, <3>1 DEF ListIInv, StartInv
  <2>3. QED
    BY <2>1, <2>2
<1>10. JoinInv'
  BY <1>1, <1>6, <1>7, <1>8, <1>9 DEF JoinInv
<1>11. JoinSeesOutcome'
  <2>1. ASSUME seen'[c] # "none" PROVE seen'[c] = outcome[p]
    <3>1. CASE seen'[c] = seen[c]
      BY <2>1, <3>1 DEF ResultIInv, JoinSeesOutcome
    <3>2. CASE seen'[c] = Result(p) /\ call[c] = "read"
      BY <1>1, <3>2 DEF ResultIInv, ResultInv, Settled, JoinInv, Ended
    <3>3. QED
      BY <3>1, <3>2, ClientActs
  <2>2. QED
    BY <1>1, <2>1 DEF ResultIInv, JoinSeesOutcome
<1>12. QED
  BY <1>3, <1>10, <1>11 DEF ResultIInv

\* A client that begins to join finds a thread, or its result.
LEMMA BeginKeepsResult ==
  ASSUME OneJoins, TypeOK, ListIInv, ResultIInv, NEW c \in Clients, NEW p \in Processes, BeginCall(c, p)
  PROVE  ResultIInv'
<1>1. /\ call[c] = "rest" /\ \A d \in Clients : d # c => call'[d] = call[d] /\ on'[d] = on[d]
                                                          /\ seen'[d] = seen[d]
      /\ on'[c] = p /\ seen'[c] = "none" /\ call'[c] \notin {"wait", "create"}
      /\ UNCHANGED <<phase, joined, pc, back, outcome, values, aborted>>
  BY CallBegins
<1>2. ResultInv'
  BY <1>1 DEF ResultIInv, ResultInv, Settled, Result, Ended, Returning
<1>3. JoinSeesOutcome'
  BY <1>1 DEF ResultIInv, JoinSeesOutcome
<1>4. call'[c] \in {"pthread_join", "read"} => "join" \in Calls(c)
  BY CallBegins
<1>5. call'[c] = "read" => Ended(p)
  BY CallBegins DEF ResultIInv, ResultInv, Settled
<1>6. ASSUME call'[c] = "pthread_join" PROVE pc[p] # "none"
  <2>1. phase[p] # "nascent" /\ "join" \in Calls(c)
    BY <1>6, CallBegins
  <2>2. ASSUME NEW d \in Clients, call[d] = "create" PROVE FALSE
    BY <1>1, <2>1, <2>2 DEF OneJoins, ListIInv, StartInv, Starting
  <2>3. QED
    BY <2>1, <2>2 DEF ResultIInv, JoinInv
<1>7. \A e \in Clients : call[e] \in {"wait", "create"} => call'[e] = call[e] /\ on'[e] = on[e]
  BY <1>1
<1>8. JoinInv'
  BY <1>1, <1>4, <1>5, <1>6, <1>7 DEF ResultIInv, JoinInv, Ended
<1>9. QED
  BY <1>2, <1>3, <1>8 DEF ResultIInv

\* Where one client joins, mp:process-join gives what the function of the process
\* ended with, whatever interrupts and resumes there were.
THEOREM JoinGivesOutcome == ASSUME OneJoins PROVE Spec => []JoinSeesOutcome
<1>1. Init => ListIInv /\ ResultIInv
  BY DEF Init, ListIInv, BackInv, StartInv, Starting, Listed, Loop, ResultIInv, ResultInv, Settled,
         Returning, JoinInv, JoinSeesOutcome
<1>2. TypeOK /\ ListIInv /\ ResultIInv /\ [Next]_vars => ResultIInv'
  <2> SUFFICES ASSUME TypeOK, ListIInv, ResultIInv, [Next]_vars PROVE ResultIInv'
    OBVIOUS
  <2>1. CASE UNCHANGED vars
    BY <2>1 DEF vars, ResultIInv, ResultInv, Settled, Result, Ended, Returning, JoinInv, JoinSeesOutcome
  <2>2. QED
    BY <2>1, ThreadKeepsResult, ClientKeepsResult, BeginKeepsResult DEF Next, Terminated
<1>3. ResultIInv => JoinSeesOutcome
  BY DEF ResultIInv
<1>4. QED
  BY <1>1, <1>2, <1>3, NextList, TypeCorrect, PTL DEF Spec
=============================================================================
