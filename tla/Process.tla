------------------------------- MODULE Process -------------------------------
(***************************************************************************)
(* mp:process: the phases of a Process_O, the list of the active threads,  *)
(* the queue of interrupts of a thread, and the calls of mp: that start,   *)
(* suspend, resume, kill and join a process.                               *)
(*                                                                         *)
(* Clients are the threads that make the calls.  A call is cut where the   *)
(* code reads or writes what the process or another client may change.     *)
(* initialize_thread is one step.  Left out: pthread_create that fails.    *)
(***************************************************************************)
EXTENDS Integers, Sequences

CONSTANTS Processes, Clients,
          Calls(_),     \* the calls a client may make
          MaxPending    \* bound of the model: interrupts queued for a process

ProcessOps == {"start", "suspend", "kill", "resume", "join"}

\* One client starts a process: mp:process-run-function, or mp:process-start by
\* the thread that made it.  The list of the processes is a set for that.
ASSUME ProcessAssumption ==
  /\ MaxPending \in Nat
  /\ \A c \in Clients : Calls(c) \subseteq ProcessOps
  /\ \A c, d \in Clients : "start" \in Calls(c) /\ "start" \in Calls(d) => c = d

VARIABLES phase,     \* _Phase
          listed,    \* _ActiveThreads
          live,      \* the processes whose _ThreadInfo is a running thread's
          pending,   \* _PendingInterrupts of the thread
          pc,        \* where the thread of the process is
          back,      \* where it returns to from an interrupt
          values,    \* what _ReturnValuesList holds: of the function, of an exit, NIL
          aborted,   \* _Aborted
          outcome,   \* how the function of the process ended, for the properties
          joined,    \* the processes whose thread a pthread_join has claimed
          crashed,   \* the program was ended by abort or std::terminate
          call,      \* where each client is in its call
          on,        \* the process it calls for
          seen       \* what the last mp:process-join of the client gave

threadvars == <<live, pc, back, outcome>>
resultvars == <<values, aborted>>
clientvars == <<call, on, seen, joined>>
vars == <<phase, listed, live, pending, pc, back, values, aborted, outcome,
          joined, crashed, call, on, seen>>

Phases == {"nascent", "active", "suspended", "exited"}
Outcomes == {"none", "returned", "exit", "abort"}
Loop == {"check", "wait", "asleep", "woken"}
Labels == {"none", "find", "setup", "bindings", "run", "values", "suspend",
           "exiting", "remove", "over"} \cup Loop
CallLabels == {"rest", "add", "activate", "create", "suspend", "exit",
               "resume", "pthread_join", "wait", "read"}

Init == /\ phase = [p \in Processes |-> "nascent"]
        /\ listed = {} /\ live = {} /\ crashed = FALSE
        /\ pending = [p \in Processes |-> <<>>]
        /\ pc = [p \in Processes |-> "none"]
        /\ back = [p \in Processes |-> "none"]
        /\ values = [p \in Processes |-> "nil"]
        /\ aborted = [p \in Processes |-> FALSE]
        /\ outcome = [p \in Processes |-> "none"]
        /\ joined = {}
        /\ call = [c \in Clients |-> "rest"]
        /\ on \in [Clients -> Processes]
        /\ seen = [c \in Clients |-> "none"]

\* Nothing runs any more when the program was ended.
At(p, label) == ~crashed /\ pc[p] = label
Goto(p, from, to) == At(p, from) /\ pc' = [pc EXCEPT ![p] = to]
Set(f, p, v) == [f EXCEPT ![p] = v]
Turn(c, from, to) == ~crashed /\ call[c] = from /\ call' = [call EXCEPT ![c] = to]

-----------------------------------------------------------------------------
\* The thread of a process.

\* The thread looks its process up, and aborts the program if it is not there.
Find(p) == /\ IF p \in listed THEN Goto(p, "find", "setup") /\ UNCHANGED crashed
                              ELSE At(p, "find") /\ crashed' = TRUE /\ UNCHANGED pc
           /\ UNCHANGED <<phase, listed, live, pending, back, outcome, resultvars, clientvars>>

\* initialize_thread gives the process its thread, whose queue is empty.
SetUp(p) == /\ Goto(p, "setup", "bindings")
            /\ live' = live \cup {p}
            /\ pending' = Set(pending, p, <<>>)
            /\ UNCHANGED <<phase, listed, back, outcome, resultvars, clientvars, crashed>>

\* The special bindings are made, and the function is called.
Begin(p) == /\ Goto(p, "bindings", "run")
            /\ phase' = Set(phase, p, "active")
            /\ UNCHANGED <<listed, live, pending, back, outcome, resultvars, clientvars, crashed>>

\* Faulty: the process has exited before its values are stored.
FinishEarly(p) == /\ Goto(p, "run", "values")
                  /\ outcome' = Set(outcome, p, "returned")
                  /\ phase' = Set(phase, p, "exited")
                  /\ UNCHANGED <<listed, live, pending, back, resultvars, clientvars, crashed>>

\* The function returns.
Finish(p) == /\ Goto(p, "run", "values")
             /\ outcome' = Set(outcome, p, "returned")
             /\ UNCHANGED <<phase, listed, live, pending, back, resultvars, clientvars, crashed>>

\* Its values become a list.
Store(p) == /\ Goto(p, "values", "exiting")
            /\ values' = Set(values, p, "returned")
            /\ UNCHANGED <<phase, listed, live, pending, back, outcome, aborted, clientvars, crashed>>

\* mp:exit-process stores its values and throws ExitProcess, which only the call
\* of the function catches.
Exit(p, from) == /\ At(p, from)
                 /\ values' = Set(values, p, "exit")
                 /\ IF from = "run"
                    THEN /\ pc' = Set(pc, p, "exiting")
                         /\ outcome' = Set(outcome, p, "exit")
                         /\ UNCHANGED crashed
                    ELSE /\ crashed' = TRUE
                         /\ UNCHANGED <<pc, outcome>>
                 /\ UNCHANGED <<phase, listed, live, back, aborted, clientvars>>

ExitByItself(p) == Exit(p, "run") /\ UNCHANGED pending

\* mp:abort-process throws AbortProcess out of the function.
Abort(p) == /\ Goto(p, "run", "exiting")
            /\ outcome' = Set(outcome, p, "abort")
            /\ aborted' = Set(aborted, p, TRUE)
            /\ UNCHANGED <<phase, listed, live, pending, back, values, clientvars, crashed>>

\* Where the thread allocates it handles the queued interrupts.
Polls == {"bindings", "run", "values"}

\* Faulty: interrupts are handled in suspend_loop too.
HandleInLoop(p) == /\ ~crashed /\ pc[p] \in Polls \cup {"asleep"}
                   /\ Len(pending[p]) > 0
                   /\ Head(pending[p]) = "suspend"
                   /\ pending' = Set(pending, p, Tail(pending[p]))
                   /\ pc' = Set(pc, p, "suspend")
                   /\ back' = Set(back, p, pc[p])
                   /\ UNCHANGED <<phase, listed, live, outcome, resultvars, clientvars, crashed>>

Handle(p) == /\ ~crashed /\ pc[p] \in Polls
             /\ pending[p] # <<>>
             /\ pending' = Set(pending, p, Tail(pending[p]))
             /\ \/ /\ Head(pending[p]) = "exit"
                   /\ Exit(p, pc[p])
                \/ /\ Head(pending[p]) = "suspend"
                   /\ pc' = Set(pc, p, "suspend")
                   /\ back' = Set(back, p, pc[p])
                   /\ UNCHANGED <<phase, listed, live, outcome, resultvars, clientvars, crashed>>

EndThread(p) == /\ Goto(p, "exiting", "remove")
                /\ phase' = Set(phase, p, "exited")
                /\ UNCHANGED <<listed, live, pending, back, outcome, resultvars, clientvars, crashed>>

Remove(p) == /\ Goto(p, "remove", "over")
             /\ listed' = listed \ {p}
             /\ live' = live \ {p}
             /\ UNCHANGED <<phase, pending, back, outcome, resultvars, clientvars, crashed>>

-----------------------------------------------------------------------------
\* suspend_loop.  The thread has the suspension mutex from its first label to
\* pthread_cond_wait, and from there on when it has returned.
MutexFree(p) == pc[p] \notin {"check", "wait"}

Rest == UNCHANGED <<listed, live, pending, back, outcome, resultvars, clientvars, crashed>>

EnterLoop(p) == /\ Goto(p, "suspend", "check")
                /\ phase' = Set(phase, p, "suspended")
                /\ Rest

Test(p) == /\ Goto(p, "check", IF phase[p] = "suspended" THEN "wait" ELSE back[p])
           /\ UNCHANGED phase /\ Rest

Sleep(p) == Goto(p, "wait", "asleep") /\ UNCHANGED phase /\ Rest

SpuriousWakeUp(p) == Goto(p, "asleep", "woken") /\ UNCHANGED phase /\ Rest

\* Faulty: the loop does not go round again.
ReturnAtOnce(p) == Goto(p, "woken", back[p]) /\ UNCHANGED phase /\ Rest

Return(p) == Goto(p, "woken", "check") /\ UNCHANGED phase /\ Rest

-----------------------------------------------------------------------------
\* The calls.  A call that signals an error leaves no trace, and the client may
\* make another one: only those that go on are steps.
Untouched == UNCHANGED <<listed, threadvars, pending, resultvars, crashed>>

Begins(c, o, p, to) == /\ o \in Calls(c)
                       /\ Turn(c, "rest", to)
                       /\ on' = [on EXCEPT ![c] = p]
                       /\ seen' = [seen EXCEPT ![c] = "none"]
                       /\ UNCHANGED <<phase, joined>>
                       /\ Untouched

\* Faulty: the thread is created before the process is in the list.
StartUnlisted(c, p) == phase[p] = "nascent" /\ Begins(c, "start", p, "activate")

\* Undefined behaviour: the call has no effect here, or ends the program.
Undefined == crashed' \in BOOLEAN

\* mp:process-start adds the process to the list, and startProcess marks it
\* active and creates the thread.
Start(c, p) == phase[p] = "nascent" /\ Begins(c, "start", p, "add")

Add(c) == /\ Turn(c, "add", "activate")
          /\ listed' = listed \cup {on[c]}
          /\ UNCHANGED <<phase, threadvars, pending, resultvars, crashed, on, seen, joined>>

Activate(c) == /\ Turn(c, "activate", "create")
               /\ phase' = Set(phase, on[c], "active")
               /\ UNCHANGED <<on, seen, joined>>
               /\ Untouched

Create(c) == /\ Turn(c, "create", "rest")
             /\ Goto(on[c], "none", "find")
             /\ UNCHANGED <<phase, listed, live, pending, back, outcome, resultvars, crashed,
                            on, seen, joined>>

\* mp:process-suspend and mp:process-kill find the process active and then queue
\* an interrupt.
Suspend(c, p) == phase[p] = "active" /\ Begins(c, "suspend", p, "suspend")
Kill(c, p) == phase[p] = "active" /\ Begins(c, "kill", p, "exit")

Queue(c, what) == LET p == on[c] IN
  /\ Turn(c, what, "rest")
  /\ \/ p \in live /\ Len(pending[p]) < MaxPending
                   /\ pending' = Set(pending, p, Append(pending[p], what))
                   /\ UNCHANGED crashed
     \/ p \notin live /\ UNCHANGED pending /\ Undefined
  /\ UNCHANGED <<phase, listed, threadvars, resultvars, on, seen, joined>>

\* Faulty: a process that is not suspended is resumed.
ResumeAnyway(c, p) == Begins(c, "resume", p, "resume")

\* mp:process-resume finds the process suspended, and then takes the suspension
\* mutex to make it active and to signal the condition variable.
Resume(c, p) == phase[p] = "suspended" /\ Begins(c, "resume", p, "resume")

WakeUp(p) == pc' = IF pc[p] = "asleep" THEN Set(pc, p, "woken") ELSE pc

\* Faulty: the suspension mutex is not taken.
SetActiveUnlocked(c) == LET p == on[c] IN
  /\ Turn(c, "resume", "rest")
  /\ phase' = Set(phase, p, "active")
  /\ WakeUp(p)
  /\ UNCHANGED <<listed, live, pending, back, outcome, resultvars, crashed, on, seen, joined>>

SetActive(c) == LET p == on[c] IN
  /\ MutexFree(p)
  /\ Turn(c, "resume", "rest")
  /\ phase' = Set(phase, p, "active")
  /\ WakeUp(p)
  /\ UNCHANGED <<listed, live, pending, back, outcome, resultvars, crashed, on, seen, joined>>

\* mp:process-join waits for the thread, unless the phase says that it has exited.
Join(c, p) == \/ phase[p] \in {"active", "suspended"} /\ Begins(c, "join", p, "pthread_join")
              \/ phase[p] = "exited" /\ Begins(c, "join", p, "read")

\* pthread_join of a thread that is claimed, or of none, is undefined: where it
\* returns it does so at once, with an error that nobody reads.
PthreadJoin(c) == LET p == on[c] IN
  /\ \/ /\ p \notin joined /\ pc[p] # "none"
        /\ Turn(c, "pthread_join", "wait")
        /\ joined' = joined \cup {p}
        /\ UNCHANGED crashed
     \/ /\ p \in joined \/ pc[p] = "none"
        /\ Turn(c, "pthread_join", "read")
        /\ UNCHANGED joined
        /\ Undefined
  /\ UNCHANGED <<phase, listed, threadvars, pending, resultvars, on, seen>>

ThreadOver(c) == /\ pc[on[c]] = "over"
                 /\ Turn(c, "wait", "read")
                 /\ UNCHANGED <<phase, on, seen, joined>>
                 /\ Untouched

\* The error or the values are taken from the process.
ReadResult(c) == LET p == on[c] IN
  /\ Turn(c, "read", "rest")
  /\ seen' = [seen EXCEPT ![c] = IF aborted[p] THEN "abort" ELSE values[p]]
  /\ UNCHANGED <<phase, on, joined>>
  /\ Untouched

-----------------------------------------------------------------------------
LoopStep(p) == EnterLoop(p) \/ Test(p) \/ Sleep(p) \/ Return(p)

ThreadStep(p) == \/ Find(p) \/ SetUp(p) \/ Begin(p)
                 \/ Finish(p) \/ Store(p) \/ ExitByItself(p) \/ Abort(p)
                 \/ Handle(p)
                 \/ EndThread(p) \/ Remove(p)
                 \/ LoopStep(p) \/ SpuriousWakeUp(p)

BeginCall(c, p) == Start(c, p) \/ Suspend(c, p) \/ Kill(c, p) \/ Resume(c, p) \/ Join(c, p)

CallStep(c) == \/ Add(c) \/ Activate(c) \/ Create(c)
               \/ \E what \in {"suspend", "exit"} : Queue(c, what)
               \/ SetActive(c)
               \/ PthreadJoin(c) \/ ThreadOver(c) \/ ReadResult(c)

Terminated == crashed /\ UNCHANGED vars

Next == \/ \E p \in Processes : ThreadStep(p)
        \/ \E c \in Clients : CallStep(c)
        \/ \E c \in Clients, p \in Processes : BeginCall(c, p)
        \/ Terminated

Spec == Init /\ [][Next]_vars

(***************************************************************************)
(* A thread in suspend_loop and a client in a call are scheduled again and *)
(* again.  Nothing says that the function of a process ends, that it       *)
(* allocates, or that anybody resumes it.                                  *)
(***************************************************************************)
Fairness == /\ \A p \in Processes : WF_vars(LoopStep(p))
            /\ \A c \in Clients : WF_vars(CallStep(c))

FairSpec == Spec /\ Fairness

-----------------------------------------------------------------------------
TypeOK == /\ phase \in [Processes -> Phases]
          /\ listed \subseteq Processes /\ live \subseteq Processes /\ joined \subseteq Processes
          /\ pending \in [Processes -> Seq({"suspend", "exit"})]
          /\ pc \in [Processes -> Labels]
          /\ back \in [Processes -> {"bindings", "run", "values", "none"}]
          /\ values \in [Processes -> {"nil", "returned", "exit"}]
          /\ aborted \in [Processes -> BOOLEAN]
          /\ outcome \in [Processes -> Outcomes]
          /\ crashed \in BOOLEAN
          /\ call \in [Clients -> CallLabels]
          /\ on \in [Clients -> Processes]
          /\ seen \in [Clients -> Outcomes \cup {"nil"}]

\* A thread finds its process when it starts and when it ends: the process is in
\* the list of mp:all-processes for all the life of its thread.
Listed == \A p \in Processes : pc[p] \notin {"none", "over"} => p \in listed

\* A suspended process runs nothing but suspend_loop, whatever woke it up.
SuspendedIsStill == \A p \in Processes : phase[p] = "suspended" => pc[p] \in Loop

\* mp:process-join gives what the function of the process ended with, and so not
\* before it has ended.
JoinSeesOutcome == \A c \in Clients : seen[c] # "none" => seen[c] = outcome[on[c]]

\* The phases proceed as ProcessPhase says; Exited is permanent.
PhaseProceeds == {<<"nascent", "active">>, <<"active", "suspended">>, <<"active", "exited">>,
                  <<"suspended", "active">>, <<"suspended", "exited">>}
PhaseSteps == [][\A p \in Processes : phase'[p] # phase[p]
                                        => <<phase[p], phase'[p]>> \in PhaseProceeds]_vars

\* A resumed process goes on: the signal is not lost between the test of the
\* phase and the wait.
ResumedGoesOn == \A p \in Processes :
  pc[p] \in Loop /\ phase[p] = "active" ~> pc[p] \notin Loop \/ crashed
=============================================================================
