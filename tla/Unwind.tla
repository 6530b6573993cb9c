------------------------------- MODULE Unwind -------------------------------
(***************************************************************************)
(* Non-local exits (return-from, go, throw): the unwinder that walks the   *)
(* stack of dynamic environments and longjmps, and the C++ exceptions it   *)
(* falls back to where frames that it does not know are in between.        *)
(*                                                                         *)
(* One thread.  Its frames are those of the functions that establish a     *)
(* dynamic environment (call_with_escape, call_with_tagbody,               *)
(* call_with_catch, funwind_protect, call_with_cell_bound,                 *)
(* sjlj_call_with_unknown_dynenv); what the code between them does is any  *)
(* sequence of calls, returns and exits.  A frame and its environment are  *)
(* named by the frame's place on the stack.                                *)
(***************************************************************************)
EXTENDS Naturals, Sequences

CONSTANTS MaxFrames, \* a bound on the depth
          Tags,      \* the tags of CATCH
          Abandons   \* whether programs longjmp out of one catch block inside another

ASSUME UnwindAssumption == MaxFrames \in Nat /\ Abandons \in BOOLEAN

Kinds == {"block", "tagbody", "catch", "protect", "bind", "unknown"}
NoTag == "none"
ASSUME TagAssumption == NoTag \notin Tags

VARIABLES frames,      \* the C++ stack, the innermost frame last
          dynEnvStack, \* the stack of dynamic environments, of the frames at these places
          cell,        \* the place of the frame that set the special variable last, 0 for none
          mode,        \* whether code runs, the unwinder walks, or an exception is in flight
          iter,        \* the part of the stack the walk has not passed
          unwindDest,  \* _UnwindDest
          thrown,      \* the exception in flight
          caught       \* the exceptions whose catch blocks are entered and not left

vars == <<frames, dynEnvStack, cell, mode, iter, unwindDest, thrown, caught>>

Top == Len(frames)
Here == frames[Top]
Last(s) == s[Len(s)]
Front(s) == SubSeq(s, 1, Len(s) - 1)
Upto(j) == SubSeq(frames, 1, j)
Kind(i) == frames[i].kind

ToFrame(i) == [op |-> "unwind", to |-> i, tag |-> NoTag]
ToTag(t) == [op |-> "throw", to |-> 0, tag |-> t]
Nowhere == [op |-> "none", to |-> 0, tag |-> NoTag]

Running == mode = "run"

Init == /\ frames = <<>> /\ dynEnvStack = <<>> /\ cell = 0
        /\ mode = "run" /\ iter = <<>> /\ unwindDest = 0
        /\ thrown = Nowhere /\ caught = <<>>

Enter(k, t) == /\ Running /\ Top < MaxFrames
               /\ frames' = Append(frames, [kind |-> k, tag |-> t, phase |-> "body", then |-> Nowhere,
                                            outer |-> dynEnvStack, old |-> cell])
               /\ dynEnvStack' = Append(dynEnvStack, Top + 1)
               /\ cell' = IF k = "bind" THEN Top + 1 ELSE cell
               /\ UNCHANGED <<mode, iter, unwindDest, thrown, caught>>

\* The frame f runs its cleanup, after an exit x or a return.
Cleaning(f, how, x) == [f EXCEPT !.phase = how, !.then = x]

\* The innermost frame returns: ~DynEnvPusher, and ~DynamicScopeManager.
Return == /\ Running /\ Top > 0 /\ Here.phase = "body"
          /\ frames' = IF Here.kind = "protect"
                       THEN Append(Upto(Top - 1), Cleaning(Here, "returned", Nowhere))
                       ELSE Upto(Top - 1)
          /\ dynEnvStack' = Here.outer
          /\ cell' = IF Here.kind = "bind" THEN Here.old ELSE cell
          /\ UNCHANGED <<mode, iter, unwindDest, thrown, caught>>

\* A cleanup returns: to the caller, to the walk, or to the rethrow.
EndReturned == /\ Running /\ Top > 0 /\ Here.phase = "returned"
               /\ frames' = Upto(Top - 1)
               /\ UNCHANGED <<dynEnvStack, cell, mode, iter, unwindDest, thrown, caught>>

EndJumped == /\ Running /\ Top > 0 /\ Here.phase = "jumped"
             /\ unwindDest' = Here.then.to
             /\ mode' = "walk" /\ iter' = dynEnvStack
             /\ UNCHANGED <<frames, dynEnvStack, cell, thrown, caught>>

\* "throw;" throws the exception of the catch block entered last and not left.
EndCaught == /\ Running /\ Top > 0 /\ Here.phase = "caught"
             /\ thrown' = Last(caught) /\ caught' = Front(caught)
             /\ mode' = "throw"
             /\ frames' = Upto(Top - 1)
             /\ UNCHANGED <<dynEnvStack, cell, iter, unwindDest>>

-----------------------------------------------------------------------------
\* The search.

Above(d) == {i \in 1..Len(dynEnvStack) : dynEnvStack[i] > d}
InExtent(d) == \E i \in 1..Len(dynEnvStack) : dynEnvStack[i] = d
FallBack(d) == \E i \in Above(d) : Kind(dynEnvStack[i]) = "unknown"

\* The place of the catch that a throw of t goes to.
CatchOf(t) == {dynEnvStack[i] : i \in {j \in 1..Len(dynEnvStack) :
                 /\ Kind(dynEnvStack[j]) = "catch" /\ frames[dynEnvStack[j]].tag = t
                 /\ \A k \in (j + 1)..Len(dynEnvStack) : frames[dynEnvStack[k]].tag # t}}

InCatch(i) == frames[i].phase = "caught"

\* A longjmp out of a catch block leaves its exception entered, and the rethrow
\* of an outer one throws it instead.  An exit that leaves one only if there is
\* no other does no harm.
KeepsCatches(d) == \A i, j \in 1..Top : InCatch(i) /\ InCatch(j) /\ i < j => j <= d

\* Where there is no outer one, what stays entered is not seen again: it is left
\* out, as is _UnwindDest after a jump.
StillCaught(j) == IF \E i \in 1..j : InCatch(i) THEN caught ELSE <<>>

\* sjlj_unwind and sjlj_throw, for a destination that is in extent.
Proceed(d) == /\ ~FallBack(d)
              /\ ~Abandons => KeepsCatches(d)
              /\ unwindDest' = d
              /\ mode' = "walk" /\ iter' = dynEnvStack
              /\ UNCHANGED <<frames, dynEnvStack, cell, thrown, caught>>

ThrowException(d, x) == /\ FallBack(d)
                        /\ thrown' = x /\ mode' = "throw"
                        /\ UNCHANGED <<frames, dynEnvStack, cell, iter, unwindDest, caught>>

UnwindTo(d) == /\ Running /\ InExtent(d) /\ Kind(d) \in {"block", "tagbody"}
               /\ Proceed(d) \/ ThrowException(d, ToFrame(d))

Throw(t) == /\ Running
            /\ \E d \in CatchOf(t) : Proceed(d) \/ ThrowException(d, ToTag(t))

-----------------------------------------------------------------------------
\* sjlj_unwind_proceed.

AtDest == Last(iter) = unwindDest

\* Faulty: a tagbody is left like a block.
JumpOut == /\ mode = "walk" /\ AtDest
           /\ dynEnvStack' = Front(iter)
           /\ frames' = Upto(IF Kind(unwindDest) = "tagbody" THEN unwindDest ELSE unwindDest - 1)
           /\ mode' = "run" /\ iter' = <<>> /\ unwindDest' = 0
           /\ caught' = StillCaught(unwindDest)
           /\ UNCHANGED <<cell, thrown>>

Jump == /\ mode = "walk" /\ AtDest
        /\ IF Kind(unwindDest) = "tagbody"
           THEN dynEnvStack' = iter /\ frames' = Upto(unwindDest)
           ELSE dynEnvStack' = Front(iter) /\ frames' = Upto(unwindDest - 1)
        /\ mode' = "run" /\ iter' = <<>> /\ unwindDest' = 0
        /\ caught' = StillCaught(unwindDest)
        /\ UNCHANGED <<cell, thrown>>

\* Faulty: the environment with the cleanup stays on the stack.
JumpToCleanupOn == /\ mode = "walk" /\ ~AtDest
                   /\ Kind(Last(iter)) = "protect"
                   /\ dynEnvStack' = iter
                   /\ frames' = Append(Upto(Last(iter) - 1),
                                       Cleaning(frames[Last(iter)], "jumped", ToFrame(unwindDest)))
                   /\ mode' = "run" /\ iter' = <<>> /\ unwindDest' = 0
                   /\ caught' = StillCaught(Last(iter))
                   /\ UNCHANGED <<cell, thrown>>

\* UnwindProtectDynEnv_O::proceed, and the start of the cleanup.
JumpToCleanup == /\ mode = "walk" /\ ~AtDest
                 /\ Kind(Last(iter)) = "protect"
                 /\ dynEnvStack' = Front(iter)
                 /\ frames' = Append(Upto(Last(iter) - 1),
                                     Cleaning(frames[Last(iter)], "jumped", ToFrame(unwindDest)))
                 /\ mode' = "run" /\ iter' = <<>> /\ unwindDest' = 0
                 /\ caught' = StillCaught(Last(iter))
                 /\ UNCHANGED <<cell, thrown>>

\* Faulty: a walk does not stop.
WalkAgain == /\ mode = "walk" /\ ~AtDest
             /\ Kind(Last(iter)) # "protect"
             /\ dynEnvStack' = iter
             /\ iter' = iter
             /\ cell' = IF Kind(Last(iter)) = "bind" THEN frames[Last(iter)].old ELSE cell
             /\ UNCHANGED <<frames, mode, unwindDest, thrown, caught>>

\* BindingDynEnv_O::proceed, and the others, which do nothing.
WalkOn == /\ mode = "walk" /\ ~AtDest
          /\ Kind(Last(iter)) # "protect"
          /\ dynEnvStack' = iter
          /\ iter' = Front(iter)
          /\ cell' = IF Kind(Last(iter)) = "bind" THEN frames[Last(iter)].old ELSE cell
          /\ UNCHANGED <<frames, mode, unwindDest, thrown, caught>>

-----------------------------------------------------------------------------
\* C++ exceptions: a frame at a time, from the innermost.  One that no frame
\* catches ends the program.

Catches(f) == /\ f.phase = "body"
              /\ \/ thrown.op = "unwind" /\ f.kind \in {"block", "tagbody"} /\ thrown.to = Top
                 \/ thrown.op = "throw" /\ f.kind = "catch" /\ thrown.tag = f.tag

Catch == /\ mode = "throw" /\ Top > 0 /\ Catches(Here)
         /\ IF Here.kind = "tagbody"
            THEN dynEnvStack' = Append(Here.outer, Top) /\ UNCHANGED frames
            ELSE dynEnvStack' = Here.outer /\ frames' = Upto(Top - 1)
         /\ mode' = "run" /\ thrown' = Nowhere
         /\ UNCHANGED <<cell, iter, unwindDest, caught>>

CatchAll == /\ mode = "throw" /\ Top > 0 /\ Here.kind = "protect" /\ Here.phase = "body"
            /\ dynEnvStack' = Here.outer
            /\ frames' = Append(Upto(Top - 1), Cleaning(Here, "caught", thrown))
            /\ caught' = Append(caught, thrown)
            /\ mode' = "run" /\ thrown' = Nowhere
            /\ UNCHANGED <<cell, iter, unwindDest>>

\* Faulty: the environment of the frame is not taken off the stack.
PassFrameOnly == /\ mode = "throw" /\ Top > 0 /\ ~Catches(Here)
                 /\ Here.phase = "body" => Here.kind # "protect"
                 /\ cell' = IF Here.kind = "bind" THEN Here.old ELSE cell
                 /\ caught' = IF Here.phase = "caught" THEN Front(caught) ELSE caught
                 /\ frames' = Upto(Top - 1)
                 /\ UNCHANGED <<dynEnvStack, mode, iter, unwindDest, thrown>>

\* The destructors of a frame in its body; a cleanup has none but the end of its
\* catch block.
PassFrame == /\ mode = "throw" /\ Top > 0 /\ ~Catches(Here)
             /\ IF Here.phase = "body"
                THEN /\ Here.kind # "protect"
                     /\ dynEnvStack' = Here.outer
                     /\ cell' = IF Here.kind = "bind" THEN Here.old ELSE cell
                ELSE UNCHANGED <<dynEnvStack, cell>>
             /\ caught' = IF Here.phase = "caught" THEN Front(caught) ELSE caught
             /\ frames' = Upto(Top - 1)
             /\ UNCHANGED <<mode, iter, unwindDest, thrown>>

-----------------------------------------------------------------------------
Travel == Jump \/ JumpToCleanup \/ WalkOn \/ Catch \/ CatchAll \/ PassFrame

Next == \/ \E k \in Kinds \ {"catch"} : Enter(k, NoTag)
        \/ \E t \in Tags : Enter("catch", t) \/ Throw(t)
        \/ Return
        \/ EndReturned \/ EndJumped \/ EndCaught
        \/ \E d \in 1..Top : UnwindTo(d)
        \/ Travel

Spec == Init /\ [][Next]_vars

\* An exit on its way goes on: the thread runs nothing else.
FairSpec == Spec /\ WF_vars(Travel)

-----------------------------------------------------------------------------
Places == 1..MaxFrames
Envs == UNION {[1..n -> Places] : n \in 0..MaxFrames}
Exits == [op : {"none", "unwind", "throw"}, to : Places \cup {0}, tag : Tags \cup {NoTag}]

FrameOK(f) == /\ f.kind \in Kinds /\ f.tag \in Tags \cup {NoTag}
              /\ f.phase \in {"body", "returned", "jumped", "caught"}
              /\ f.phase # "body" => f.kind = "protect"
              /\ f.then \in Exits
              /\ f.outer \in Envs /\ f.old \in Places \cup {0}

TypeOK == /\ Top <= MaxFrames /\ \A i \in 1..Top : FrameOK(frames[i])
          /\ dynEnvStack \in Envs /\ iter \in Envs
          /\ \A i \in 1..Len(dynEnvStack) : dynEnvStack[i] <= Top
          /\ cell \in 0..Top
          /\ mode \in {"run", "walk", "throw"}
          /\ unwindDest \in Places \cup {0}
          /\ thrown \in Exits /\ (mode = "throw" <=> thrown # Nowhere)
          /\ \A i \in 1..Len(caught) : caught[i] \in Exits

\* While code runs, the stack of dynamic environments is that of the frames: no
\* exit can find the environment of a frame that is gone, nor miss one that is
\* there, whichever unwinder brought the thread where it is.
EnvMirrorsFrames ==
  Running => /\ \A i, j \in 1..Len(dynEnvStack) : i < j => dynEnvStack[i] < dynEnvStack[j]
             /\ \A j \in 1..Top : InExtent(j) <=> frames[j].phase = "body"

\* The frames that the walk has not passed.
Standing == IF mode # "walk" \/ iter = dynEnvStack THEN Top ELSE Last(iter)

\* The frame that an exit goes to from place i of the stack fs.
Destination(fs, x, i) ==
  CASE x.op = "none" -> 0
    [] x.op = "unwind" -> x.to
    [] x.op = "throw" -> CHOOSE j \in 1..(i - 1) :
         /\ fs[j].kind = "catch" /\ fs[j].tag = x.tag
         /\ \A k \in (j + 1)..(i - 1) : fs[k].tag # x.tag

\* What DynamicExtent sees of a frame, of the stack and of an exit.
View(fs, i) == [kind |-> fs[i].kind,
                phase |-> IF fs[i].phase = "body" THEN "body" ELSE "cleanup",
                then |-> Destination(fs, fs[i].then, i)]

Stack == [i \in 1..Standing |-> View(frames, i)]

Going == CASE mode = "run" -> 0
           [] mode = "walk" -> unwindDest
           [] mode = "throw" -> Destination(frames, thrown, Top + 1)

Extent == INSTANCE DynamicExtent WITH frames <- Stack, going <- Going, value <- cell

\* Both unwinders keep the promise of an exit: cleanups run once and in order,
\* bindings are undone, and an exit interrupted by cleanups, with exits of their
\* own in them, arrives where it went; for programs that do not longjmp out of one
\* catch block inside another.
ImplementsDynamicExtent == Extent!Spec

\* An exit arrives, or a cleanup runs, for such programs: no exception runs off
\* the end of the stack.
ExitEnds == ~Running ~> Running

\* "C++ unwind. Do the same shit then rethrow" (funwind_protect), of any program:
\* when the cleanup that an exception interrupted returns, it is that exception
\* that goes on, whatever exits there were in the cleanup.
RethrowsCaught == [][EndCaught => thrown' = Here.then]_vars
=============================================================================
