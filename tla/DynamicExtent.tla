--------------------------- MODULE DynamicExtent ---------------------------
(***************************************************************************)
(* What a non-local exit promises: the frames between it and its           *)
(* destination are left from the innermost on, an unwind-protect among     *)
(* them runs its cleanup once, in the environment around it, and when the  *)
(* cleanup returns the exit goes on.  A special variable has the value of  *)
(* the innermost binding at every moment.                                  *)
(***************************************************************************)
EXTENDS Naturals, Sequences

VARIABLES frames,  \* the frames, the innermost last
          going,   \* the place of the frame an exit goes to, 0 when there is none
          value    \* the place of the frame with the binding in force, 0 for the global value

vars == <<frames, going, value>>

Top == Len(frames)
Upto(j) == SubSeq(frames, 1, j)

Guarded(f) == f.kind = "protect" /\ f.phase = "body"

Innermost(fs) == LET binds == {i \in 1..Len(fs) : fs[i].kind = "bind"}
                 IN IF binds = {} THEN 0 ELSE CHOOSE i \in binds : \A j \in binds : j <= i

Become(fs, d) == /\ frames' = fs
                 /\ going' = d
                 /\ value' = Innermost(fs)

InCleanup(d) == [kind |-> "protect", phase |-> "cleanup", then |-> d]

Init == frames = <<>> /\ going = 0 /\ value = 0

Enter(k) == /\ going = 0
            /\ Become(Append(frames, [kind |-> k, phase |-> "body", then |-> 0]), 0)

Return == /\ going = 0 /\ Top > 0
          /\ frames[Top].phase = "body"
          /\ IF frames[Top].kind = "protect"
             THEN Become(Append(Upto(Top - 1), InCleanup(0)), 0)
             ELSE Become(Upto(Top - 1), 0)

\* A cleanup returns, and the exit that it interrupted goes on.
EndCleanup == /\ going = 0 /\ Top > 0
              /\ frames[Top].phase = "cleanup"
              /\ \/ Become(Upto(Top - 1), frames[Top].then)
                 \/ frames[Top].then # 0 /\ Become(frames, frames[Top].then)

Exit(d) == /\ going = 0 /\ d \in 1..Top
           /\ frames[d].kind \in {"block", "tagbody", "catch"}
           /\ Become(frames, d)

\* The frames above j may be left: none of them has a cleanup to run.
MayLeave(j) == going > 0 /\ \A i \in (j + 1)..Top : ~Guarded(frames[i])

Leave(j) == MayLeave(j) /\ going <= j /\ Become(Upto(j), going)

Cleanup(j) == /\ MayLeave(j) /\ going < j
              /\ Guarded(frames[j])
              /\ Become(Append(Upto(j - 1), InCleanup(going)), 0)

Arrive == /\ MayLeave(going)
          /\ Become(Upto(IF frames[going].kind = "tagbody" THEN going ELSE going - 1), 0)

Next == \/ \E k \in {"block", "tagbody", "catch", "protect", "bind", "unknown"} : Enter(k)
        \/ Return
        \/ EndCleanup
        \/ \E d \in 1..Top : Exit(d)
        \/ \E j \in 1..Top : Leave(j) \/ Cleanup(j)
        \/ Arrive

Spec == Init /\ [][Next]_vars
=============================================================================
