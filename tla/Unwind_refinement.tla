-------------------------- MODULE Unwind_refinement --------------------------
(***************************************************************************)
(* Both unwinders keep the promise of DynamicExtent, for any depth of the  *)
(* stack and any tags, in programs that do not longjmp out of one catch    *)
(* block inside another (Abandons is FALSE).                               *)
(***************************************************************************)
EXTENDS Unwind_proofs, NaturalsInduction, WellFoundedInduction

\* The tags are those of the catches, and what a frame does after its cleanup is
\* what its phase says.
ShapeOK(f) == /\ f.kind = "catch" => f.tag \in Tags
              /\ f.kind # "catch" => f.tag = NoTag
              /\ f.phase \in {"body", "returned"} => f.then = Nowhere
              /\ f.phase = "jumped" => f.then.op = "unwind"

\* fs is the stack of a program that does not abandon catch blocks.
Shape(fs) == ~Abandons /\ \A i \in 1..Len(fs) : ShapeOK(fs[i])

\* The frame d is where x goes from place i.
IsDest(fs, x, i, d) ==
  \/ x.op = "none" /\ d = 0
  \/ x.op = "unwind" /\ d = x.to
  \/ /\ x.op = "throw" /\ d \in 1..(i - 1)
     /\ fs[d].kind = "catch" /\ fs[d].tag = x.tag
     /\ \A k \in (d + 1)..(i - 1) : fs[k].tag # x.tag

-----------------------------------------------------------------------------
\* A set of places has a greatest one.
LEMMA Greatest == ASSUME NEW n \in Nat, NEW T \in SUBSET (1..n), T # {}
                  PROVE  \E x \in T : \A y \in T : y <= x
<1> DEFINE R == OpToRel(<, Nat)
           U == {n - x : x \in T}
<1>1. IsWellFoundedOn(R, Nat)
  BY NatLessThanWellFounded
<1>2. \A x, y \in Nat : <<y, x>> \in R <=> y < x
  BY DEF OpToRel
<1> HIDE DEF R
<1>3. U \in SUBSET Nat /\ U # {}
  <2>1. ASSUME NEW y \in T PROVE n - y \in Nat
    <3>1. y \in 1..n
      OBVIOUS
    <3>2. QED
      BY <3>1
  <2>2. QED
    BY <2>1
<1>4. PICK u \in U : \A v \in U : ~(<<v, u>> \in R)
  <2> HIDE DEF U
  <2>1. QED
    BY <1>1, <1>3, WFMin
<1>5. PICK x \in T : u = n - x
  BY <1>4
<1>6. ASSUME NEW y \in T PROVE y <= x
  <2>1. n - y \in U
    OBVIOUS
  <2>2. n - y \in Nat /\ n - x \in Nat
    BY <1>3, <1>5, <2>1
  <2>3. ~(n - y < n - x)
    BY <1>2, <1>4, <1>5, <2>1, <2>2
  <2>4. x \in 1..n /\ y \in 1..n
    OBVIOUS
  <2>5. QED
    BY <2>3, <2>4
<1>7. QED
  BY <1>6

\* An exit has one destination,
LEMMA DestUnique ==
  ASSUME NEW fs, NEW x, NEW i \in Nat \ {0}, NEW d, IsDest(fs, x, i, d)
  PROVE  Destination(fs, x, i) = d
<1>1. CASE x.op # "throw"
  BY <1>1 DEF IsDest, Destination
<1>2. CASE x.op = "throw"
  <2> DEFINE P(j) == /\ fs[j].kind = "catch" /\ fs[j].tag = x.tag
                     /\ \A k \in (j + 1)..(i - 1) : fs[k].tag # x.tag
  <2>1. d \in 1..(i - 1) /\ P(d)
    BY <1>2 DEF IsDest
  <2>2. ASSUME NEW j \in 1..(i - 1), P(j) PROVE j = d
    <3>1. ~(j < d)
      BY <2>1, <2>2
    <3>2. ~(d < j)
      BY <2>1, <2>2
    <3>3. QED
      BY <2>1, <3>1, <3>2
  <2>3. Destination(fs, x, i) = CHOOSE j \in 1..(i - 1) : P(j)
    BY <1>2 DEF Destination
  <2> HIDE DEF P
  <2>4. QED
    BY <2>1, <2>2, <2>3
<1>3. QED
  BY <1>1, <1>2

\* and it is there for one that a frame receives.
LEMMA Arrives ==
  ASSUME NEW fs, FramesInv(fs), Shape(fs), NEW n \in 0..Len(fs), NEW x, Reaches(fs, x, n)
  PROVE  \E d \in 1..n : IsDest(fs, x, n + 1, d) /\ Goal(fs, d, n) /\ Receives(fs, d, x)
<1>1. n \in Nat /\ (n + 1) - 1 = n /\ \A i \in 1..n : i \in 1..Len(fs) /\ fs[i] \in Frame
  BY DEF FramesInv
<1>2. PICK c \in 1..n : fs[c].phase = "body" /\ Receives(fs, c, x)
  BY DEF Reaches, Received, Shape
<1>3. CASE x.op = "unwind"
  BY <1>1, <1>2, <1>3 DEF IsDest, Goal, Receives
<1>4. CASE x.op = "throw"
  <2> DEFINE T == {j \in 1..n : fs[j].kind = "catch" /\ fs[j].tag = x.tag}
  <2>1. c \in T /\ x.tag \in Tags
    BY <1>1, <1>2, <1>4 DEF Receives, Shape, ShapeOK
  <2>2. PICK d \in T : \A j \in T : j <= d
    <3>1. T \in SUBSET (1..n) /\ T # {}
      BY <2>1
    <3> HIDE DEF T
    <3>2. QED
      BY <1>1, <3>1, Greatest
  <2>3. ASSUME NEW k \in (d + 1)..n PROVE fs[k].tag # x.tag
    <3>1. k \in 1..n /\ ~(k <= d)
      BY <1>1, <2>2
    <3>2. k \notin T
      BY <2>2, <3>1
    <3>3. fs[k].kind # "catch" => fs[k].tag = NoTag
      BY <1>1, <3>1 DEF Shape, ShapeOK
    <3>4. QED
      BY <2>1, <3>1, <3>2, <3>3, TagAssumption
  <2>4. fs[d].phase = "body"
    BY <1>1, <2>2 DEF FramesInv, FrameInv
  <2>5. IsDest(fs, x, n + 1, d)
    BY <1>1, <1>4, <2>2, <2>3 DEF IsDest
  <2>6. QED
    BY <1>4, <2>2, <2>4, <2>5 DEF Goal, Receives
<1>5. QED
  BY <1>2, <1>3, <1>4 DEF Receives

\* What a frame does after its cleanup has a destination.
LEMMA ThenSettles ==
  ASSUME NEW fs, FramesInv(fs), Shape(fs), NEW i \in 1..Len(fs)
  PROVE  \E d \in Places \cup {0} : IsDest(fs, fs[i].then, i, d)
<1>1. /\ fs[i] \in Frame /\ FrameInv(fs, i) /\ ShapeOK(fs[i]) /\ i \in 1..MaxFrames
      /\ i - 1 \in 0..Len(fs) /\ (i - 1) + 1 = i /\ MaxFrames \in Nat
  BY UnwindAssumption DEF FramesInv, Shape
<1>2. CASE fs[i].phase \in {"body", "returned"}
  BY <1>1, <1>2 DEF ShapeOK, IsDest, Nowhere
<1>3. CASE fs[i].phase = "jumped"
  <2>1. fs[i].then.op = "unwind" /\ fs[i].then.to \in 1..(i - 1)
    BY <1>1, <1>3 DEF ShapeOK, FrameInv, Goal
  <2>2. QED
    BY <1>1, <2>1 DEF IsDest, Places
<1>4. CASE fs[i].phase = "caught"
  <2>1. Reaches(fs, fs[i].then, i - 1)
    BY <1>1, <1>4 DEF FrameInv
  <2>2. PICK d \in 1..(i - 1) : IsDest(fs, fs[i].then, (i - 1) + 1, d)
    BY <1>1, <2>1, Arrives
  <2>3. d \in Places
    BY <1>1 DEF Places
  <2>4. QED
    BY <1>1, <2>2, <2>3
<1>5. QED
  BY <1>1, <1>2, <1>3, <1>4 DEF Frame

-----------------------------------------------------------------------------
\* What DynamicExtent sees of the stack fs up to place n.
ViewFrame == [kind : Kinds, phase : {"body", "cleanup"}, then : Places \cup {0}]
Views(fs, n) == [i \in 1..n |-> View(fs, i)]

\* It depends on the frames up to n,
LEMMA ViewLocal ==
  ASSUME NEW fs, FramesInv(fs), Shape(fs), NEW n \in 0..Len(fs), NEW gs, Agree(fs, gs, n), NEW i \in 1..n
  PROVE  View(gs, i) = View(fs, i) /\ View(fs, i) \in ViewFrame
<1>1. i \in 1..Len(fs) /\ i \in Nat \ {0} /\ fs[i] \in Frame /\ gs[i] = fs[i]
  BY DEF FramesInv, Agree
<1>2. PICK d \in Places \cup {0} : IsDest(fs, fs[i].then, i, d)
  BY <1>1, ThenSettles
<1>3. IsDest(gs, gs[i].then, i, d)
  <2>1. \A j \in 1..(i - 1) : gs[j] = fs[j]
    BY DEF Agree
  <2>2. QED
    BY <1>1, <1>2, <2>1 DEF IsDest
<1>4. Destination(fs, fs[i].then, i) = d /\ Destination(gs, gs[i].then, i) = d
  BY <1>1, <1>2, <1>3, DestUnique
<1>5. QED
  BY <1>1, <1>2, <1>4 DEF View, ViewFrame, Frame

\* is a sequence,
LEMMA ViewsTyped ==
  ASSUME NEW fs, FramesInv(fs), Shape(fs), NEW n \in 0..Len(fs)
  PROVE  /\ Views(fs, n) \in Seq(ViewFrame) /\ Len(Views(fs, n)) = n
         /\ \A i \in 1..n : Views(fs, n)[i] = View(fs, i)
<1>1. n \in Nat /\ Agree(fs, fs, n)
  BY DEF FramesInv, Agree
<1>2. Views(fs, n) \in [1..n -> ViewFrame]
  <2>1. \A i \in 1..n : View(fs, i) \in ViewFrame
    BY <1>1, ViewLocal
  <2>2. QED
    BY <2>1 DEF Views
<1>3. QED
  BY <1>1, <1>2, SeqDef DEF Views

\* and is cut,
LEMMA ViewsCut ==
  ASSUME NEW fs, FramesInv(fs), Shape(fs), NEW n \in 0..Len(fs), NEW k \in 0..n,
         NEW gs, Agree(fs, gs, k)
  PROVE  Views(gs, k) = SubSeq(Views(fs, n), 1, k)
<1>1. k \in Nat /\ k \in 0..Len(fs)
  BY DEF FramesInv
<1>2. PICK a : a = Views(fs, n)
  OBVIOUS
<1>3. a \in Seq(ViewFrame) /\ Len(a) = n /\ \A i \in 1..n : a[i] = View(fs, i)
  BY <1>2, ViewsTyped
<1>4. SubSeq(a, 1, k) = [i \in 1..k |-> a[i]]
  BY <1>1, <1>3
<1>5. \A i \in 1..k : a[i] = View(gs, i)
  BY <1>1, <1>3, ViewLocal
<1>6. QED
  BY <1>2, <1>4, <1>5 DEF Views

\* or put upon, as the stack is.
LEMMA ViewsPut ==
  ASSUME NEW fs, FramesInv(fs), Shape(fs), NEW n \in 0..Len(fs), NEW k \in 0..n,
         NEW gs, Agree(fs, gs, k), NEW p \in ViewFrame, View(gs, k + 1) = p
  PROVE  Views(gs, k + 1) = Append(SubSeq(Views(fs, n), 1, k), p)
<1>1. k \in Nat
  BY DEF FramesInv
<1>2. PICK a, b : a = SubSeq(Views(fs, n), 1, k) /\ b = Views(gs, k)
  OBVIOUS
<1>3. a = b
  BY <1>2, ViewsCut
<1>4. a \in Seq(ViewFrame) /\ Len(a) = k
  <2>1. Views(fs, n) \in Seq(ViewFrame) /\ Len(Views(fs, n)) = n
    BY ViewsTyped
  <2>2. QED
    BY <1>1, <1>2, <2>1
<1>5. \A i \in 1..k : a[i] = View(gs, i)
  BY <1>2, <1>3 DEF Views
<1>6. PICK q : q = Append(a, p)
  OBVIOUS
<1>7. q \in [1..(k + 1) -> ViewFrame] /\ q[k + 1] = p /\ \A i \in 1..k : q[i] = a[i]
  <2>1. q \in Seq(ViewFrame)
    BY <1>4, <1>6
  <2>2. Len(q) = k + 1
    BY <1>4, <1>6
  <2>3. q[k + 1] = p /\ \A i \in 1..k : q[i] = a[i]
    BY <1>1, <1>4, <1>6
  <2>4. q \in [1..Len(q) -> ViewFrame]
    BY <2>1, LenProperties
  <2>5. QED
    BY <2>2, <2>3, <2>4
<1>8. \A i \in 1..(k + 1) : q[i] = View(gs, i)
  BY <1>1, <1>5, <1>7
<1>9. QED
  BY <1>2, <1>6, <1>7, <1>8 DEF Views

\* The binding in force.
LEMMA InnermostIs ==
  ASSUME NEW fs, FramesInv(fs), Shape(fs), NEW n \in 0..Len(fs), NEW c, IsCell(fs, c, n)
  PROVE  Extent!Innermost(Views(fs, n)) = c
<1>1. PICK a : a = Views(fs, n)
  OBVIOUS
<1>2. n \in Nat /\ Len(a) = n /\ \A i \in 1..n : a[i].kind = fs[i].kind
  <2>1. n \in Nat /\ Len(a) = n /\ \A i \in 1..n : a[i] = View(fs, i)
    BY <1>1, ViewsTyped DEF FramesInv
  <2>2. \A i \in 1..n : View(fs, i).kind = fs[i].kind
    BY DEF View
  <2>3. QED
    BY <2>1, <2>2
<1> DEFINE B == {i \in 1..Len(a) : a[i].kind = "bind"}
<1>3. Extent!Innermost(a) = IF B = {} THEN 0 ELSE CHOOSE i \in B : \A j \in B : j <= i
  BY DEF Extent!Innermost
<1>4. CASE c = 0
  BY <1>1, <1>2, <1>3, <1>4 DEF IsCell
<1>5. CASE c # 0
  <2>1. c \in B /\ \A j \in B : j <= c
    BY <1>2, <1>5 DEF IsCell
  <2>2. \A i \in B : (\A j \in B : j <= i) => i = c
    BY <1>2, <2>1
  <2> HIDE DEF B
  <2>3. QED
    BY <1>1, <1>3, <2>1, <2>2
<1>6. QED
  BY <1>4, <1>5

-----------------------------------------------------------------------------
\* A walk begins at a frame in its body, and none is above it.
StandInv == mode = "walk" => \A j \in (Last(iter) + 1)..Standing : frames[j].phase # "body"

ExtentInv == UnwindIInv /\ Shape(frames) /\ StandInv

\* The stack that DynamicExtent sees.
LEMMA StackIs ==
  ASSUME ExtentInv
  PROVE  /\ Standing \in 0..Len(frames) /\ Stack = Views(frames, Standing)
         /\ Stack \in Seq(ViewFrame) /\ Len(Stack) = Standing
         /\ \A i \in 1..Standing : Stack[i] = View(frames, i)
         /\ FramesInv(frames) /\ Shape(frames)
         /\ mode # "walk" => Standing = Len(frames)
<1>1. FramesInv(frames) /\ Shape(frames) /\ Len(frames) \in Nat
  BY DEF ExtentInv, UnwindIInv, FramesInv
<1>2. Standing \in 0..Len(frames) /\ (mode # "walk" => Standing = Len(frames))
  <2>1. mode = "walk" => Last(iter) \in 1..Len(frames)
    BY DEF ExtentInv, UnwindIInv, WalkInv
  <2>2. QED
    BY <1>1, <2>1 DEF Standing, Top
<1>3. Stack = Views(frames, Standing)
  BY DEF Stack, Views
<1>4. QED
  BY <1>1, <1>2, <1>3, ViewsTyped

\* After a step the binding in force is that of the frames.
LEMMA Becomes ==
  ASSUME UnwindIInv', Shape(frames'), StandInv', NEW a, Stack' = a, NEW d, Going' = d
  PROVE  Extent!Become(a, d)
<1>1. FramesInv(frames') /\ Len(frames') \in Nat
  BY DEF UnwindIInv, FramesInv
<1>2. Standing' \in 0..Len(frames') /\ Stack' = Views(frames', Standing')
  <2>1. mode' = "walk" => Last(iter') \in 1..Len(frames')
    BY DEF UnwindIInv, WalkInv
  <2>2. QED
    BY <1>1, <2>1 DEF Standing, Top, Stack, Views
<1>3. IsCell(frames', cell', Standing')
  <2>1. CASE mode' # "walk"
    BY <2>1 DEF UnwindIInv, EnvInv, Standing, Top
  <2>2. CASE mode' = "walk"
    <3>1. Last(iter') \in 1..Len(frames') /\ IsCell(frames', cell', Last(iter'))
      BY <2>2 DEF UnwindIInv, WalkInv
    <3>2. \A j \in (Last(iter') + 1)..Standing' : frames'[j].phase # "body"
      BY <2>2 DEF StandInv
    <3>3. \A j \in (Last(iter') + 1)..Standing' : frames'[j].kind # "bind"
      BY <1>1, <1>2, <3>1, <3>2 DEF FramesInv, FrameInv
    <3>4. Standing' >= Last(iter')
      BY <1>1, <3>1 DEF Standing, Top
    <3>5. QED
      BY <1>1, <1>2, <3>1, <3>3, <3>4 DEF IsCell
  <2>3. QED
    BY <2>1, <2>2
<1>4. cell' = Extent!Innermost(Stack')
  BY <1>1, <1>2, <1>3, InnermostIs
<1>5. QED
  BY <1>4 DEF Extent!Become

\* The frames that are left, or are left with one put upon them,
LEMMA ShapeCut ==
  ASSUME NEW fs, FramesInv(fs), Shape(fs), NEW k, NEW gs, Cut(fs, k, gs)
  PROVE  Shape(gs) /\ Agree(fs, gs, k) /\ Len(gs) = k /\ gs \in Seq(Frame)
<1>1. FramesInv(gs) /\ Len(gs) = k /\ Agree(fs, gs, k) /\ \A i \in 1..k : gs[i] = fs[i]
  BY CutFrames
<1>2. k \in 0..Len(fs) /\ Len(fs) \in Nat
  BY DEF Cut, FramesInv
<1>3. QED
  BY <1>1, <1>2 DEF Shape, FramesInv

\* have the right tags.
LEMMA ShapePut ==
  ASSUME NEW fs \in Seq(Frame), Shape(fs), NEW f, ShapeOK(f), NEW gs, Put(fs, f, gs)
  PROVE  Shape(gs) /\ gs[Len(fs) + 1] = f /\ Agree(fs, gs, Len(fs)) /\ Len(gs) = Len(fs) + 1
<1>1. /\ gs \in Seq(Frame) /\ Len(gs) = Len(fs) + 1 /\ gs[Len(fs) + 1] = f
      /\ \A i \in 1..Len(fs) : gs[i] = fs[i]
  BY DEF Put
<1>2. QED
  BY <1>1 DEF Shape, Agree

\* What is seen of a frame with nothing to do after it,
LEMMA ViewEntered ==
  ASSUME NEW fs, NEW i \in Nat \ {0}, fs[i].then = Nowhere
  PROVE  View(fs, i) = [kind |-> fs[i].kind,
                        phase |-> IF fs[i].phase = "body" THEN "body" ELSE "cleanup", then |-> 0]
<1>1. IsDest(fs, fs[i].then, i, 0)
  BY DEF IsDest, Nowhere
<1>2. Destination(fs, fs[i].then, i) = 0
  BY <1>1, DestUnique
<1>3. QED
  BY <1>2 DEF View

\* and of a cleanup.
LEMMA ViewCleanup ==
  ASSUME NEW fs, NEW i \in Nat \ {0}, NEW d, IsDest(fs, fs[i].then, i, d),
         fs[i].kind = "protect", fs[i].phase # "body"
  PROVE  View(fs, i) = Extent!InCleanup(d)
BY DestUnique DEF View, Extent!InCleanup

-----------------------------------------------------------------------------
\* Each step is one of DynamicExtent, and keeps what is known of the frames.
Refines == Shape(frames') /\ StandInv' /\ [Extent!Next]_(Extent!vars)

\* A frame is entered,
LEMMA EnterRefines ==
  ASSUME ExtentInv, NEW k \in Kinds, NEW t \in Tags \cup {NoTag}, k = "catch" <=> t \in Tags, Enter(k, t),
         UnwindIInv'
  PROVE  Refines
<1> DEFINE f == [kind |-> k, tag |-> t, phase |-> "body", then |-> Nowhere,
                 outer |-> dynEnvStack, old |-> cell]
<1>1. PICK n : n = Len(frames)
  OBVIOUS
<1>2. mode = "run" /\ frames' = Append(frames, f) /\ mode' = "run"
  BY DEF Enter, Running
<1>3. /\ Standing = n /\ n \in Nat /\ n \in 0..n
      /\ FramesInv(frames) /\ Shape(frames) /\ frames \in Seq(Frame)
      /\ Stack = Views(frames, n) /\ Stack \in Seq(ViewFrame) /\ Len(Stack) = n
  BY <1>1, <1>2, StackIs DEF FramesInv
<1>4. f \in Frame
  <2>1. Nowhere \in Exits
    BY DEF Nowhere, Exits
  <2>2. dynEnvStack \in Envs /\ cell \in Places \cup {0}
    BY <1>3, UnwindAssumption DEF ExtentInv, UnwindIInv, VarsInv, FramesInv, Places
  <2>3. QED
    BY <2>1, <2>2 DEF Frame
<1>5. ShapeOK(f) /\ f.kind = k /\ f.phase = "body" /\ f.then = Nowhere
  BY TagAssumption DEF ShapeOK
<1> HIDE DEF f
<1>6. PICK gs : gs = frames'
  OBVIOUS
<1>7. Put(frames, f, gs)
  BY <1>2, <1>4, <1>6 DEF Put
<1>8. Shape(gs) /\ gs[n + 1] = f /\ Agree(frames, gs, n) /\ Len(gs) = n + 1
  BY <1>1, <1>3, <1>5, <1>7, ShapePut
<1>9. StandInv' /\ Going = 0 /\ Going' = 0 /\ Standing' = n + 1
  BY <1>2, <1>6, <1>8 DEF StandInv, Going, Standing, Top
<1> DEFINE p == [kind |-> k, phase |-> "body", then |-> 0]
<1>10. p \in ViewFrame /\ View(gs, n + 1) = p
  BY <1>3, <1>5, <1>8, ViewEntered DEF ViewFrame
<1>11. Stack' = Append(Stack, p)
  <2>1. Stack' = Views(gs, n + 1)
    BY <1>6, <1>9 DEF Stack, Views
  <2>2. Views(gs, n + 1) = Append(SubSeq(Stack, 1, n), p)
    BY <1>1, <1>3, <1>8, <1>10, ViewsPut
  <2>3. SubSeq(Stack, 1, n) = Stack
    BY <1>3, SubSeqFull
  <2>4. QED
    BY <2>1, <2>2, <2>3
<1>12. Extent!Enter(k)
  BY <1>6, <1>8, <1>9, <1>11, Becomes DEF Extent!Enter
<1>13. QED
  BY <1>6, <1>8, <1>9, <1>12 DEF Refines, Extent!Next, Kinds

\* The frames up to k are left.
LEMMA CutTo ==
  ASSUME ExtentInv, NEW k \in 0..Standing, frames' = SubSeq(frames, 1, k), Standing' = k
  PROVE  /\ Shape(frames') /\ Agree(frames, frames', k) /\ Len(frames') = k
         /\ Stack' = SubSeq(Stack, 1, k)
<1>1. PICK n, gs : n = Standing /\ gs = frames'
  OBVIOUS
<1>2. /\ n \in 0..Len(frames) /\ Stack = Views(frames, n)
      /\ FramesInv(frames) /\ Shape(frames) /\ Len(frames) \in Nat
  BY <1>1, StackIs DEF FramesInv
<1>3. Cut(frames, k, gs)
  BY <1>1, <1>2 DEF Cut
<1>4. Shape(gs) /\ Agree(frames, gs, k) /\ Len(gs) = k
  BY <1>2, <1>3, ShapeCut
<1>5. Views(gs, k) = SubSeq(Stack, 1, k)
  BY <1>1, <1>2, <1>4, ViewsCut
<1>6. Stack' = Views(gs, k)
  BY <1>1 DEF Stack, Views
<1>7. QED
  BY <1>1, <1>4, <1>5, <1>6

\* A destination below does not depend on the frames above.
LEMMA DestLocal ==
  ASSUME NEW fs, NEW gs, NEW k \in Nat, Agree(fs, gs, k), NEW x, NEW d, IsDest(fs, x, k + 1, d)
  PROVE  IsDest(gs, x, k + 1, d)
<1>1. (k + 1) - 1 = k /\ \A j \in 1..k : gs[j] = fs[j]
  BY DEF Agree
<1>2. QED
  BY <1>1 DEF IsDest

\* A cleanup begins on the frames up to k.
LEMMA CleanupOn ==
  ASSUME ExtentInv, NEW k \in 0..Standing, NEW f \in Frame, ShapeOK(f), f.kind = "protect", f.phase # "body",
         frames' = Append(SubSeq(frames, 1, k), f), mode' = "run",
         NEW d \in Places \cup {0}, IsDest(frames, f.then, k + 1, d)
  PROVE  /\ Shape(frames') /\ StandInv' /\ Going' = 0
         /\ Stack' = Append(SubSeq(Stack, 1, k), Extent!InCleanup(d))
<1>1. PICK n, gs, hs : n = Standing /\ gs = SubSeq(frames, 1, k) /\ hs = frames'
  OBVIOUS
<1>2. /\ n \in 0..Len(frames) /\ Stack = Views(frames, n)
      /\ FramesInv(frames) /\ Shape(frames) /\ Len(frames) \in Nat
  BY <1>1, StackIs DEF FramesInv
<1>3. Cut(frames, k, gs) /\ k \in Nat
  BY <1>1, <1>2 DEF Cut
<1>4. Shape(gs) /\ Agree(frames, gs, k) /\ Len(gs) = k /\ gs \in Seq(Frame)
  BY <1>2, <1>3, ShapeCut
<1>5. Put(gs, f, hs)
  BY <1>1 DEF Put
<1>6. Shape(hs) /\ hs[k + 1] = f /\ Agree(gs, hs, k) /\ Len(hs) = k + 1
  BY <1>4, <1>5, ShapePut
<1>7. Agree(frames, hs, k)
  BY <1>4, <1>6 DEF Agree
<1>8. IsDest(hs, f.then, k + 1, d)
  BY <1>3, <1>7, DestLocal
<1>9. View(hs, k + 1) = Extent!InCleanup(d) /\ Extent!InCleanup(d) \in ViewFrame
  <2>1. k + 1 \in Nat \ {0}
    BY <1>3
  <2>2. Extent!InCleanup(d) \in ViewFrame
    BY DEF Extent!InCleanup, ViewFrame, Kinds
  <2>3. QED
    BY <1>6, <1>8, <2>1, <2>2, ViewCleanup
<1>10. Views(hs, k + 1) = Append(SubSeq(Stack, 1, k), Extent!InCleanup(d))
  BY <1>1, <1>2, <1>7, <1>9, ViewsPut
<1>11. Stack' = Views(hs, k + 1)
  BY <1>1, <1>6 DEF Stack, Views, Standing, Top
<1>12. QED
  BY <1>1, <1>6, <1>10, <1>11 DEF StandInv, Going

\* What is known while code runs.
LEMMA RunFacts ==
  ASSUME ExtentInv, mode = "run", NEW n, n = Len(frames)
  PROVE  /\ n \in 0..MaxFrames /\ n \in Nat /\ Standing = n /\ Going = 0
         /\ Len(Stack) = n /\ Stack \in Seq(ViewFrame)
         /\ \A i \in 1..n : Stack[i] = View(frames, i) /\ frames[i] \in Frame /\ ShapeOK(frames[i])
         /\ (n - 1 \in 0..n \/ n = 0)
BY StackIs DEF FramesInv, Shape, Going

\* it returns,
LEMMA ReturnRefines ==
  ASSUME ExtentInv, Return, UnwindIInv'
  PROVE  Refines
<1>1. PICK n, f : n = Len(frames) /\ f = Cleaning(frames[n], "returned", Nowhere)
  OBVIOUS
<1>2. /\ mode = "run" /\ mode' = "run" /\ n > 0 /\ frames[n].phase = "body"
      /\ frames' = IF frames[n].kind = "protect" THEN Append(SubSeq(frames, 1, n - 1), f)
                   ELSE SubSeq(frames, 1, n - 1)
  BY <1>1 DEF Return, Running, Top, Here, Upto
<1>3. /\ n \in Nat \ {0} /\ n \in 1..n /\ n - 1 \in 0..Standing /\ (n - 1) + 1 = n
      /\ Going = 0 /\ Len(Stack) = n
      /\ Stack[n] = View(frames, n) /\ frames[n] \in Frame /\ ShapeOK(frames[n])
  BY <1>1, <1>2, RunFacts
<1>4. Stack[n].phase = "body" /\ Stack[n].kind = frames[n].kind
  BY <1>2, <1>3 DEF View
<1>5. CASE frames[n].kind # "protect"
  <2>1. Standing' = n - 1
    <3>1. PICK gs : gs = frames'
      OBVIOUS
    <3>2. Cut(frames, n - 1, gs) /\ FramesInv(frames)
      BY <1>1, <1>2, <1>3, <1>5, <3>1 DEF Cut, ExtentInv, UnwindIInv
    <3>3. Len(gs) = n - 1
      BY <3>2, CutFrames
    <3>4. QED
      BY <1>2, <3>1, <3>3 DEF Standing, Top
  <2>2. Shape(frames') /\ Stack' = SubSeq(Stack, 1, n - 1)
    BY <1>2, <1>3, <1>5, <2>1, CutTo
  <2>3. StandInv' /\ Going' = 0
    BY <1>2 DEF StandInv, Going
  <2>4. Extent!Become(SubSeq(Stack, 1, n - 1), 0)
    BY <2>2, <2>3, Becomes
  <2>5. Extent!Return
    BY <1>3, <1>4, <1>5, <2>4 DEF Extent!Return, Extent!Top, Extent!Upto
  <2>6. QED
    BY <2>2, <2>3, <2>5 DEF Refines, Extent!Next
<1>6. CASE frames[n].kind = "protect"
  <2>1. Nowhere \in Exits
    BY DEF Nowhere, Exits
  <2>2. f \in Frame /\ f.phase = "returned" /\ f.kind = "protect" /\ f.then = Nowhere
    BY <1>1, <1>3, <1>6, <2>1, CleaningTyped
  <2>3. ShapeOK(f)
    BY <1>1, <1>3, <1>6, <2>2 DEF ShapeOK, Cleaning, Frame
  <2>4. IsDest(frames, f.then, (n - 1) + 1, 0)
    BY <2>2 DEF IsDest, Nowhere
  <2>5. /\ Shape(frames') /\ StandInv' /\ Going' = 0
        /\ Stack' = Append(SubSeq(Stack, 1, n - 1), Extent!InCleanup(0))
    BY <1>2, <1>3, <1>6, <2>2, <2>3, <2>4, CleanupOn
  <2>6. Extent!Become(Append(SubSeq(Stack, 1, n - 1), Extent!InCleanup(0)), 0)
    BY <2>5, Becomes
  <2>7. Extent!Return
    BY <1>3, <1>4, <1>6, <2>6 DEF Extent!Return, Extent!Top, Extent!Upto
  <2>8. QED
    BY <2>5, <2>7 DEF Refines, Extent!Next
<1>7. QED
  BY <1>5, <1>6

\* After the innermost frame is left, what is seen is the frames below.
LEMMA Dropped ==
  ASSUME ExtentInv, mode = "run", mode' # "walk", NEW n, n = Len(frames), n > 0,
         frames' = SubSeq(frames, 1, n - 1)
  PROVE  /\ Shape(frames') /\ StandInv' /\ Stack' = SubSeq(Stack, 1, n - 1)
         /\ Agree(frames, frames', n - 1) /\ Len(frames') = n - 1
<1>1. n \in Nat \ {0} /\ n - 1 \in 0..Standing
  BY RunFacts
<1>2. Standing' = n - 1
  <2>1. PICK gs : gs = frames'
    OBVIOUS
  <2>2. Cut(frames, n - 1, gs) /\ FramesInv(frames)
    BY <1>1, <2>1 DEF Cut, ExtentInv, UnwindIInv
  <2>3. Len(gs) = n - 1
    BY <2>2, CutFrames
  <2>4. QED
    BY <2>1, <2>3 DEF Standing, Top
<1>3. QED
  BY <1>1, <1>2, CutTo DEF StandInv

\* its cleanup ends, and it returns,
LEMMA EndReturnedRefines ==
  ASSUME ExtentInv, EndReturned, UnwindIInv'
  PROVE  Refines
<1>1. PICK n : n = Len(frames)
  OBVIOUS
<1>2. /\ mode = "run" /\ mode' = "run" /\ n > 0 /\ frames[n].phase = "returned"
      /\ frames' = SubSeq(frames, 1, n - 1)
  BY <1>1 DEF EndReturned, Running, Top, Here, Upto
<1>3. /\ n \in Nat \ {0} /\ n \in 1..n /\ Going = 0 /\ Len(Stack) = n
      /\ Stack[n] = View(frames, n) /\ ShapeOK(frames[n])
  BY <1>1, <1>2, RunFacts
<1>4. Stack[n].phase = "cleanup" /\ Stack[n].then = 0
  BY <1>2, <1>3, ViewEntered DEF ShapeOK
<1>5. Shape(frames') /\ StandInv' /\ Stack' = SubSeq(Stack, 1, n - 1) /\ Going' = 0
  BY <1>1, <1>2, Dropped DEF Going
<1>6. Extent!Become(SubSeq(Stack, 1, n - 1), 0)
  BY <1>5, Becomes
<1>7. Extent!EndCleanup
  BY <1>3, <1>4, <1>6 DEF Extent!EndCleanup, Extent!Top, Extent!Upto
<1>8. QED
  BY <1>5, <1>7 DEF Refines, Extent!Next

\* A walk begins: the frames are seen as they were.
LEMMA WalkBegins ==
  ASSUME ExtentInv, mode = "run", mode' = "walk", iter' = dynEnvStack, UNCHANGED <<frames, dynEnvStack>>,
         UnwindIInv'
  PROVE  Shape(frames') /\ StandInv' /\ Stack' = Stack /\ Going' = unwindDest'
<1>1. PICK n : n = Len(frames)
  OBVIOUS
<1>2. n \in Nat /\ Mirror(frames, dynEnvStack, n) /\ Standing = n
  BY <1>1, RunFacts DEF ExtentInv, UnwindIInv, EnvInv
<1>3. dynEnvStack # <<>>
  BY DEF UnwindIInv, WalkInv
<1>4. \A j \in 1..n : frames[j].phase = "body" => j <= Last(dynEnvStack)
  BY <1>2, <1>3, MirrorLast
<1>5. Last(dynEnvStack) \in 1..n
  BY <1>2, <1>3, MirrorLast
<1>6. Standing' = n
  BY <1>1 DEF Standing, Top
<1>7. StandInv'
  BY <1>2, <1>4, <1>5, <1>6 DEF StandInv
<1>8. Stack' = Stack
  BY <1>2, <1>6 DEF Stack, View, Destination
<1>9. QED
  BY <1>7, <1>8 DEF Going, ExtentInv

\* or the walk goes on,
LEMMA EndJumpedRefines ==
  ASSUME ExtentInv, EndJumped, UnwindIInv'
  PROVE  Refines
<1>1. PICK n, d : n = Len(frames) /\ d = frames[n].then.to
  OBVIOUS
<1>2. /\ mode = "run" /\ mode' = "walk" /\ n > 0 /\ frames[n].phase = "jumped"
      /\ iter' = dynEnvStack /\ UNCHANGED <<frames, dynEnvStack>> /\ unwindDest' = d
  BY <1>1 DEF EndJumped, Running, Top, Here
<1>3. /\ n \in Nat \ {0} /\ n \in 1..n /\ Going = 0 /\ Len(Stack) = n
      /\ Stack[n] = View(frames, n) /\ ShapeOK(frames[n]) /\ FrameInv(frames, n)
  BY <1>1, <1>2, RunFacts DEF ExtentInv, UnwindIInv, FramesInv
<1>4. d # 0
  BY <1>1, <1>2, <1>3 DEF FrameInv, Goal
<1>5. Stack[n].phase = "cleanup" /\ Stack[n].then = d
  <2>1. IsDest(frames, frames[n].then, n, d)
    BY <1>1, <1>2, <1>3 DEF ShapeOK, IsDest
  <2>2. Destination(frames, frames[n].then, n) = d
    BY <1>3, <2>1, DestUnique
  <2>3. QED
    BY <1>2, <1>3, <2>2 DEF View
<1>6. Shape(frames') /\ StandInv' /\ Stack' = Stack /\ Going' = d
  BY <1>2, WalkBegins
<1>7. Extent!Become(Stack, d)
  BY <1>6, Becomes
<1>8. Extent!EndCleanup
  BY <1>3, <1>4, <1>5, <1>7 DEF Extent!EndCleanup, Extent!Top
<1>9. QED
  BY <1>6, <1>8 DEF Refines, Extent!Next

\* or the exception does.
LEMMA EndCaughtRefines ==
  ASSUME ExtentInv, EndCaught, UnwindIInv'
  PROVE  Refines
<1>1. PICK n, x, gs : n = Len(frames) /\ x = frames[n].then /\ gs = frames'
  OBVIOUS
<1>2. /\ mode = "run" /\ mode' = "throw" /\ n > 0 /\ frames[n].phase = "caught"
      /\ frames' = SubSeq(frames, 1, n - 1) /\ thrown' = Last(caught)
  BY <1>1 DEF EndCaught, Running, Top, Here, Upto
<1>3. /\ n \in Nat \ {0} /\ n \in 1..n /\ Going = 0 /\ Len(Stack) = n /\ n - 1 \in Nat /\ (n - 1) + 1 = n
      /\ Stack[n] = View(frames, n) /\ FramesInv(frames) /\ Shape(frames) /\ CatchInv(frames, caught)
      /\ frames \in Seq(Frame) /\ frames # <<>>
  BY <1>1, <1>2, RunFacts, EmptySeq DEF ExtentInv, UnwindIInv, FramesInv
<1>4. thrown' = x
  BY <1>1, <1>2, <1>3, CatchLeft DEF Shape
<1>5. PICK d \in Places \cup {0} : IsDest(frames, x, n, d)
  BY <1>1, <1>3, ThenSettles
<1>6. Stack[n].phase = "cleanup" /\ Stack[n].then = d
  <2>1. Destination(frames, x, n) = d
    BY <1>3, <1>5, DestUnique
  <2>2. QED
    BY <1>1, <1>2, <1>3, <2>1 DEF View
<1>7. /\ Shape(frames') /\ StandInv' /\ Stack' = SubSeq(Stack, 1, n - 1)
      /\ Agree(frames, gs, n - 1) /\ Len(gs) = n - 1
  BY <1>1, <1>2, Dropped
<1>8. Going' = d
  <2>1. IsDest(gs, x, n, d)
    BY <1>3, <1>5, <1>7, DestLocal
  <2>2. Destination(gs, x, n) = d
    BY <1>3, <2>1, DestUnique
  <2>3. QED
    BY <1>1, <1>2, <1>3, <1>4, <1>7, <2>2 DEF Going, Top
<1>9. Extent!Become(SubSeq(Stack, 1, n - 1), d)
  BY <1>7, <1>8, Becomes
<1>10. Extent!EndCleanup
  BY <1>3, <1>6, <1>9 DEF Extent!EndCleanup, Extent!Top, Extent!Upto
<1>11. QED
  BY <1>7, <1>10 DEF Refines, Extent!Next

-----------------------------------------------------------------------------
\* An exit begins, by a walk or by an exception.
LEMMA ExitRefines ==
  ASSUME ExtentInv, Running, NEW d, InExtent(d), Kind(d) \in {"block", "tagbody", "catch"},
         NEW x, IsDest(frames, x, Top + 1, d), Proceed(d) \/ ThrowException(d, x), UnwindIInv'
  PROVE  Refines
<1>1. PICK n : n = Len(frames)
  OBVIOUS
<1>2. mode = "run" /\ UNCHANGED <<frames, dynEnvStack>>
  BY DEF Running, Proceed, ThrowException
<1>3. /\ n \in Nat /\ Going = 0 /\ Len(Stack) = n /\ Standing = n
      /\ \A i \in 1..n : Stack[i] = View(frames, i)
  BY <1>1, <1>2, RunFacts
<1>4. d \in 1..n
  BY <1>1, <1>2 DEF InExtent, ExtentInv, UnwindIInv, EnvInv, Mirror
<1>5. Stack[d].kind \in {"block", "tagbody", "catch"}
  BY <1>3, <1>4 DEF Kind, View
<1>6. Shape(frames') /\ StandInv' /\ Stack' = Stack /\ Going' = d
  <2>1. CASE Proceed(d)
    BY <1>2, <2>1, WalkBegins DEF Proceed
  <2>2. CASE ThrowException(d, x)
    <3>1. mode' = "throw" /\ thrown' = x
      BY <2>2 DEF ThrowException
    <3>2. Standing' = n
      BY <1>1, <1>2, <3>1 DEF Standing, Top
    <3>3. Stack' = Stack
      BY <1>2, <1>3, <3>2 DEF Stack, View, Destination
    <3>4. Destination(frames, x, n + 1) = d
      BY <1>1, <1>3, DestUnique DEF Top
    <3>5. Going' = d
      BY <1>1, <1>2, <3>1, <3>4 DEF Going, Top
    <3>6. QED
      BY <1>2, <3>1, <3>3, <3>5 DEF StandInv, ExtentInv
  <2>3. QED
    BY <2>1, <2>2
<1>7. Extent!Become(Stack, d)
  BY <1>6, Becomes
<1>8. Extent!Exit(d)
  BY <1>3, <1>4, <1>5, <1>7 DEF Extent!Exit, Extent!Top
<1>9. QED
  BY <1>3, <1>4, <1>6, <1>8 DEF Refines, Extent!Next, Extent!Top

\* return-from and go,
LEMMA UnwindToRefines ==
  ASSUME ExtentInv, NEW d, UnwindTo(d), UnwindIInv'
  PROVE  Refines
<1>1. /\ Running /\ InExtent(d) /\ Kind(d) \in {"block", "tagbody"}
      /\ Proceed(d) \/ ThrowException(d, ToFrame(d))
  BY DEF UnwindTo
<1>2. IsDest(frames, ToFrame(d), Top + 1, d)
  BY DEF IsDest, ToFrame
<1>3. QED
  BY <1>1, <1>2, ExitRefines

\* and throw, to the innermost catch with the tag.
LEMMA ThrowRefines ==
  ASSUME ExtentInv, NEW t \in Tags, Throw(t), UnwindIInv'
  PROVE  Refines
<1>1. PICK n : n = Len(frames)
  OBVIOUS
<1>2. PICK d \in CatchOf(t) : Running /\ (Proceed(d) \/ ThrowException(d, ToTag(t)))
  BY DEF Throw
<1>3. PICK j \in 1..Len(dynEnvStack) :
        /\ d = dynEnvStack[j] /\ Kind(d) = "catch" /\ frames[d].tag = t
        /\ \A k \in (j + 1)..Len(dynEnvStack) : frames[dynEnvStack[k]].tag # t
  BY <1>2 DEF CatchOf
<1>4. Mirror(frames, dynEnvStack, n) /\ n \in Nat /\ FramesInv(frames) /\ Shape(frames)
  BY <1>1, <1>2 DEF Running, ExtentInv, UnwindIInv, EnvInv, FramesInv
<1>5. d \in 1..n /\ InExtent(d) /\ Len(dynEnvStack) \in Nat
  BY <1>3, <1>4 DEF Mirror, InExtent
<1>6. ASSUME NEW k \in (d + 1)..n PROVE frames[k].tag # t
  <2>1. /\ k \in 1..Len(frames) /\ k \in 1..n /\ k > d
        /\ frames[k] \in Frame /\ FrameInv(frames, k) /\ ShapeOK(frames[k])
    BY <1>1, <1>4, <1>5 DEF FramesInv, Shape
  <2>2. CASE frames[k].phase = "body"
    <3>1. PICK i \in 1..Len(dynEnvStack) : dynEnvStack[i] = k
      BY <1>4, <2>1, <2>2 DEF Mirror
    <3>2. i # j /\ ~(i < j)
      BY <1>3, <1>4, <2>1, <3>1 DEF Mirror
    <3>3. i \in (j + 1)..Len(dynEnvStack)
      BY <1>5, <3>2
    <3>4. QED
      BY <1>3, <3>1, <3>3
  <2>3. CASE frames[k].phase # "body"
    <3>1. frames[k].tag = NoTag
      BY <2>1, <2>3 DEF FrameInv, ShapeOK
    <3>2. QED
      BY <3>1, TagAssumption
  <2>4. QED
    BY <2>2, <2>3
<1>7. IsDest(frames, ToTag(t), Top + 1, d)
  <2>1. (n + 1) - 1 = n
    BY <1>4
  <2>2. QED
    BY <1>1, <1>3, <1>5, <1>6, <2>1 DEF IsDest, ToTag, Top, Kind
<1>8. QED
  BY <1>2, <1>3, <1>5, <1>7, ExitRefines

-----------------------------------------------------------------------------
\* What is known while the unwinder walks: no frame above the present one has a
\* cleanup to run.
LEMMA WalkFacts ==
  ASSUME ExtentInv, mode = "walk", NEW m, m = Last(iter)
  PROVE  /\ m \in 1..Standing /\ m \in Nat /\ Standing \in 0..Len(frames) /\ Standing \in Nat
         /\ Going = unwindDest /\ Len(Stack) = Standing /\ Stack \in Seq(ViewFrame)
         /\ \A i \in 1..Standing : Stack[i] = View(frames, i)
         /\ iter # <<>> /\ Mirror(frames, iter, m) /\ Goal(frames, unwindDest, m)
         /\ frames[m].phase = "body" /\ frames[m] \in Frame /\ ShapeOK(frames[m])
         /\ \A i \in 1..Standing : i > m => ~Extent!Guarded(Stack[i])
<1>1. /\ iter # <<>> /\ m \in 1..Len(frames) /\ Mirror(frames, iter, m) /\ Goal(frames, unwindDest, m)
      /\ FramesInv(frames) /\ Shape(frames) /\ Len(frames) \in Nat
  BY DEF ExtentInv, UnwindIInv, WalkInv, FramesInv
<1>2. m \in 1..Standing /\ m \in Nat /\ Standing \in 0..Len(frames) /\ Standing \in Nat
  BY <1>1 DEF Standing, Top
<1>3. /\ Len(Stack) = Standing /\ Stack \in Seq(ViewFrame)
      /\ \A i \in 1..Standing : Stack[i] = View(frames, i)
  BY StackIs
<1>4. frames[m].phase = "body"
  BY <1>1, <1>2, MirrorLast
<1>5. ASSUME NEW i \in 1..Standing, i > m PROVE ~Extent!Guarded(Stack[i])
  <2>1. i \in (m + 1)..Standing
    BY <1>2, <1>5
  <2>2. frames[i].phase # "body"
    BY <2>1 DEF ExtentInv, StandInv
  <2>3. Stack[i].phase # "body"
    BY <1>3, <2>2 DEF View
  <2>4. QED
    BY <2>3 DEF Extent!Guarded
<1>6. QED
  BY <1>1, <1>2, <1>3, <1>4, <1>5 DEF Going, FramesInv, Shape

\* The walk passes an environment,
LEMMA WalkOnRefines ==
  ASSUME ExtentInv, WalkOn, UnwindIInv'
  PROVE  Refines
<1>1. PICK m, s, k, d : m = Last(iter) /\ s = Front(iter) /\ k = Last(s) /\ d = unwindDest
  OBVIOUS
<1>2. /\ mode = "walk" /\ mode' = "walk" /\ frames[m].kind # "protect"
      /\ dynEnvStack' = iter /\ iter' = s /\ UNCHANGED <<frames, unwindDest>>
  BY <1>1 DEF WalkOn, AtDest, Kind
<1>3. /\ m \in 1..Standing /\ m \in Nat /\ Standing \in 0..Len(frames) /\ Standing \in Nat
      /\ Going = d /\ Len(Stack) = Standing
      /\ \A i \in 1..Standing : Stack[i] = View(frames, i)
      /\ iter # <<>> /\ Mirror(frames, iter, m) /\ Goal(frames, d, m)
      /\ \A i \in 1..Standing : i > m => ~Extent!Guarded(Stack[i])
  BY <1>1, <1>2, WalkFacts
<1>4. s # <<>> /\ Goal(frames, d, k)
  BY <1>1, <1>2 DEF UnwindIInv, WalkInv
<1>5. m - 1 \in Nat /\ Mirror(frames, s, m - 1)
  BY <1>1, <1>3, MirrorFront
<1>6. k \in 1..(m - 1) /\ \A j \in 1..(m - 1) : frames[j].phase = "body" => j <= k
  BY <1>1, <1>4, <1>5, MirrorLast
<1>7. s # iter
  <2>1. iter \in Seq(1..m)
    BY <1>3 DEF Mirror
  <2>2. Len(s) = Len(iter) - 1 /\ Len(iter) \in Nat
    BY <1>1, <1>3, <2>1, FrontOf
  <2>3. QED
    BY <2>2
<1>8. Standing' = k
  BY <1>1, <1>2, <1>7 DEF Standing
<1>9. StandInv'
  BY <1>1, <1>2, <1>6, <1>8 DEF StandInv
<1>10. Stack' = SubSeq(Stack, 1, k)
  <2>1. FramesInv(frames) /\ Shape(frames) /\ Stack = Views(frames, Standing)
    BY StackIs
  <2>2. k \in 0..Standing /\ Agree(frames, frames, k)
    BY <1>3, <1>6 DEF Agree
  <2>3. Views(frames, k) = SubSeq(Stack, 1, k)
    BY <1>3, <2>1, <2>2, ViewsCut
  <2>4. Stack' = Views(frames, k)
    BY <1>2, <1>8 DEF Stack, Views, View, Destination
  <2>5. QED
    BY <2>3, <2>4
<1>11. Shape(frames') /\ Going' = d
  BY <1>1, <1>2 DEF ExtentInv, Going
<1>12. Extent!Become(SubSeq(Stack, 1, k), d)
  BY <1>9, <1>10, <1>11, Becomes
<1>13. ASSUME NEW i \in (k + 1)..Standing PROVE ~Extent!Guarded(Stack[i])
  <2>1. i \in 1..Standing /\ i > k /\ Stack[i] = View(frames, i)
    BY <1>3, <1>6
  <2>2. CASE i > m
    BY <1>3, <2>1, <2>2
  <2>3. CASE i = m
    BY <1>2, <2>1, <2>3 DEF Extent!Guarded, View
  <2>4. CASE i < m
    <3>1. i \in 1..(m - 1) /\ ~(i <= k)
      BY <1>3, <1>6, <2>1, <2>4
    <3>2. frames[i].phase # "body"
      BY <1>6, <3>1
    <3>3. QED
      BY <2>1, <3>2 DEF Extent!Guarded, View
  <2>5. QED
    BY <1>3, <2>1, <2>2, <2>3, <2>4
<1>14. d > 0 /\ d <= k
  BY <1>4, <1>6 DEF Goal
<1>15. Extent!Leave(k)
  BY <1>3, <1>12, <1>13, <1>14 DEF Extent!Leave, Extent!MayLeave, Extent!Top, Extent!Upto
<1>16. k \in 1..Extent!Top
  BY <1>3, <1>6 DEF Extent!Top
<1>17. QED
  BY <1>9, <1>11, <1>15, <1>16 DEF Refines, Extent!Next

\* jumps to its destination,
LEMMA JumpRefines ==
  ASSUME ExtentInv, Jump, UnwindIInv'
  PROVE  Refines
<1>1. PICK d, k : d = unwindDest /\ k = IF frames[d].kind = "tagbody" THEN d ELSE d - 1
  OBVIOUS
<1>2. /\ mode = "walk" /\ mode' = "run" /\ Last(iter) = d /\ frames' = SubSeq(frames, 1, k)
  BY <1>1 DEF Jump, AtDest, Kind, Upto
<1>3. /\ d \in 1..Standing /\ d \in Nat /\ Standing \in 0..Len(frames) /\ Standing \in Nat
      /\ Going = d /\ Len(Stack) = Standing
      /\ \A i \in 1..Standing : Stack[i] = View(frames, i)
      /\ \A i \in 1..Standing : i > d => ~Extent!Guarded(Stack[i])
  BY <1>1, <1>2, WalkFacts
<1>4. k \in 0..Standing /\ k \in Nat
  BY <1>1, <1>3
<1>5. Standing' = k
  <2>1. PICK gs : gs = frames'
    OBVIOUS
  <2>2. Cut(frames, k, gs) /\ FramesInv(frames)
    BY <1>2, <1>3, <1>4, <2>1 DEF Cut, ExtentInv, UnwindIInv
  <2>3. Len(gs) = k
    BY <2>2, CutFrames
  <2>4. QED
    BY <1>2, <2>1, <2>3 DEF Standing, Top
<1>6. Shape(frames') /\ Stack' = SubSeq(Stack, 1, k)
  BY <1>2, <1>4, <1>5, CutTo
<1>7. StandInv' /\ Going' = 0
  BY <1>2 DEF StandInv, Going
<1>8. Extent!Become(SubSeq(Stack, 1, k), 0)
  BY <1>6, <1>7, Becomes
<1>9. Stack[d].kind = frames[d].kind
  BY <1>3 DEF View
<1>10. \A i \in (d + 1)..Standing : ~Extent!Guarded(Stack[i])
  <2>1. \A i \in (d + 1)..Standing : i \in 1..Standing /\ i > d
    BY <1>3
  <2>2. QED
    BY <1>3, <2>1
<1>11. Extent!Arrive
  BY <1>1, <1>3, <1>8, <1>9, <1>10 DEF Extent!Arrive, Extent!MayLeave, Extent!Top, Extent!Upto
<1>12. QED
  BY <1>6, <1>7, <1>11 DEF Refines, Extent!Next

\* or to a cleanup.
LEMMA JumpToCleanupRefines ==
  ASSUME ExtentInv, JumpToCleanup, UnwindIInv'
  PROVE  Refines
<1>1. PICK d, m, f : /\ d = unwindDest /\ m = Last(iter)
                     /\ f = Cleaning(frames[m], "jumped", ToFrame(d))
  OBVIOUS
<1>2. /\ mode = "walk" /\ mode' = "run" /\ m # d /\ frames[m].kind = "protect"
      /\ frames' = Append(SubSeq(frames, 1, m - 1), f)
  BY <1>1 DEF JumpToCleanup, AtDest, Kind, Upto
<1>3. /\ m \in 1..Standing /\ m \in Nat /\ Standing \in 0..Len(frames) /\ Standing \in Nat
      /\ Going = d /\ Len(Stack) = Standing
      /\ \A i \in 1..Standing : Stack[i] = View(frames, i)
      /\ Goal(frames, d, m) /\ frames[m].phase = "body" /\ frames[m] \in Frame /\ ShapeOK(frames[m])
      /\ \A i \in 1..Standing : i > m => ~Extent!Guarded(Stack[i])
  BY <1>1, <1>2, WalkFacts
<1>4. /\ m - 1 \in 0..Standing /\ (m - 1) + 1 = m /\ d \in 1..m /\ d < m /\ d > 0 /\ d \in Places \cup {0}
  <2>1. Len(frames) <= MaxFrames /\ Len(frames) \in Nat
    BY DEF ExtentInv, UnwindIInv, FramesInv
  <2>2. QED
    BY <1>2, <1>3, <2>1, UnwindAssumption DEF Goal, Places
<1>5. f \in Frame /\ f.phase = "jumped" /\ f.kind = "protect" /\ f.then = ToFrame(d)
  <2>1. ToFrame(d) \in Exits
    BY <1>4 DEF ToFrame, Exits
  <2>2. QED
    BY <1>1, <1>2, <1>3, <2>1, CleaningTyped
<1>6. ShapeOK(f)
  BY <1>1, <1>2, <1>3, <1>5 DEF ShapeOK, Cleaning, Frame, ToFrame
<1>7. IsDest(frames, f.then, (m - 1) + 1, d)
  BY <1>5 DEF IsDest, ToFrame
<1>8. /\ Shape(frames') /\ StandInv' /\ Going' = 0
      /\ Stack' = Append(SubSeq(Stack, 1, m - 1), Extent!InCleanup(d))
  BY <1>2, <1>4, <1>5, <1>6, <1>7, CleanupOn
<1>9. Extent!Become(Append(SubSeq(Stack, 1, m - 1), Extent!InCleanup(d)), 0)
  BY <1>8, Becomes
<1>10. Extent!Guarded(Stack[m])
  BY <1>2, <1>3 DEF Extent!Guarded, View
<1>11. \A i \in (m + 1)..Standing : ~Extent!Guarded(Stack[i])
  <2>1. \A i \in (m + 1)..Standing : i \in 1..Standing /\ i > m
    BY <1>3
  <2>2. QED
    BY <1>3, <2>1
<1>12. Extent!Cleanup(m)
  BY <1>3, <1>4, <1>9, <1>10, <1>11 DEF Extent!Cleanup, Extent!MayLeave, Extent!Top, Extent!Upto
<1>13. m \in 1..Extent!Top
  BY <1>3 DEF Extent!Top
<1>14. QED
  BY <1>8, <1>12, <1>13 DEF Refines, Extent!Next

-----------------------------------------------------------------------------
\* What is known when an exception is in flight.
LEMMA ThrowFacts ==
  ASSUME ExtentInv, mode = "throw", NEW n, n = Len(frames)
  PROVE  /\ n \in Nat \ {0} /\ n \in 1..n /\ n - 1 \in Nat /\ (n - 1) + 1 = n /\ Standing = n
         /\ Len(Stack) = n /\ Stack \in Seq(ViewFrame)
         /\ \A i \in 1..n : Stack[i] = View(frames, i)
         /\ frames[n] \in Frame /\ ShapeOK(frames[n]) /\ FrameInv(frames, n) /\ thrown \in Exits
         /\ n <= MaxFrames /\ MaxFrames \in Nat
         /\ Going \in 1..n /\ IsDest(frames, thrown, n + 1, Going) /\ Goal(frames, Going, n)
         /\ Receives(frames, Going, thrown)
<1>1. FramesInv(frames) /\ Shape(frames) /\ Reaches(frames, thrown, n) /\ n \in Nat
  BY DEF ExtentInv, UnwindIInv, ThrowInv, FramesInv
<1>2. PICK d \in 1..n : IsDest(frames, thrown, n + 1, d) /\ Goal(frames, d, n) /\ Receives(frames, d, thrown)
  BY <1>1, Arrives
<1>3. Going = d
  <2>1. Destination(frames, thrown, n + 1) = d
    BY <1>1, <1>2, DestUnique
  <2>2. QED
    BY <2>1 DEF Going, Top
<1>4. n \in Nat \ {0} /\ n \in 1..n /\ n - 1 \in Nat /\ (n - 1) + 1 = n
  BY <1>1, <1>2
<1>5. /\ Standing = n /\ Len(Stack) = n /\ Stack \in Seq(ViewFrame)
      /\ \A i \in 1..n : Stack[i] = View(frames, i)
  BY StackIs
<1>6. /\ frames[n] \in Frame /\ ShapeOK(frames[n]) /\ FrameInv(frames, n) /\ n <= MaxFrames
      /\ MaxFrames \in Nat /\ thrown \in Exits
  BY <1>1, <1>4, UnwindAssumption DEF FramesInv, Shape, Reaches
<1>7. QED
  BY <1>2, <1>3, <1>4, <1>5, <1>6

\* The frame that the exception is for catches it,
LEMMA CatchRefines ==
  ASSUME ExtentInv, Catch, UnwindIInv'
  PROVE  Refines
<1>1. PICK n, k : n = Len(frames) /\ k = IF frames[n].kind = "tagbody" THEN n ELSE n - 1
  OBVIOUS
<1>2. mode = "throw" /\ mode' = "run" /\ Catches(frames[n])
  BY <1>1 DEF Catch, Here, Top
<1>3. /\ n \in Nat \ {0} /\ n \in 1..n /\ n - 1 \in Nat /\ (n - 1) + 1 = n /\ Standing = n
      /\ Len(Stack) = n /\ Stack \in Seq(ViewFrame)
      /\ \A i \in 1..n : Stack[i] = View(frames, i)
      /\ IsDest(frames, thrown, n + 1, Going)
  BY <1>1, <1>2, ThrowFacts
<1>4. Going = n
  <2>1. (n + 1) - 1 = n
    BY <1>3
  <2>2. IsDest(frames, thrown, n + 1, n)
    BY <1>1, <1>2, <1>3, <2>1 DEF Catches, IsDest, Top
  <2>3. Destination(frames, thrown, n + 1) = n
    BY <1>3, <2>2, DestUnique
  <2>4. Destination(frames, thrown, n + 1) = Going
    BY <1>3, DestUnique
  <2>5. QED
    BY <2>3, <2>4
<1>5. frames' = SubSeq(frames, 1, k)
  <2>1. CASE frames[n].kind = "tagbody"
    <3>1. frames' = frames /\ frames \in Seq(Frame) /\ k = n
      BY <1>1, <2>1 DEF Catch, Here, Top, ExtentInv, UnwindIInv, FramesInv
    <3>2. QED
      BY <1>1, <3>1, SubSeqFull
  <2>2. CASE frames[n].kind # "tagbody"
    BY <1>1, <2>2 DEF Catch, Here, Top, Upto
  <2>3. QED
    BY <2>1, <2>2
<1>6. k \in 0..Standing /\ k \in Nat
  BY <1>1, <1>3
<1>7. Standing' = k
  <2>1. PICK gs : gs = frames'
    OBVIOUS
  <2>2. Cut(frames, k, gs) /\ FramesInv(frames)
    BY <1>1, <1>3, <1>5, <1>6, <2>1 DEF Cut, ExtentInv, UnwindIInv
  <2>3. Len(gs) = k
    BY <2>2, CutFrames
  <2>4. QED
    BY <1>2, <2>1, <2>3 DEF Standing, Top
<1>8. Shape(frames') /\ Stack' = SubSeq(Stack, 1, k)
  BY <1>5, <1>6, <1>7, CutTo
<1>9. StandInv' /\ Going' = 0
  BY <1>2 DEF StandInv, Going
<1>10. Extent!Become(SubSeq(Stack, 1, k), 0)
  BY <1>8, <1>9, Becomes
<1>11. Stack[n].kind = frames[n].kind
  BY <1>3 DEF View
<1>12. \A i \in (n + 1)..n : ~Extent!Guarded(Stack[i])
  BY <1>3
<1>13. Extent!Arrive
  BY <1>1, <1>3, <1>4, <1>10, <1>11, <1>12 DEF Extent!Arrive, Extent!MayLeave, Extent!Top, Extent!Upto
<1>14. QED
  BY <1>8, <1>9, <1>13 DEF Refines, Extent!Next

\* an unwind-protect catches any,
LEMMA CatchAllRefines ==
  ASSUME ExtentInv, CatchAll, UnwindIInv'
  PROVE  Refines
<1>1. PICK n, d, f : n = Len(frames) /\ d = Going /\ f = Cleaning(frames[n], "caught", thrown)
  OBVIOUS
<1>2. /\ mode = "throw" /\ mode' = "run" /\ frames[n].kind = "protect" /\ frames[n].phase = "body"
      /\ frames' = Append(SubSeq(frames, 1, n - 1), f)
  BY <1>1 DEF CatchAll, Here, Top, Upto
<1>3. /\ n \in Nat \ {0} /\ n \in 1..n /\ n - 1 \in Nat /\ (n - 1) + 1 = n /\ Standing = n
      /\ Len(Stack) = n
      /\ \A i \in 1..n : Stack[i] = View(frames, i)
      /\ frames[n] \in Frame /\ ShapeOK(frames[n]) /\ thrown \in Exits
      /\ n <= MaxFrames /\ MaxFrames \in Nat
      /\ d \in 1..n /\ IsDest(frames, thrown, n + 1, d) /\ Goal(frames, d, n)
  BY <1>1, <1>2, ThrowFacts
<1>4. d \in 1..(n - 1) /\ d < n /\ d > 0 /\ d \in Places \cup {0} /\ n - 1 \in 0..Standing
  <2>1. d # n
    BY <1>2, <1>3 DEF Goal
  <2>2. QED
    BY <1>3, <2>1 DEF Places
<1>5. f \in Frame /\ f.phase = "caught" /\ f.kind = "protect" /\ f.then = thrown
  BY <1>1, <1>2, <1>3, CleaningTyped
<1>6. ShapeOK(f)
  BY <1>1, <1>2, <1>3, <1>5 DEF ShapeOK, Cleaning, Frame
<1>7. IsDest(frames, f.then, (n - 1) + 1, d)
  <2>1. (n + 1) - 1 = n /\ (d + 1)..(n - 1) \subseteq (d + 1)..n
    BY <1>3, <1>4
  <2>2. QED
    BY <1>3, <1>4, <1>5, <2>1 DEF IsDest
<1>8. /\ Shape(frames') /\ StandInv' /\ Going' = 0
      /\ Stack' = Append(SubSeq(Stack, 1, n - 1), Extent!InCleanup(d))
  BY <1>2, <1>4, <1>5, <1>6, <1>7, CleanupOn
<1>9. Extent!Become(Append(SubSeq(Stack, 1, n - 1), Extent!InCleanup(d)), 0)
  BY <1>8, Becomes
<1>10. Extent!Guarded(Stack[n])
  BY <1>2, <1>3 DEF Extent!Guarded, View
<1>11. \A i \in (n + 1)..n : ~Extent!Guarded(Stack[i])
  BY <1>3
<1>12. Extent!Cleanup(n)
  BY <1>1, <1>3, <1>4, <1>9, <1>10, <1>11 DEF Extent!Cleanup, Extent!MayLeave, Extent!Top, Extent!Upto
<1>13. n \in 1..Extent!Top
  BY <1>3 DEF Extent!Top
<1>14. QED
  BY <1>8, <1>12, <1>13 DEF Refines, Extent!Next

\* and it leaves the others.
LEMMA PassFrameRefines ==
  ASSUME ExtentInv, PassFrame, UnwindIInv'
  PROVE  Refines
<1>1. PICK n, d, gs : n = Len(frames) /\ d = Going /\ gs = frames'
  OBVIOUS
<1>2. /\ mode = "throw" /\ mode' = "throw" /\ ~Catches(frames[n]) /\ thrown' = thrown
      /\ frames[n].phase = "body" => frames[n].kind # "protect"
      /\ frames' = SubSeq(frames, 1, n - 1)
  BY <1>1 DEF PassFrame, Here, Top, Upto
<1>3. /\ n \in Nat \ {0} /\ n \in 1..n /\ n - 1 \in Nat /\ (n - 1) + 1 = n /\ Standing = n
      /\ Len(Stack) = n
      /\ \A i \in 1..n : Stack[i] = View(frames, i)
      /\ d \in 1..n /\ IsDest(frames, thrown, n + 1, d) /\ Goal(frames, d, n) /\ Receives(frames, d, thrown)
  BY <1>1, <1>2, ThrowFacts
<1>4. d \in 1..(n - 1) /\ d > 0 /\ d <= n - 1 /\ n - 1 \in 0..Standing
  <2>1. d # n
    BY <1>1, <1>2, <1>3 DEF Goal, Receives, Catches, Top
  <2>2. QED
    BY <1>3, <2>1
<1>5. Standing' = n - 1 /\ Len(gs) = n - 1
  <2>1. Cut(frames, n - 1, gs) /\ FramesInv(frames)
    BY <1>1, <1>2, <1>3 DEF Cut, ExtentInv, UnwindIInv
  <2>2. Len(gs) = n - 1
    BY <2>1, CutFrames
  <2>3. QED
    BY <1>1, <1>2, <2>2 DEF Standing, Top
<1>6. Shape(frames') /\ Stack' = SubSeq(Stack, 1, n - 1) /\ Agree(frames, gs, n - 1)
  BY <1>1, <1>2, <1>4, <1>5, CutTo
<1>7. Going' = d
  <2>1. (n + 1) - 1 = n /\ (d + 1)..(n - 1) \subseteq (d + 1)..n
    BY <1>3, <1>4
  <2>2. IsDest(frames, thrown, (n - 1) + 1, d)
    BY <1>3, <1>4, <2>1 DEF IsDest
  <2>3. IsDest(gs, thrown, n, d)
    BY <1>3, <1>6, <2>2, DestLocal
  <2>4. Destination(gs, thrown, n) = d
    BY <1>3, <2>3, DestUnique
  <2>5. QED
    BY <1>1, <1>2, <1>3, <1>5, <2>4 DEF Going, Top
<1>8. StandInv'
  BY <1>2 DEF StandInv
<1>9. Extent!Become(SubSeq(Stack, 1, n - 1), d)
  BY <1>6, <1>7, <1>8, Becomes
<1>10. \A i \in ((n - 1) + 1)..n : ~Extent!Guarded(Stack[i])
  <2>1. ~Extent!Guarded(Stack[n])
    BY <1>2, <1>3 DEF Extent!Guarded, View
  <2>2. QED
    BY <1>3, <2>1
<1>11. Extent!Leave(n - 1)
  BY <1>1, <1>3, <1>4, <1>9, <1>10 DEF Extent!Leave, Extent!MayLeave, Extent!Top, Extent!Upto
<1>12. n - 1 \in 1..Extent!Top
  BY <1>3, <1>4 DEF Extent!Top
<1>13. QED
  BY <1>6, <1>8, <1>11, <1>12 DEF Refines, Extent!Next

-----------------------------------------------------------------------------
\* Every step of the unwinders is one that DynamicExtent allows.
LEMMA NextRefines == ExtentInv /\ UnwindIInv' /\ [Next]_vars => Refines
<1> SUFFICES ASSUME ExtentInv, UnwindIInv', [Next]_vars PROVE Refines
  OBVIOUS
<1>1. CASE UNCHANGED vars
  <2>1. Standing' = Standing
    BY <1>1 DEF vars, Standing, Top
  <2>2. Stack' = Stack
    BY <1>1, <2>1 DEF vars, Stack, View, Destination
  <2>3. Going' = Going
    BY <1>1 DEF vars, Going, Destination, Top
  <2>4. Shape(frames') /\ StandInv' /\ cell' = cell
    BY <1>1, <2>1 DEF vars, ExtentInv, StandInv
  <2>5. QED
    BY <2>2, <2>3, <2>4 DEF Refines, Extent!vars
<1>2. ASSUME NEW k \in Kinds \ {"catch"}, Enter(k, NoTag) PROVE Refines
  BY <1>2, EnterRefines, TagAssumption
<1>3. ASSUME NEW t \in Tags, Enter("catch", t) PROVE Refines
  BY <1>3, EnterRefines DEF Kinds
<1>4. ASSUME NEW t \in Tags, Throw(t) PROVE Refines
  BY <1>4, ThrowRefines
<1>5. CASE Return \/ EndReturned \/ EndJumped \/ EndCaught
  BY <1>5, ReturnRefines, EndReturnedRefines, EndJumpedRefines, EndCaughtRefines
<1>6. ASSUME NEW d \in 1..Top, UnwindTo(d) PROVE Refines
  BY <1>6, UnwindToRefines
<1>7. CASE Travel
  BY <1>7, JumpRefines, JumpToCleanupRefines, WalkOnRefines, CatchRefines, CatchAllRefines, PassFrameRefines
  DEF Travel
<1>8. QED
  BY <1>1, <1>2, <1>3, <1>4, <1>5, <1>6, <1>7 DEF Next

\* Cleanups run once and in order, bindings are undone and exits arrive as DynamicExtent
\* says, whichever unwinder carries each part of the way, in programs that do not
\* longjmp out of one catch block inside another.
THEOREM Refinement == ~Abandons => (Spec => ImplementsDynamicExtent)
<1> SUFFICES ASSUME ~Abandons PROVE Spec => ImplementsDynamicExtent
  OBVIOUS
<1>1. Init => Shape(frames) /\ StandInv /\ Extent!Init
  <2> SUFFICES ASSUME Init PROVE Shape(frames) /\ StandInv /\ Extent!Init
    OBVIOUS
  <2>1. Len(frames) = 0
    BY EmptySeq DEF Init
  <2>2. Shape(frames) /\ StandInv /\ Standing = 0 /\ Going = 0 /\ cell = 0
    BY <2>1 DEF Init, Shape, StandInv, Standing, Top, Going
  <2>3. Stack = <<>>
    BY <2>2 DEF Stack
  <2>4. QED
    BY <2>2, <2>3 DEF Extent!Init
<1>2. UnwindIInv /\ UnwindIInv' /\ Shape(frames) /\ StandInv /\ [Next]_vars
        => Shape(frames)' /\ StandInv' /\ [Extent!Next]_(Extent!vars)
  BY NextRefines DEF ExtentInv, Refines, Shape
<1>3. QED
  BY <1>1, <1>2, Invariance, PTL DEF Spec, ImplementsDynamicExtent, Extent!Spec
=============================================================================
