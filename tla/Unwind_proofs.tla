---------------------------- MODULE Unwind_proofs ----------------------------
(***************************************************************************)
(* Theorems about Unwind, for any depth of the stack and any tags: the     *)
(* stack of dynamic environments is that of the frames.                    *)
(***************************************************************************)
EXTENDS Unwind, SequenceTheorems, TLAPS

\* The parts of the invariant are about a stack fs, up to the place n.
Frame == [kind : Kinds, tag : Tags \cup {NoTag}, phase : {"body", "returned", "jumped", "caught"},
          then : Exits, outer : Envs, old : Places \cup {0}]

\* The environments s are those of the frames in their bodies.
Mirror(fs, s, n) ==
  /\ s \in Seq(1..n)
  /\ \A i \in 1..Len(s) : s[i] >= i
  /\ \A i, j \in 1..Len(s) : i < j => s[i] < s[j]
  /\ \A j \in 1..n : (\E i \in 1..Len(s) : s[i] = j) <=> fs[j].phase = "body"

\* c is the place of the innermost binding.
IsCell(fs, c, n) == /\ c \in 0..n
                    /\ c # 0 => fs[c].kind = "bind"
                    /\ \A j \in 1..n : fs[j].kind = "bind" => j <= c

\* An exit may go to d.
Goal(fs, d, n) == /\ d \in 1..n /\ fs[d].phase = "body"
                  /\ fs[d].kind \in {"block", "tagbody", "catch"}

\* The frame at d is the one that catches x.
Receives(fs, d, x) ==
  \/ x.op = "unwind" /\ fs[d].kind \in {"block", "tagbody"} /\ x.to = d
  \/ x.op = "throw" /\ fs[d].kind = "catch" /\ x.tag = fs[d].tag

Received(fs, x, n) == \E d \in 1..n : fs[d].phase = "body" /\ Receives(fs, d, x)

\* What is thrown is an exit, and arrives unless catch blocks are abandoned.
Reaches(fs, x, n) == x \in Exits \ {Nowhere} /\ (~Abandons => Received(fs, x, n))

\* An exit to d leaves a catch block only if there is no other.
Keeps(fs, d, n) ==
  ~Abandons => \A i, j \in 1..n : fs[i].phase = "caught" /\ fs[j].phase = "caught" /\ i < j => j <= d

FrameInv(fs, i) ==
  /\ fs[i].phase # "body" => fs[i].kind = "protect"
  /\ fs[i].phase = "body" => Mirror(fs, fs[i].outer, i - 1)
  /\ fs[i].kind = "bind" => IsCell(fs, fs[i].old, i - 1)
  /\ fs[i].phase = "jumped" => Goal(fs, fs[i].then.to, i - 1) /\ Keeps(fs, fs[i].then.to, i - 1)
  /\ fs[i].phase = "caught" => Reaches(fs, fs[i].then, i - 1)

FramesInv(fs) == /\ fs \in Seq(Frame) /\ Len(fs) <= MaxFrames
                 /\ \A i \in 1..Len(fs) : FrameInv(fs, i)

\* The exception of the catch block at j is cs[r[j]]: each has one of its own, and
\* there are others only where catch blocks were abandoned.
Caught(fs) == {j \in 1..Len(fs) : fs[j].phase = "caught"}

CatchesAre(fs, r, cs) ==
  /\ cs \in Seq(Exits \ {Nowhere})
  /\ \A j \in Caught(fs) : r[j] \in 1..Len(cs)
  /\ \A i, j \in Caught(fs) : i < j => r[i] < r[j]
  /\ ~Abandons => /\ \A j \in Caught(fs) : fs[j].then = cs[r[j]]
                  /\ \A i \in 1..Len(cs) : \E j \in Caught(fs) : r[j] = i

CatchInv(fs, cs) == \E r : CatchesAre(fs, r, cs)

-----------------------------------------------------------------------------
\* Two stacks with the same frames up to n.
Agree(fs, gs, n) == n \in Nat /\ \A i \in 1..n : fs[i] = gs[i]

\* What is said of the places up to n depends on the frames up to n.
LEMMA Local ==
  ASSUME NEW fs, NEW gs, NEW n, Agree(fs, gs, n), NEW m \in 0..n
  PROVE  /\ \A s : Mirror(fs, s, m) => Mirror(gs, s, m)
         /\ \A c : IsCell(fs, c, m) => IsCell(gs, c, m)
         /\ \A d : Goal(fs, d, m) => Goal(gs, d, m)
         /\ \A x : Reaches(fs, x, m) => Reaches(gs, x, m)
         /\ \A d : Keeps(fs, d, m) => Keeps(gs, d, m)
<1>1. \A i \in 1..m : fs[i] = gs[i]
  BY DEF Agree
<1>2. \A s : Mirror(fs, s, m) => Mirror(gs, s, m)
  BY <1>1 DEF Mirror
<1>3. \A c : IsCell(fs, c, m) => IsCell(gs, c, m)
  BY <1>1 DEF IsCell
<1>4. \A d : Goal(fs, d, m) => Goal(gs, d, m)
  BY <1>1 DEF Goal
<1>5. \A x : Reaches(fs, x, m) => Reaches(gs, x, m)
  BY <1>1 DEF Reaches, Received, Receives
<1>6. \A d : Keeps(fs, d, m) => Keeps(gs, d, m)
  BY <1>1 DEF Keeps
<1>7. QED
  BY <1>2, <1>3, <1>4, <1>5, <1>6

\* So does what is said of the frame at n.
LEMMA FrameLocal ==
  ASSUME NEW fs, NEW gs, NEW n, Agree(fs, gs, n), NEW i \in 1..n, FrameInv(fs, i)
  PROVE  FrameInv(gs, i)
<1>1. fs[i] = gs[i] /\ i - 1 \in 0..n
  BY DEF Agree
<1>2. QED
  BY <1>1, Local DEF FrameInv

\* The stack gs has the frames of fs up to k, or has f on top of them.
Cut(fs, k, gs) == k \in 0..Len(fs) /\ gs = SubSeq(fs, 1, k)
Put(fs, f, gs) == f \in Frame /\ gs = Append(fs, f)

\* The frames that are left are as they were.
LEMMA CutFrames ==
  ASSUME NEW fs, FramesInv(fs), NEW k, NEW gs, Cut(fs, k, gs)
  PROVE  /\ FramesInv(gs) /\ Len(gs) = k /\ Agree(fs, gs, k)
         /\ \A i \in 1..k : gs[i] = fs[i]
<1>1. fs \in Seq(Frame) /\ k \in Nat /\ k <= Len(fs) /\ Len(fs) \in Nat
  BY DEF FramesInv, Cut
<1>2. gs \in Seq(Frame) /\ Len(gs) = k /\ \A i \in 1..k : gs[i] = fs[i]
  BY <1>1 DEF Cut
<1>3. Agree(fs, gs, k)
  BY <1>1, <1>2 DEF Agree
<1>4. \A i \in 1..k : FrameInv(gs, i)
  BY <1>1, <1>3, FrameLocal DEF FramesInv
<1>5. QED
  BY <1>1, <1>2, <1>3, <1>4, UnwindAssumption DEF FramesInv

\* A frame is put on top.
LEMMA PushFrame ==
  ASSUME NEW fs, FramesInv(fs), Len(fs) < MaxFrames, NEW f, NEW gs, Put(fs, f, gs)
  PROVE  /\ gs \in Seq(Frame) /\ Len(gs) = Len(fs) + 1 /\ gs[Len(gs)] = f
         /\ Agree(fs, gs, Len(fs)) /\ \A i \in 1..Len(fs) : gs[i] = fs[i]
         /\ FrameInv(gs, Len(fs) + 1) => FramesInv(gs)
<1>1. fs \in Seq(Frame) /\ Len(fs) \in Nat /\ MaxFrames \in Nat
  BY UnwindAssumption DEF FramesInv
<1>2. gs \in Seq(Frame) /\ Len(gs) = Len(fs) + 1 /\ gs[Len(gs)] = f /\ \A i \in 1..Len(fs) : gs[i] = fs[i]
  BY <1>1 DEF Put
<1>3. Agree(fs, gs, Len(fs))
  BY <1>1, <1>2 DEF Agree
<1>4. \A i \in 1..Len(fs) : FrameInv(gs, i)
  BY <1>1, <1>3, FrameLocal DEF FramesInv
<1>5. \A i \in 1..Len(gs) : i \in 1..Len(fs) \/ i = Len(fs) + 1
  BY <1>1, <1>2
<1>6. QED
  BY <1>1, <1>2, <1>3, <1>4, <1>5 DEF FramesInv

-----------------------------------------------------------------------------
\* A sequence is one of the elements it has.
LEMMA SeqOf ==
  ASSUME NEW S, NEW T, NEW s \in Seq(S), \A i \in 1..Len(s) : s[i] \in T
  PROVE  s \in Seq(T)
<1>1. s \in [1..Len(s) -> T] /\ Len(s) \in Nat
  OBVIOUS
<1>2. QED
  BY <1>1, SeqDef

\* All but the last of a sequence.
LEMMA FrontOf ==
  ASSUME NEW S, NEW s \in Seq(S), s # <<>>
  PROVE  /\ Front(s) \in Seq(S) /\ Len(Front(s)) = Len(s) - 1 /\ Len(s) \in Nat \ {0}
         /\ \A i \in 1..(Len(s) - 1) : Front(s)[i] = s[i]
<1>1. Len(s) \in Nat /\ Len(s) # 0
  BY EmptySeq
<1> DEFINE k == Len(s) - 1
<1>2. k \in Nat /\ k <= Len(s)
  BY <1>1
<1>3. SubSeq(s, 1, k) \in Seq(S) /\ Len(SubSeq(s, 1, k)) = k /\ \A i \in 1..k : SubSeq(s, 1, k)[i] = s[i]
  <2> HIDE DEF k
  <2>1. QED
    BY <1>1, <1>2
<1>4. QED
  BY <1>1, <1>3 DEF Front

\* The stack of environments grows with a frame,
LEMMA MirrorPush ==
  ASSUME NEW n \in Nat, NEW fs, NEW gs, Agree(fs, gs, n), NEW s, Mirror(fs, s, n), gs[n + 1].phase = "body"
  PROVE  Mirror(gs, Append(s, n + 1), n + 1)
<1> DEFINE t == Append(s, n + 1)
<1>1. Mirror(gs, s, n)
  BY Local
<1>2. s \in Seq(1..n) /\ Len(s) \in Nat
  BY <1>1 DEF Mirror
<1>3. s \in Seq(1..(n + 1))
  <2>1. \A i \in 1..Len(s) : s[i] \in 1..(n + 1)
    BY <1>2
  <2>2. QED
    BY <1>2, <2>1, SeqOf
<1>4. t \in Seq(1..(n + 1)) /\ Len(t) = Len(s) + 1 /\ t[Len(s) + 1] = n + 1
  BY <1>2, <1>3
<1>5. \A i \in 1..Len(s) : t[i] = s[i] /\ s[i] \in 1..n
  BY <1>2, <1>3
<1>6. \A i \in 1..Len(t) : i \in 1..Len(s) \/ i = Len(s) + 1
  BY <1>2, <1>4
<1>7. Len(s) <= n
  <2>1. CASE Len(s) = 0
    BY <2>1
  <2>2. CASE Len(s) # 0
    <3>1. Len(s) \in 1..Len(s)
      BY <1>2, <2>2
    <3>2. s[Len(s)] >= Len(s) /\ s[Len(s)] <= n /\ s[Len(s)] \in Nat
      BY <1>1, <1>2, <1>5, <3>1 DEF Mirror
    <3>3. QED
      BY <1>2, <3>2
  <2>3. QED
    BY <2>1, <2>2
<1>8. \A i \in 1..Len(t) : t[i] >= i
  BY <1>1, <1>2, <1>4, <1>5, <1>6, <1>7 DEF Mirror
<1>9. \A i, j \in 1..Len(t) : i < j => t[i] < t[j]
  BY <1>1, <1>2, <1>4, <1>5, <1>6 DEF Mirror
<1>10. ASSUME NEW j \in 1..(n + 1) PROVE (\E i \in 1..Len(t) : t[i] = j) <=> gs[j].phase = "body"
  <2>1. CASE j = n + 1
    BY <1>2, <1>4, <2>1
  <2>2. CASE j \in 1..n
    <3>1. (\E i \in 1..Len(s) : s[i] = j) <=> gs[j].phase = "body"
      BY <1>1, <2>2 DEF Mirror
    <3>2. (\E i \in 1..Len(t) : t[i] = j) <=> \E i \in 1..Len(s) : s[i] = j
      BY <1>2, <1>4, <1>5, <1>6, <2>2
    <3>3. QED
      BY <3>1, <3>2
  <2>3. QED
    BY <2>1, <2>2
<1>11. QED
  BY <1>4, <1>8, <1>9, <1>10 DEF Mirror

\* and takes no notice of one that is in its cleanup.
LEMMA MirrorSkip ==
  ASSUME NEW n \in Nat, NEW fs, fs[n + 1].phase # "body", NEW s
  PROVE  Mirror(fs, s, n) <=> Mirror(fs, s, n + 1)
<1>1. ASSUME Mirror(fs, s, n) PROVE Mirror(fs, s, n + 1)
  <2>1. s \in Seq(1..n) /\ \A i \in 1..Len(s) : s[i] \in 1..n
    BY <1>1 DEF Mirror
  <2>2. s \in Seq(1..(n + 1))
    <3>1. \A i \in 1..Len(s) : s[i] \in 1..(n + 1)
      BY <2>1
    <3>2. QED
      BY <2>1, <3>1, SeqOf
  <2>3. \A j \in 1..(n + 1) : (\E i \in 1..Len(s) : s[i] = j) <=> fs[j].phase = "body"
    BY <1>1, <2>1 DEF Mirror
  <2>4. QED
    BY <1>1, <2>2, <2>3 DEF Mirror
<1>2. ASSUME Mirror(fs, s, n + 1) PROVE Mirror(fs, s, n)
  <2>1. s \in Seq(1..(n + 1)) /\ \A i \in 1..Len(s) : s[i] \in 1..(n + 1)
    BY <1>2 DEF Mirror
  <2>2. n + 1 \in 1..(n + 1)
    OBVIOUS
  <2>3. \A i \in 1..Len(s) : s[i] # n + 1
    BY <1>2, <2>2 DEF Mirror
  <2>4. s \in Seq(1..n)
    <3>1. ASSUME NEW i \in 1..Len(s) PROVE s[i] \in 1..n
      <4>1. s[i] \in 1..(n + 1) /\ s[i] # n + 1
        BY <2>1, <2>3
      <4>2. QED
        BY <4>1
    <3>2. QED
      BY <2>1, <3>1, SeqOf
  <2>5. QED
    BY <1>2, <2>4 DEF Mirror
<1>3. QED
  BY <1>1, <1>2

\* It is over at the last environment,
LEMMA MirrorLast ==
  ASSUME NEW n \in Nat, NEW fs, NEW s, Mirror(fs, s, n), s # <<>>
  PROVE  /\ Last(s) \in 1..n /\ fs[Last(s)].phase = "body" /\ Mirror(fs, s, Last(s))
         /\ \A j \in 1..n : fs[j].phase = "body" => j <= Last(s)
<1>1. s \in Seq(1..n) /\ Len(s) \in Nat /\ Len(s) \in 1..Len(s) /\ \A i \in 1..Len(s) : s[i] \in 1..n
  BY EmptySeq DEF Mirror
<1>2. \A i \in 1..Len(s) : s[i] <= s[Len(s)]
  BY <1>1 DEF Mirror
<1>3. Last(s) \in 1..n /\ fs[Last(s)].phase = "body"
  BY <1>1 DEF Mirror, Last
<1>4. s \in Seq(1..Last(s))
  <2>1. \A i \in 1..Len(s) : s[i] \in 1..Last(s)
    BY <1>1, <1>2, <1>3 DEF Last
  <2>2. QED
    BY <1>1, <2>1, SeqOf
<1>5. Mirror(fs, s, Last(s))
  BY <1>3, <1>4 DEF Mirror
<1>6. \A j \in 1..n : fs[j].phase = "body" => j <= Last(s)
  BY <1>2 DEF Mirror, Last
<1>7. QED
  BY <1>3, <1>5, <1>6

\* and what is before it is that of the frames below.
LEMMA MirrorFront ==
  ASSUME NEW n \in Nat, NEW fs, NEW s, Mirror(fs, s, n), s # <<>>
  PROVE  Mirror(fs, Front(s), Last(s) - 1)
<1> DEFINE t == Front(s)
<1>1. /\ Last(s) \in 1..n /\ Mirror(fs, s, Last(s))
  BY MirrorLast
<1>2. s \in Seq(1..n) /\ Len(s) \in Nat /\ Len(s) # 0
  BY EmptySeq DEF Mirror
<1>3. t \in Seq(1..n) /\ Len(t) = Len(s) - 1 /\ \A i \in 1..Len(t) : t[i] = s[i]
  BY <1>2, FrontOf
<1>4. \A i \in 1..Len(t) : s[i] < s[Len(s)] /\ s[i] \in 1..n
  <2>1. \A i \in 1..Len(t) : i \in 1..Len(s) /\ Len(s) \in 1..Len(s) /\ i < Len(s)
    BY <1>2, <1>3
  <2>2. QED
    BY <1>2, <2>1 DEF Mirror
<1>5. t \in Seq(1..(Last(s) - 1))
  <2>1. \A i \in 1..Len(t) : t[i] \in 1..(Last(s) - 1)
    BY <1>1, <1>3, <1>4 DEF Last
  <2>2. QED
    BY <1>3, <2>1, SeqOf
<1>6. ASSUME NEW j \in 1..(Last(s) - 1) PROVE (\E i \in 1..Len(t) : t[i] = j) <=> fs[j].phase = "body"
  <2>1. (\E i \in 1..Len(s) : s[i] = j) <=> fs[j].phase = "body"
    BY <1>1 DEF Mirror
  <2>2. \A i \in 1..Len(s) : s[i] = j => i \in 1..Len(t)
    BY <1>1, <1>2, <1>3 DEF Last
  <2>3. QED
    BY <1>2, <1>3, <2>1, <2>2
<1>7. \A i, j \in 1..Len(t) : t[i] >= i /\ (i < j => t[i] < t[j])
  <2>1. \A i \in 1..Len(t) : i \in 1..Len(s)
    BY <1>2, <1>3
  <2>2. QED
    BY <1>1, <1>3, <2>1 DEF Mirror
<1>8. QED
  BY <1>5, <1>6, <1>7 DEF Mirror

\* No more environments than places.
LEMMA MirrorTyped ==
  ASSUME NEW n \in 0..MaxFrames, NEW fs, NEW s, Mirror(fs, s, n)
  PROVE  s \in Envs /\ Len(s) \in 0..n
<1>1. s \in Seq(1..n) /\ Len(s) \in Nat /\ MaxFrames \in Nat
  BY UnwindAssumption DEF Mirror
<1>2. Len(s) <= n
  <2>1. CASE Len(s) # 0
    <3>1. Len(s) \in 1..Len(s)
      BY <1>1, <2>1
    <3>2. s[Len(s)] >= Len(s) /\ s[Len(s)] \in 1..n
      BY <1>1, <3>1 DEF Mirror
    <3>3. QED
      BY <1>1, <3>2
  <2>2. QED
    BY <1>1, <2>1
<1>3. s \in [1..Len(s) -> Places]
  <2>1. s \in [1..Len(s) -> 1..n]
    BY <1>1
  <2>2. 1..n \subseteq Places
    BY <1>1 DEF Places
  <2>3. QED
    BY <2>1, <2>2
<1>4. Len(s) \in 0..n /\ Len(s) \in 0..MaxFrames
  BY <1>1, <1>2
<1>5. s \in Envs
  BY <1>3, <1>4 DEF Envs
<1>6. QED
  BY <1>4, <1>5

-----------------------------------------------------------------------------
\* Two stacks are the same up to k, and have no catch block above it.
Stay(fs, gs, k) == /\ fs \in Seq(Frame) /\ gs \in Seq(Frame)
                   /\ k \in Nat /\ k <= Len(fs) /\ k <= Len(gs)
                   /\ \A i \in 1..k : gs[i] = fs[i]
                   /\ \A j \in 1..Len(fs) : fs[j].phase = "caught" => j <= k
                   /\ \A j \in 1..Len(gs) : gs[j].phase = "caught" => j <= k

\* The catch blocks, when all of them stay,
LEMMA CatchesStay ==
  ASSUME NEW fs, NEW gs, NEW cs, CatchInv(fs, cs), NEW k, Stay(fs, gs, k)
  PROVE  CatchInv(gs, cs)
<1>0. /\ fs \in Seq(Frame) /\ gs \in Seq(Frame)
      /\ k \in 0..Len(fs) /\ k <= Len(gs)
      /\ \A i \in 1..k : gs[i] = fs[i]
      /\ \A j \in 1..Len(fs) : fs[j].phase = "caught" => j <= k
      /\ \A j \in 1..Len(gs) : gs[j].phase = "caught" => j <= k
  BY DEF Stay
<1>1. PICK r : CatchesAre(fs, r, cs)
  BY DEF CatchInv
<1>2. Caught(gs) = Caught(fs)
  BY <1>0 DEF Caught
<1>3. \A j \in Caught(fs) : gs[j] = fs[j]
  BY <1>0 DEF Caught
<1>4. CatchesAre(gs, r, cs)
  BY <1>1, <1>2, <1>3 DEF CatchesAre
<1>5. QED
  BY <1>4 DEF CatchInv

\* when there is none,
LEMMA NoCatches ==
  ASSUME NEW gs \in Seq(Frame), \A j \in 1..Len(gs) : gs[j].phase # "caught"
  PROVE  CatchInv(gs, <<>>)
<1>1. <<>> \in Seq(Exits \ {Nowhere}) /\ 1..Len(<<>>) = {} /\ Caught(gs) = {}
  BY EmptySeq DEF Caught
<1>2. CatchesAre(gs, <<>>, <<>>)
  BY <1>1 DEF CatchesAre
<1>3. QED
  BY <1>2 DEF CatchInv

\* when those above k are abandoned,
LEMMA CatchesDropped ==
  ASSUME Abandons, NEW fs \in Seq(Frame), NEW cs, CatchInv(fs, cs), NEW gs \in Seq(Frame),
         Len(gs) <= Len(fs), \A i \in 1..Len(gs) : gs[i] = fs[i]
  PROVE  CatchInv(gs, cs)
<1>1. PICK r : CatchesAre(fs, r, cs)
  BY DEF CatchInv
<1>2. Caught(gs) \subseteq Caught(fs)
  BY DEF Caught
<1>3. CatchesAre(gs, r, cs)
  BY <1>1, <1>2 DEF CatchesAre
<1>4. QED
  BY <1>3 DEF CatchInv

\* when one is entered,
LEMMA CatchEntered ==
  ASSUME NEW fs \in Seq(Frame), NEW f \in Frame, f.phase = "caught", f.then # Nowhere,
         NEW cs, CatchInv(fs, cs)
  PROVE  CatchInv(Append(fs, f), Append(cs, f.then))
<1> DEFINE n == Len(fs)
           gs == Append(fs, f)
           ds == Append(cs, f.then)
<1>1. PICK r : CatchesAre(fs, r, cs)
  BY DEF CatchInv
<1> DEFINE q == [j \in 1..(n + 1) |-> IF j = n + 1 THEN Len(cs) + 1 ELSE r[j]]
<1>2. /\ n \in Nat /\ gs \in Seq(Frame) /\ Len(gs) = n + 1 /\ gs[n + 1] = f
      /\ \A i \in 1..n : gs[i] = fs[i]
  OBVIOUS
<1>3. f.then \in Exits \ {Nowhere} /\ cs \in Seq(Exits \ {Nowhere})
  BY <1>1 DEF Frame, CatchesAre
<1>4. /\ ds \in Seq(Exits \ {Nowhere}) /\ Len(cs) \in Nat /\ Len(ds) = Len(cs) + 1
      /\ ds[Len(cs) + 1] = f.then /\ \A i \in 1..Len(cs) : ds[i] = cs[i]
  BY <1>3
<1> HIDE DEF gs, ds
<1>5. Caught(gs) = Caught(fs) \cup {n + 1} /\ \A j \in Caught(fs) : j \in 1..n
  BY <1>2 DEF Caught
<1>6. /\ q[n + 1] = Len(cs) + 1
      /\ \A j \in Caught(fs) : q[j] = r[j] /\ r[j] \in 1..Len(cs) /\ gs[j] = fs[j]
  BY <1>1, <1>2, <1>5 DEF CatchesAre
<1> HIDE DEF q
<1>7. \A j \in Caught(gs) : q[j] \in 1..Len(ds)
  BY <1>4, <1>5, <1>6
<1>8. \A i, j \in Caught(gs) : i < j => q[i] < q[j]
  BY <1>1, <1>2, <1>4, <1>5, <1>6 DEF CatchesAre
<1>9. ASSUME ~Abandons
      PROVE  /\ \A j \in Caught(gs) : gs[j].then = ds[q[j]]
             /\ \A i \in 1..Len(ds) : \E j \in Caught(gs) : q[j] = i
  <2>1. \A j \in Caught(gs) : gs[j].then = ds[q[j]]
    <3>1. gs[n + 1].then = ds[q[n + 1]]
      BY <1>2, <1>4, <1>6
    <3>2. ASSUME NEW j \in Caught(fs) PROVE gs[j].then = ds[q[j]]
      <4>1. fs[j].then = cs[r[j]]
        BY <1>1, <1>9 DEF CatchesAre
      <4>2. gs[j] = fs[j] /\ q[j] = r[j] /\ r[j] \in 1..Len(cs)
        BY <1>6
      <4>3. ds[r[j]] = cs[r[j]]
        BY <1>4, <4>2
      <4>4. QED
        BY <4>1, <4>2, <4>3
    <3>3. QED
      BY <1>5, <3>1, <3>2
  <2>2. ASSUME NEW i \in 1..Len(ds) PROVE \E j \in Caught(gs) : q[j] = i
    <3>1. CASE i = Len(cs) + 1
      BY <1>5, <1>6, <3>1
    <3>2. CASE i \in 1..Len(cs)
      BY <1>1, <1>5, <1>6, <1>9, <3>2 DEF CatchesAre
    <3>3. QED
      BY <1>4, <3>1, <3>2
  <2>3. QED
    BY <2>1, <2>2
<1>10. CatchesAre(gs, q, ds)
  BY <1>4, <1>7, <1>8, <1>9 DEF CatchesAre
<1>11. QED
  BY <1>10 DEF CatchInv, gs, ds

\* and when the innermost is left.
LEMMA CatchLeft ==
  ASSUME NEW fs \in Seq(Frame), fs # <<>>, fs[Len(fs)].phase = "caught", NEW cs, CatchInv(fs, cs),
         NEW gs, gs = SubSeq(fs, 1, Len(fs) - 1)
  PROVE  /\ cs # <<>> /\ Last(cs) \in Exits \ {Nowhere} /\ CatchInv(gs, Front(cs))
         /\ ~Abandons => Last(cs) = fs[Len(fs)].then
<1> DEFINE n == Len(fs)
           m == Len(cs)
<1>1. PICK r : CatchesAre(fs, r, cs)
  BY DEF CatchInv
<1>2. /\ n \in Nat \ {0} /\ gs \in Seq(Frame) /\ Len(gs) = n - 1 /\ \A i \in 1..(n - 1) : gs[i] = fs[i]
  BY FrontOf DEF Front
<1>3. n \in Caught(fs) /\ \A j \in Caught(fs) : j \in 1..n
  BY <1>2 DEF Caught
<1>4. /\ cs \in Seq(Exits \ {Nowhere}) /\ m \in Nat
      /\ \A j \in Caught(fs) : r[j] \in 1..m
  BY <1>1 DEF CatchesAre
<1>5. m # 0 /\ cs # <<>>
  BY <1>3, <1>4
<1>6. Last(cs) \in Exits \ {Nowhere}
  BY <1>4, <1>5 DEF Last
<1>7. /\ Front(cs) \in Seq(Exits \ {Nowhere}) /\ Len(Front(cs)) = m - 1
      /\ \A i \in 1..(m - 1) : Front(cs)[i] = cs[i]
  BY <1>4, <1>5, FrontOf
<1>8. Caught(gs) = Caught(fs) \ {n} /\ \A j \in Caught(gs) : gs[j] = fs[j] /\ j < n
  BY <1>2 DEF Caught
<1>9. \A j \in Caught(gs) : r[j] \in 1..(m - 1)
  <2>1. ASSUME NEW j \in Caught(gs) PROVE r[j] \in 1..(m - 1)
    <3>1. r[j] < r[n] /\ r[j] \in 1..m /\ r[n] \in 1..m
      BY <1>1, <1>3, <1>4, <1>8 DEF CatchesAre
    <3>2. QED
      BY <1>4, <3>1
  <2>2. QED
    BY <2>1
<1>10. ASSUME ~Abandons
       PROVE  /\ Last(cs) = fs[n].then
              /\ \A j \in Caught(gs) : gs[j].then = Front(cs)[r[j]]
              /\ \A i \in 1..(m - 1) : \E j \in Caught(gs) : r[j] = i
  <2>1. r[n] = m
    <3>1. PICK j \in Caught(fs) : r[j] = m
      BY <1>1, <1>4, <1>5, <1>10 DEF CatchesAre
    <3>2. r[n] \in 1..m /\ (j < n => m < r[n])
      BY <1>1, <1>3, <1>4, <3>1 DEF CatchesAre
    <3>3. QED
      BY <1>3, <1>4, <3>1, <3>2
  <2>2. Last(cs) = fs[n].then
    BY <1>1, <1>3, <1>10, <2>1 DEF CatchesAre, Last
  <2>3. \A j \in Caught(gs) : gs[j].then = Front(cs)[r[j]]
    BY <1>1, <1>7, <1>8, <1>9, <1>10 DEF CatchesAre
  <2>4. ASSUME NEW i \in 1..(m - 1) PROVE \E j \in Caught(gs) : r[j] = i
    <3>1. i \in 1..m /\ i # m
      BY <1>4
    <3>2. PICK j \in Caught(fs) : r[j] = i
      BY <1>1, <1>10, <3>1 DEF CatchesAre
    <3>3. j # n
      BY <2>1, <3>1, <3>2
    <3>4. QED
      BY <1>8, <3>2, <3>3
  <2>5. QED
    BY <2>2, <2>3, <2>4
<1>11. \A i, j \in Caught(gs) : i < j => r[i] < r[j]
  BY <1>1, <1>8 DEF CatchesAre
<1>12. CatchesAre(gs, r, Front(cs))
  BY <1>7, <1>9, <1>10, <1>11 DEF CatchesAre
<1>13. QED
  BY <1>5, <1>6, <1>10, <1>12 DEF CatchInv

\* A jump to d leaves all the catch blocks it goes by, or none, or abandons some.
LEMMA CatchesByJump ==
  ASSUME NEW fs, FramesInv(fs), NEW cs, CatchInv(fs, cs), NEW j \in 1..Len(fs), NEW d, d <= j,
         d \in 1..Len(fs), fs[j].phase # "caught", Keeps(fs, d, Len(fs)), NEW k \in {j - 1, j},
         NEW gs, Cut(fs, k, gs)
  PROVE  CatchInv(gs, IF \E i \in 1..j : fs[i].phase = "caught" THEN cs ELSE <<>>)
<1>1. k \in 0..Len(fs) /\ fs \in Seq(Frame) /\ Len(fs) \in Nat
  BY DEF FramesInv
<1>2. gs \in Seq(Frame) /\ Len(gs) = k /\ \A i \in 1..k : gs[i] = fs[i]
  BY <1>1, CutFrames DEF FramesInv
<1>3. CASE (\E i \in 1..j : fs[i].phase = "caught") /\ ~Abandons
  <2>1. PICK i \in 1..j : fs[i].phase = "caught"
    BY <1>3
  <2>2. \A b \in 1..Len(fs) : fs[b].phase = "caught" => b <= j
    BY <1>1, <1>3, <2>1 DEF Keeps
  <2>3. \A b \in 1..Len(fs) : fs[b].phase = "caught" => b <= k
    BY <2>2
  <2>4. CatchInv(gs, cs)
    <3>1. \A b \in 1..Len(gs) : gs[b].phase = "caught" => b <= k
      BY <1>1, <1>2
    <3>2. k <= Len(gs)
      BY <1>1, <1>2
    <3>3. QED
      BY <1>1, <1>2, <2>3, <3>1, <3>2, CatchesStay DEF Stay
  <2>5. QED
    BY <1>3, <2>4
<1>4. CASE ~\E i \in 1..j : fs[i].phase = "caught"
  <2>1. \A i \in 1..Len(gs) : gs[i].phase # "caught"
    BY <1>2, <1>4
  <2>2. QED
    BY <1>2, <1>4, <2>1, NoCatches
<1>5. CASE (\E i \in 1..j : fs[i].phase = "caught") /\ Abandons
  <2>1. Len(gs) <= Len(fs) /\ \A i \in 1..Len(gs) : gs[i] = fs[i]
    BY <1>1, <1>2
  <2>2. CatchInv(gs, cs)
    BY <1>1, <1>2, <1>5, <2>1, CatchesDropped
  <2>3. QED
    BY <1>5, <2>2
<1>6. QED
  BY <1>3, <1>4, <1>5, UnwindAssumption

-----------------------------------------------------------------------------
\* A frame is left in its body,
LEMMA LeaveBody ==
  ASSUME NEW fs, FramesInv(fs), NEW n, n = Len(fs), n # 0, fs[n].phase = "body",
         NEW c, IsCell(fs, c, n), NEW gs, Cut(fs, n - 1, gs)
  PROVE  /\ FramesInv(gs) /\ Len(gs) = n - 1 /\ n \in Nat \ {0} /\ Mirror(gs, fs[n].outer, n - 1)
         /\ IsCell(gs, IF fs[n].kind = "bind" THEN fs[n].old ELSE c, n - 1)
<1>1. n \in Nat \ {0} /\ n - 1 \in 0..n /\ FrameInv(fs, n)
  BY DEF FramesInv
<1>2. FramesInv(gs) /\ Len(gs) = n - 1 /\ Agree(fs, gs, n - 1)
  BY <1>1, CutFrames
<1>3. Mirror(fs, fs[n].outer, n - 1) /\ IsCell(fs, IF fs[n].kind = "bind" THEN fs[n].old ELSE c, n - 1)
  BY <1>1 DEF FrameInv, IsCell
<1>4. QED
  BY <1>1, <1>2, <1>3, Local

\* or at the end of its cleanup.
LEMMA LeaveCleanup ==
  ASSUME NEW fs, FramesInv(fs), NEW n, n = Len(fs), n # 0, fs[n].phase # "body",
         NEW c, IsCell(fs, c, n), NEW s, Mirror(fs, s, n), NEW gs, Cut(fs, n - 1, gs)
  PROVE  /\ FramesInv(gs) /\ Len(gs) = n - 1 /\ n \in Nat \ {0} /\ Mirror(gs, s, n - 1)
         /\ IsCell(gs, c, n - 1)
<1>1. n \in Nat \ {0} /\ n - 1 \in 0..n /\ FrameInv(fs, n)
  BY DEF FramesInv
<1>2. FramesInv(gs) /\ Len(gs) = n - 1 /\ Agree(fs, gs, n - 1)
  BY <1>1, CutFrames
<1>3. Mirror(fs, s, n - 1)
  BY <1>1, MirrorSkip
<1>4. IsCell(fs, c, n - 1)
  BY <1>1 DEF FrameInv, IsCell
<1>5. n - 1 \in 0..(n - 1)
  BY <1>1
<1>6. Mirror(gs, s, n - 1) /\ IsCell(gs, c, n - 1)
  BY <1>2, <1>3, <1>4, <1>5, Local
<1>7. QED
  BY <1>1, <1>2, <1>6

\* A cleanup begins in the place of its frame.
LEMMA PutCleanup ==
  ASSUME NEW fs, FramesInv(fs), NEW n, n = Len(fs), n < MaxFrames,
         NEW c, IsCell(fs, c, n), NEW s, Mirror(fs, s, n),
         NEW f, f.kind = "protect", f.phase # "body",
         f.phase = "jumped" => Goal(fs, f.then.to, n) /\ Keeps(fs, f.then.to, n),
         f.phase = "caught" => Reaches(fs, f.then, n),
         NEW gs, Put(fs, f, gs)
  PROVE  /\ FramesInv(gs) /\ Len(gs) = n + 1 /\ Mirror(gs, s, n + 1) /\ IsCell(gs, c, n + 1)
<1>1. n \in Nat
  BY DEF FramesInv
<1>2. FrameInv(gs, n + 1) => FramesInv(gs)
  BY PushFrame
<1>3. gs[n + 1] = f /\ Len(gs) = n + 1 /\ Agree(fs, gs, n)
  <2>1. gs \in Seq(Frame) /\ Len(gs) = Len(fs) + 1 /\ gs[Len(gs)] = f /\ Agree(fs, gs, Len(fs))
    BY PushFrame
  <2>2. QED
    BY <2>1
<1>4. /\ f.phase = "jumped" => Goal(gs, f.then.to, n) /\ Keeps(gs, f.then.to, n)
      /\ f.phase = "caught" => Reaches(gs, f.then, n)
      /\ Mirror(gs, s, n) /\ IsCell(gs, c, n)
  BY <1>1, <1>3, Local
<1>5. (n + 1) - 1 = n
  BY <1>1
<1>6. FrameInv(gs, n + 1)
  BY <1>3, <1>4, <1>5 DEF FrameInv
<1>7. Mirror(gs, s, n + 1)
  BY <1>1, <1>3, <1>4, MirrorSkip
<1>8. IsCell(gs, c, n + 1)
  BY <1>1, <1>3, <1>4 DEF IsCell
<1>9. QED
  BY <1>2, <1>3, <1>6, <1>7, <1>8

\* The frame of a cleanup.
LEMMA CleaningTyped ==
  ASSUME NEW f \in Frame, NEW how \in {"returned", "jumped", "caught"}, NEW x \in Exits
  PROVE  /\ Cleaning(f, how, x) \in Frame /\ Cleaning(f, how, x).phase = how
         /\ Cleaning(f, how, x).then = x /\ Cleaning(f, how, x).kind = f.kind
BY DEF Cleaning, Frame

-----------------------------------------------------------------------------
\* The invariant: the frames, the catch blocks, the environments while code runs
\* or an exception is in flight, the walk, and the exception.
VarsInv == /\ dynEnvStack \in Envs /\ iter \in Envs
           /\ \A i \in 1..Len(dynEnvStack) : dynEnvStack[i] <= Len(frames)
           /\ mode \in {"run", "walk", "throw"}
           /\ cell \in 0..Len(frames)
           /\ unwindDest \in Places \cup {0}
           /\ thrown \in Exits /\ (mode = "throw" <=> thrown # Nowhere)

EnvInv == mode # "walk" => /\ Mirror(frames, dynEnvStack, Len(frames))
                           /\ IsCell(frames, cell, Len(frames))

WalkInv == mode = "walk" => /\ iter # <<>> /\ Last(iter) \in 1..Len(frames)
                            /\ Mirror(frames, iter, Last(iter))
                            /\ Goal(frames, unwindDest, Last(iter))
                            /\ Keeps(frames, unwindDest, Len(frames))
                            /\ IsCell(frames, cell, Last(iter))

ThrowInv == mode = "throw" => Reaches(frames, thrown, Len(frames))

UnwindIInv == /\ FramesInv(frames) /\ CatchInv(frames, caught)
              /\ VarsInv /\ EnvInv /\ WalkInv /\ ThrowInv

\* A step after which code runs.
LEMMA RunAgain ==
  ASSUME UnwindIInv, FramesInv(frames'), CatchInv(frames', caught'),
         Mirror(frames', dynEnvStack', Len(frames')), IsCell(frames', cell', Len(frames')),
         mode' = "run", iter' \in Envs, unwindDest' \in Places \cup {0}, thrown' = Nowhere
  PROVE  UnwindIInv'
<1>1. Len(frames') \in 0..MaxFrames
  BY DEF FramesInv
<1>2. dynEnvStack' \in Envs
  BY <1>1, MirrorTyped
<1>3. \A i \in 1..Len(dynEnvStack') : dynEnvStack'[i] <= Len(frames')
  BY DEF Mirror
<1>4. thrown' \in Exits
  BY DEF Nowhere, Exits
<1>5. VarsInv'
  BY <1>2, <1>3, <1>4 DEF VarsInv, IsCell
<1>6. QED
  BY <1>5 DEF UnwindIInv, EnvInv, WalkInv, ThrowInv

\* What the invariant says of the innermost frame.
LEMMA TopFrame ==
  ASSUME UnwindIInv, Top > 0
  PROVE  /\ Top \in 1..MaxFrames /\ Here \in Frame /\ FrameInv(frames, Top)
         /\ FramesInv(frames) /\ CatchInv(frames, caught) /\ frames \in Seq(Frame)
BY UnwindAssumption DEF UnwindIInv, FramesInv, Top, Here

\* A frame is entered.
LEMMA EnterKeeps ==
  ASSUME UnwindIInv, NEW k \in Kinds, NEW t \in Tags \cup {NoTag}, Enter(k, t)
  PROVE  UnwindIInv'
<1> DEFINE f == [kind |-> k, tag |-> t, phase |-> "body", then |-> Nowhere,
                 outer |-> dynEnvStack, old |-> cell]
<1>1. PICK n, gs : n = Len(frames) /\ gs = Append(frames, f)
  OBVIOUS
<1>2. /\ mode = "run" /\ n < MaxFrames /\ frames' = gs /\ dynEnvStack' = Append(dynEnvStack, n + 1)
      /\ cell' = IF k = "bind" THEN n + 1 ELSE cell
      /\ UNCHANGED <<mode, iter, unwindDest, thrown, caught>>
  BY <1>1 DEF Enter, Running, Top
<1>3. /\ FramesInv(frames) /\ CatchInv(frames, caught) /\ n \in Nat /\ frames \in Seq(Frame)
      /\ Mirror(frames, dynEnvStack, n) /\ IsCell(frames, cell, n)
      /\ dynEnvStack \in Envs /\ cell \in 0..n /\ MaxFrames \in Nat /\ iter \in Envs
      /\ unwindDest \in Places \cup {0} /\ thrown = Nowhere
  BY <1>1, <1>2, UnwindAssumption DEF UnwindIInv, FramesInv, VarsInv, EnvInv
<1>4. f \in Frame
  <2>1. Nowhere \in Exits
    BY DEF Nowhere, Exits
  <2>2. cell \in Places \cup {0}
    BY <1>2, <1>3 DEF Places
  <2>3. QED
    BY <1>3, <2>1, <2>2 DEF Frame
<1>5. f.phase = "body" /\ f.kind = k /\ f.outer = dynEnvStack /\ f.old = cell
  OBVIOUS
<1> HIDE DEF f
<1>6. /\ gs \in Seq(Frame) /\ Len(gs) = n + 1 /\ gs[n + 1] = f /\ Agree(frames, gs, n)
      /\ \A i \in 1..n : gs[i] = frames[i]
  BY <1>1, <1>3, <1>4 DEF Agree
<1>7. Mirror(gs, dynEnvStack, n) /\ IsCell(gs, cell, n)
  BY <1>3, <1>6, Local
<1>8. FrameInv(gs, n + 1)
  <2>1. (n + 1) - 1 = n
    BY <1>3
  <2>2. QED
    BY <1>5, <1>6, <1>7, <2>1 DEF FrameInv
<1>9. FramesInv(gs)
  BY <1>1, <1>2, <1>3, <1>4, <1>8, PushFrame DEF Put
<1>10. Mirror(gs, dynEnvStack', n + 1)
  BY <1>2, <1>3, <1>5, <1>6, MirrorPush
<1>11. IsCell(gs, cell', n + 1)
  BY <1>2, <1>3, <1>5, <1>6, <1>7 DEF IsCell
<1>12. Stay(frames, gs, n)
  BY <1>1, <1>3, <1>5, <1>6 DEF Stay
<1>13. CatchInv(gs, caught)
  BY <1>3, <1>12, CatchesStay
<1>14. QED
  BY <1>2, <1>3, <1>6, <1>9, <1>10, <1>11, <1>13, RunAgain

\* The innermost frame returns, and an unwind-protect begins its cleanup.
LEMMA ReturnKeeps ==
  ASSUME UnwindIInv, Return
  PROVE  UnwindIInv'
<1>1. PICK n, gs, c, f : /\ n = Len(frames) /\ gs = SubSeq(frames, 1, n - 1)
                         /\ c = IF frames[n].kind = "bind" THEN frames[n].old ELSE cell
                         /\ f = Cleaning(frames[n], "returned", Nowhere)
  OBVIOUS
<1>2. /\ mode = "run" /\ n > 0 /\ frames[n].phase = "body"
      /\ frames' = IF frames[n].kind = "protect" THEN Append(gs, f) ELSE gs
      /\ dynEnvStack' = frames[n].outer /\ cell' = c
      /\ UNCHANGED <<mode, iter, unwindDest, thrown, caught>>
  BY <1>1 DEF Return, Running, Top, Here, Upto
<1>3. /\ FramesInv(frames) /\ CatchInv(frames, caught) /\ n \in 1..MaxFrames /\ frames \in Seq(Frame)
      /\ frames[n] \in Frame /\ IsCell(frames, cell, n) /\ iter \in Envs
      /\ unwindDest \in Places \cup {0} /\ thrown = Nowhere /\ MaxFrames \in Nat
  BY <1>1, <1>2, TopFrame, UnwindAssumption DEF UnwindIInv, VarsInv, EnvInv, Top, Here
<1>4. /\ FramesInv(gs) /\ Len(gs) = n - 1 /\ Mirror(gs, frames[n].outer, n - 1) /\ IsCell(gs, c, n - 1)
  <2>1. n - 1 \in 0..n /\ n # 0
    BY <1>3
  <2>2. Cut(frames, n - 1, gs)
    BY <1>1, <2>1 DEF Cut
  <2>3. QED
    BY <1>1, <1>2, <1>3, <2>1, <2>2, LeaveBody
<1>5. \A i \in 1..(n - 1) : gs[i] = frames[i]
  BY <1>1, <1>3
<1>6. CASE frames[n].kind # "protect"
  <2>1. Stay(frames, gs, n - 1)
    BY <1>1, <1>2, <1>3, <1>4, <1>5 DEF Stay, FramesInv
  <2>2. CatchInv(gs, caught)
    BY <1>3, <2>1, CatchesStay
  <2>3. QED
    BY <1>2, <1>3, <1>4, <1>6, <2>2, RunAgain
<1>7. CASE frames[n].kind = "protect"
  <2>1. Nowhere \in Exits
    BY DEF Nowhere, Exits
  <2>2. f \in Frame /\ f.phase = "returned" /\ f.kind = "protect"
    BY <1>1, <1>3, <1>7, <2>1, CleaningTyped
  <2>3. PICK hs : hs = Append(gs, f)
    OBVIOUS
  <2>4. n - 1 = Len(gs) /\ n - 1 < MaxFrames /\ (n - 1) + 1 = n
    BY <1>3, <1>4
  <2>5. FramesInv(hs) /\ Len(hs) = n /\ Mirror(hs, frames[n].outer, n) /\ IsCell(hs, c, n)
    <3>1. Put(gs, f, hs)
      BY <2>2, <2>3 DEF Put
    <3>2. f.phase # "body" /\ f.phase # "jumped" /\ f.phase # "caught"
      BY <2>2
    <3>3. QED
      BY <1>4, <2>2, <2>4, <3>1, <3>2, PutCleanup
  <2>6. hs \in Seq(Frame) /\ hs[n] = f /\ \A i \in 1..(n - 1) : hs[i] = frames[i]
    BY <1>3, <1>4, <1>5, <2>2, <2>3 DEF FramesInv
  <2>7. Stay(frames, hs, n - 1)
    BY <1>1, <1>2, <1>3, <2>2, <2>5, <2>6 DEF Stay
  <2>8. CatchInv(hs, caught)
    BY <1>3, <2>7, CatchesStay
  <2>9. QED
    BY <1>2, <1>3, <1>7, <2>3, <2>5, <2>8, RunAgain
<1>8. QED
  BY <1>6, <1>7

\* A step after which the unwinder walks from the innermost environment.
LEMMA StartWalk ==
  ASSUME UnwindIInv, mode = "run", NEW d, Goal(frames, d, Len(frames)), Keeps(frames, d, Len(frames)),
         mode' = "walk", iter' = dynEnvStack, unwindDest' = d,
         UNCHANGED <<frames, dynEnvStack, cell, thrown, caught>>
  PROVE  UnwindIInv'
<1>1. PICK n : n = Len(frames)
  OBVIOUS
<1>2. /\ n \in 0..MaxFrames /\ Mirror(frames, dynEnvStack, n) /\ IsCell(frames, cell, n) /\ MaxFrames \in Nat
      /\ \A i \in 1..n : FrameInv(frames, i)
  BY <1>1, UnwindAssumption DEF UnwindIInv, EnvInv, FramesInv
<1>3. d \in 1..n /\ frames[d].phase = "body"
  BY <1>1 DEF Goal
<1>4. dynEnvStack # <<>>
  <2>1. \E i \in 1..Len(dynEnvStack) : dynEnvStack[i] = d
    BY <1>2, <1>3 DEF Mirror
  <2>2. Len(<<>>) = 0
    OBVIOUS
  <2>3. QED
    BY <2>1, <2>2
<1>5. PICK m : m = Last(dynEnvStack)
  OBVIOUS
<1>6. /\ m \in 1..n /\ Mirror(frames, dynEnvStack, m)
      /\ \A j \in 1..n : frames[j].phase = "body" => j <= m
  BY <1>2, <1>4, <1>5, MirrorLast
<1>7. Goal(frames, d, m)
  BY <1>1, <1>3, <1>6 DEF Goal
<1>8. IsCell(frames, cell, m)
  <2>1. \A j \in 1..n : frames[j].kind = "bind" => j <= m
    BY <1>2, <1>6 DEF FrameInv
  <2>2. cell <= m /\ cell \in Nat
    BY <1>2, <1>6, <2>1 DEF IsCell
  <2>3. QED
    BY <1>2, <1>6, <2>2 DEF IsCell
<1>9. WalkInv'
  BY <1>1, <1>4, <1>5, <1>6, <1>7, <1>8 DEF WalkInv
<1>10. VarsInv'
  <2>1. d \in Places
    BY <1>2, <1>3 DEF Places
  <2>2. QED
    BY <2>1 DEF UnwindIInv, VarsInv
<1>11. QED
  BY <1>9, <1>10 DEF UnwindIInv, EnvInv, ThrowInv

\* A step after which an exception is in flight.
LEMMA ThrowOn ==
  ASSUME UnwindIInv, FramesInv(frames'), CatchInv(frames', caught'),
         Mirror(frames', dynEnvStack', Len(frames')), IsCell(frames', cell', Len(frames')),
         mode' = "throw", UNCHANGED <<iter, unwindDest>>, Reaches(frames', thrown', Len(frames'))
  PROVE  UnwindIInv'
<1>1. Len(frames') \in 0..MaxFrames
  BY DEF FramesInv
<1>2. dynEnvStack' \in Envs
  BY <1>1, MirrorTyped
<1>3. \A i \in 1..Len(dynEnvStack') : dynEnvStack'[i] <= Len(frames')
  BY DEF Mirror
<1>4. thrown' \in Exits /\ thrown' # Nowhere
  BY DEF Reaches
<1>5. VarsInv'
  BY <1>2, <1>3, <1>4 DEF UnwindIInv, VarsInv, IsCell
<1>6. QED
  BY <1>5 DEF UnwindIInv, EnvInv, WalkInv, ThrowInv

\* An exit begins, by a walk or by an exception.
LEMMA ExitKeeps ==
  ASSUME UnwindIInv, Running, NEW d, InExtent(d), Kind(d) \in {"block", "tagbody", "catch"},
         NEW x \in Exits, Receives(frames, d, x), Proceed(d) \/ ThrowException(d, x)
  PROVE  UnwindIInv'
<1>1. /\ mode = "run" /\ Mirror(frames, dynEnvStack, Len(frames)) /\ IsCell(frames, cell, Len(frames))
      /\ FramesInv(frames) /\ CatchInv(frames, caught)
  BY DEF Running, UnwindIInv, EnvInv
<1>2. d \in 1..Len(frames) /\ frames[d].phase = "body"
  BY <1>1 DEF InExtent, Mirror
<1>3. Goal(frames, d, Len(frames)) /\ Reaches(frames, x, Len(frames))
  <2>1. x # Nowhere
    BY DEF Receives, Nowhere
  <2>2. QED
    BY <1>2, <2>1 DEF Goal, Kind, Reaches, Received
<1>4. CASE Proceed(d)
  <2>1. Keeps(frames, d, Len(frames))
    BY <1>4 DEF Proceed, KeepsCatches, InCatch, Keeps, Top
  <2>2. QED
    BY <1>1, <1>3, <1>4, <2>1, StartWalk DEF Proceed
<1>5. CASE ThrowException(d, x)
  BY <1>1, <1>3, <1>5, ThrowOn DEF ThrowException
<1>6. QED
  BY <1>4, <1>5

\* return-from and go,
LEMMA UnwindToKeeps ==
  ASSUME UnwindIInv, NEW d, UnwindTo(d)
  PROVE  UnwindIInv'
<1>1. /\ Running /\ InExtent(d) /\ Kind(d) \in {"block", "tagbody"}
      /\ Proceed(d) \/ ThrowException(d, ToFrame(d))
  BY DEF UnwindTo
<1>2. d \in Places
  <2>1. Mirror(frames, dynEnvStack, Len(frames)) /\ Len(frames) \in 0..MaxFrames
    BY <1>1 DEF Running, UnwindIInv, EnvInv, FramesInv
  <2>2. d \in 1..Len(frames)
    BY <1>1, <2>1 DEF InExtent, Mirror
  <2>3. QED
    BY <2>1, <2>2, UnwindAssumption DEF Places
<1>3. ToFrame(d) \in Exits /\ Receives(frames, d, ToFrame(d))
  BY <1>1, <1>2 DEF ToFrame, Exits, Receives, Kind
<1>4. QED
  BY <1>1, <1>3, ExitKeeps

\* and throw.
LEMMA ThrowKeeps ==
  ASSUME UnwindIInv, NEW t \in Tags, Throw(t)
  PROVE  UnwindIInv'
<1>1. PICK d \in CatchOf(t) : Running /\ (Proceed(d) \/ ThrowException(d, ToTag(t)))
  BY DEF Throw
<1>2. InExtent(d) /\ Kind(d) = "catch" /\ frames[d].tag = t
  BY <1>1 DEF CatchOf, InExtent
<1>3. ToTag(t) \in Exits /\ Receives(frames, d, ToTag(t))
  BY <1>2 DEF ToTag, Exits, Receives, Kind
<1>4. QED
  BY <1>1, <1>2, <1>3, ExitKeeps

-----------------------------------------------------------------------------
\* A cleanup ends, and the function returns,
LEMMA EndReturnedKeeps ==
  ASSUME UnwindIInv, EndReturned
  PROVE  UnwindIInv'
<1>1. PICK n, gs : n = Len(frames) /\ gs = SubSeq(frames, 1, n - 1)
  OBVIOUS
<1>2. /\ mode = "run" /\ n > 0 /\ frames[n].phase = "returned" /\ frames' = gs
      /\ UNCHANGED <<dynEnvStack, cell, mode, iter, unwindDest, thrown, caught>>
  BY <1>1 DEF EndReturned, Running, Top, Here, Upto
<1>3. /\ FramesInv(frames) /\ CatchInv(frames, caught) /\ n \in 1..MaxFrames /\ frames \in Seq(Frame)
      /\ Mirror(frames, dynEnvStack, n) /\ IsCell(frames, cell, n) /\ iter \in Envs
      /\ unwindDest \in Places \cup {0} /\ thrown = Nowhere /\ MaxFrames \in Nat
  BY <1>1, <1>2, TopFrame, UnwindAssumption DEF UnwindIInv, VarsInv, EnvInv, Top
<1>4. n # 0 /\ frames[n].phase # "body" /\ Cut(frames, n - 1, gs)
  BY <1>1, <1>2, <1>3 DEF Cut
<1>5. FramesInv(gs) /\ Len(gs) = n - 1 /\ Mirror(gs, dynEnvStack, n - 1) /\ IsCell(gs, cell, n - 1)
  BY <1>1, <1>3, <1>4, LeaveCleanup
<1>6. Stay(frames, gs, n - 1)
  BY <1>1, <1>2, <1>3, <1>5 DEF Stay, FramesInv
<1>7. CatchInv(gs, caught)
  BY <1>3, <1>6, CatchesStay
<1>8. QED
  BY <1>2, <1>3, <1>5, <1>7, RunAgain

\* or the walk goes on,
LEMMA EndJumpedKeeps ==
  ASSUME UnwindIInv, EndJumped
  PROVE  UnwindIInv'
<1>1. PICK n, d : n = Len(frames) /\ d = frames[n].then.to
  OBVIOUS
<1>2. /\ mode = "run" /\ n > 0 /\ frames[n].phase = "jumped"
      /\ unwindDest' = d /\ mode' = "walk" /\ iter' = dynEnvStack
      /\ UNCHANGED <<frames, dynEnvStack, cell, thrown, caught>>
  BY <1>1 DEF EndJumped, Running, Top, Here
<1>3. n \in Nat /\ FrameInv(frames, n)
  BY <1>1, <1>2, TopFrame DEF Top
<1>4. Goal(frames, d, n - 1) /\ Keeps(frames, d, n - 1)
  BY <1>1, <1>2, <1>3 DEF FrameInv
<1>5. Goal(frames, d, n)
  BY <1>3, <1>4 DEF Goal
<1>6. Keeps(frames, d, n)
  BY <1>2, <1>3, <1>4 DEF Keeps
<1>7. QED
  BY <1>1, <1>2, <1>5, <1>6, StartWalk

\* or the exception does.
LEMMA EndCaughtKeeps ==
  ASSUME UnwindIInv, EndCaught
  PROVE  UnwindIInv'
<1>1. PICK n, gs : n = Len(frames) /\ gs = SubSeq(frames, 1, n - 1)
  OBVIOUS
<1>2. /\ mode = "run" /\ n > 0 /\ frames[n].phase = "caught" /\ frames' = gs
      /\ thrown' = Last(caught) /\ caught' = Front(caught) /\ mode' = "throw"
      /\ UNCHANGED <<dynEnvStack, cell, iter, unwindDest>>
  BY <1>1 DEF EndCaught, Running, Top, Here, Upto
<1>3. /\ FramesInv(frames) /\ CatchInv(frames, caught) /\ n \in 1..MaxFrames /\ frames \in Seq(Frame)
      /\ Mirror(frames, dynEnvStack, n) /\ IsCell(frames, cell, n) /\ FrameInv(frames, n)
  BY <1>1, <1>2, TopFrame DEF UnwindIInv, EnvInv, Top
<1>4. n # 0 /\ frames[n].phase # "body" /\ Cut(frames, n - 1, gs)
  BY <1>1, <1>2, <1>3, UnwindAssumption DEF Cut
<1>5. FramesInv(gs) /\ Len(gs) = n - 1 /\ Mirror(gs, dynEnvStack, n - 1) /\ IsCell(gs, cell, n - 1)
  BY <1>1, <1>3, <1>4, LeaveCleanup
<1>6. frames # <<>>
  BY <1>1, <1>4
<1>7. /\ Last(caught) \in Exits \ {Nowhere} /\ CatchInv(gs, Front(caught))
      /\ ~Abandons => Last(caught) = frames[n].then
  BY <1>1, <1>2, <1>3, <1>6, CatchLeft
<1>8. Reaches(frames, frames[n].then, n - 1)
  BY <1>2, <1>3 DEF FrameInv
<1>9. Reaches(gs, frames[n].then, n - 1)
  <2>1. Agree(frames, gs, n - 1) /\ n - 1 \in 0..(n - 1)
    BY <1>3, <1>4, CutFrames, UnwindAssumption
  <2>2. QED
    BY <1>8, <2>1, Local
<1>10. Reaches(gs, thrown', n - 1)
  BY <1>2, <1>7, <1>9 DEF Reaches
<1>11. QED
  BY <1>2, <1>5, <1>7, <1>10, ThrowOn

-----------------------------------------------------------------------------
\* The walk passes an environment,
LEMMA WalkOnKeeps ==
  ASSUME UnwindIInv, WalkOn
  PROVE  UnwindIInv'
<1>1. PICK m, s, k : m = Last(iter) /\ s = Front(iter) /\ k = Last(s)
  OBVIOUS
<1>2. /\ mode = "walk" /\ m # unwindDest
      /\ dynEnvStack' = iter /\ iter' = s
      /\ cell' = IF frames[m].kind = "bind" THEN frames[m].old ELSE cell
      /\ UNCHANGED <<frames, mode, unwindDest, thrown, caught>>
  BY <1>1 DEF WalkOn, AtDest, Kind
<1>3. /\ iter # <<>> /\ m \in 1..Len(frames) /\ Mirror(frames, iter, m)
      /\ Goal(frames, unwindDest, m) /\ Keeps(frames, unwindDest, Len(frames))
      /\ IsCell(frames, cell, m) /\ FramesInv(frames) /\ FrameInv(frames, m)
      /\ Len(frames) \in 0..MaxFrames
  BY <1>1, <1>2 DEF UnwindIInv, WalkInv, FramesInv
<1>4. m \in Nat /\ m - 1 \in 0..MaxFrames /\ MaxFrames \in Nat
  BY <1>3, UnwindAssumption
<1>5. Mirror(frames, s, m - 1)
  BY <1>1, <1>3, <1>4, MirrorFront
<1>6. unwindDest \in 1..(m - 1) /\ frames[unwindDest].phase = "body"
  BY <1>2, <1>3 DEF Goal
<1>7. s # <<>>
  <2>1. \E i \in 1..Len(s) : s[i] = unwindDest
    BY <1>5, <1>6 DEF Mirror
  <2>2. Len(<<>>) = 0
    OBVIOUS
  <2>3. QED
    BY <2>1, <2>2
<1>8. /\ k \in 1..(m - 1) /\ Mirror(frames, s, k)
      /\ \A j \in 1..(m - 1) : frames[j].phase = "body" => j <= k
  BY <1>1, <1>4, <1>5, <1>7, MirrorLast
<1>9. Goal(frames, unwindDest, k)
  BY <1>3, <1>6, <1>8 DEF Goal
<1>10. IsCell(frames, cell', k)
  <2>1. IsCell(frames, cell', m - 1)
    BY <1>2, <1>3, <1>4 DEF FrameInv, IsCell
  <2>2. \A j \in 1..(m - 1) : frames[j].kind = "bind" => j <= k
    BY <1>3, <1>4, <1>8 DEF FramesInv, FrameInv
  <2>3. cell' <= k /\ cell' \in Nat
    BY <1>4, <1>8, <2>1, <2>2 DEF IsCell
  <2>4. QED
    BY <1>4, <1>8, <2>1, <2>2, <2>3 DEF IsCell
<1>11. WalkInv'
  BY <1>1, <1>2, <1>3, <1>7, <1>8, <1>9, <1>10 DEF WalkInv
<1>12. iter \in Envs /\ s \in Envs /\ \A i \in 1..Len(iter) : iter[i] <= Len(frames)
  <2>1. m \in 0..MaxFrames
    BY <1>3, <1>4
  <2>2. iter \in Envs /\ s \in Envs
    BY <1>3, <1>4, <1>5, <2>1, MirrorTyped
  <2>3. \A i \in 1..Len(iter) : iter[i] \in 1..m
    BY <1>3 DEF Mirror
  <2>4. QED
    BY <1>3, <2>2, <2>3
<1>13. VarsInv'
  <2>1. cell' \in 0..Len(frames)
    BY <1>3, <1>8, <1>10 DEF IsCell
  <2>2. QED
    BY <1>2, <1>12, <2>1 DEF UnwindIInv, VarsInv
<1>14. QED
  BY <1>2, <1>11, <1>13 DEF UnwindIInv, EnvInv, ThrowInv

\* jumps to its destination,
LEMMA JumpKeeps ==
  ASSUME UnwindIInv, Jump
  PROVE  UnwindIInv'
<1>1. PICK d, k, gs : /\ d = unwindDest
                      /\ k = IF frames[d].kind = "tagbody" THEN d ELSE d - 1
                      /\ gs = SubSeq(frames, 1, k)
  OBVIOUS
<1>2. /\ mode = "walk" /\ Last(iter) = d /\ frames' = gs
      /\ dynEnvStack' = IF frames[d].kind = "tagbody" THEN iter ELSE Front(iter)
      /\ mode' = "run" /\ iter' = <<>> /\ unwindDest' = 0
      /\ caught' = (IF \E i \in 1..d : frames[i].phase = "caught" THEN caught ELSE <<>>)
      /\ UNCHANGED <<cell, thrown>>
  BY <1>1 DEF Jump, AtDest, Kind, Upto, StillCaught, InCatch
<1>3. /\ iter # <<>> /\ d \in 1..Len(frames) /\ Mirror(frames, iter, d)
      /\ Goal(frames, d, d) /\ Keeps(frames, d, Len(frames))
      /\ IsCell(frames, cell, d) /\ FramesInv(frames) /\ CatchInv(frames, caught)
      /\ thrown = Nowhere
  BY <1>1, <1>2 DEF UnwindIInv, WalkInv, VarsInv
<1>4. d \in Nat /\ k \in {d - 1, d} /\ Cut(frames, k, gs)
  BY <1>1, <1>3 DEF Cut
<1>5. FramesInv(gs) /\ Len(gs) = k /\ Agree(frames, gs, k) /\ k \in 0..k
  BY <1>3, <1>4, CutFrames
<1>6. Mirror(frames, dynEnvStack', k)
  BY <1>1, <1>2, <1>3, <1>4, MirrorFront
<1>7. IsCell(frames, cell, k)
  BY <1>1, <1>3, <1>4 DEF IsCell, Goal
<1>8. Mirror(gs, dynEnvStack', k) /\ IsCell(gs, cell, k)
  BY <1>5, <1>6, <1>7, Local
<1>9. CatchInv(gs, caught')
  <2>1. d <= d /\ frames[d].phase # "caught"
    BY <1>3 DEF Goal
  <2>2. CatchInv(gs, IF \E i \in 1..d : frames[i].phase = "caught" THEN caught ELSE <<>>)
    BY <1>3, <1>4, <2>1, CatchesByJump
  <2>3. QED
    BY <1>2, <2>2
<1>10. iter' \in Envs /\ unwindDest' \in Places \cup {0}
  <2>1. 0 \in 0..MaxFrames /\ <<>> \in [1..0 -> Places]
    BY UnwindAssumption
  <2>2. QED
    BY <1>2, <2>1 DEF Envs
<1>11. QED
  BY <1>2, <1>3, <1>5, <1>8, <1>9, <1>10, RunAgain

\* or to a cleanup.
LEMMA JumpToCleanupKeeps ==
  ASSUME UnwindIInv, JumpToCleanup
  PROVE  UnwindIInv'
<1>1. PICK d, m, gs, f, hs : /\ d = unwindDest /\ m = Last(iter)
                             /\ gs = SubSeq(frames, 1, m - 1)
                             /\ f = Cleaning(frames[m], "jumped", ToFrame(d))
                             /\ hs = Append(gs, f)
  OBVIOUS
<1>2. /\ mode = "walk" /\ m # d /\ frames[m].kind = "protect"
      /\ dynEnvStack' = Front(iter) /\ frames' = hs
      /\ mode' = "run" /\ iter' = <<>> /\ unwindDest' = 0
      /\ caught' = (IF \E i \in 1..m : frames[i].phase = "caught" THEN caught ELSE <<>>)
      /\ UNCHANGED <<cell, thrown>>
  BY <1>1 DEF JumpToCleanup, AtDest, Kind, Upto, StillCaught, InCatch
<1>3. /\ iter # <<>> /\ m \in 1..Len(frames) /\ Mirror(frames, iter, m)
      /\ Goal(frames, d, m) /\ Keeps(frames, d, Len(frames))
      /\ IsCell(frames, cell, m) /\ FramesInv(frames) /\ CatchInv(frames, caught)
      /\ thrown = Nowhere /\ Len(frames) \in 0..MaxFrames /\ MaxFrames \in Nat
      /\ frames \in Seq(Frame)
  BY <1>1, <1>2, UnwindAssumption DEF UnwindIInv, WalkInv, VarsInv, FramesInv
<1>4. /\ m \in Nat /\ m - 1 \in {m - 1, m} /\ Cut(frames, m - 1, gs) /\ frames[m] \in Frame
      /\ (m - 1) + 1 = m /\ m - 1 < MaxFrames
  BY <1>1, <1>3 DEF Cut
<1>5. FramesInv(gs) /\ Len(gs) = m - 1 /\ Agree(frames, gs, m - 1) /\ m - 1 \in 0..(m - 1)
  BY <1>3, <1>4, CutFrames
<1>6. Mirror(frames, Front(iter), m - 1) /\ frames[m].phase = "body"
  BY <1>1, <1>3, <1>4, MirrorFront, MirrorLast
<1>7. IsCell(frames, cell, m - 1)
  BY <1>2, <1>3, <1>4 DEF IsCell
<1>8. Goal(frames, d, m - 1) /\ Keeps(frames, d, m - 1)
  BY <1>2, <1>3, <1>4 DEF Goal, Keeps
<1>9. /\ Mirror(gs, Front(iter), m - 1) /\ IsCell(gs, cell, m - 1)
      /\ Goal(gs, d, m - 1) /\ Keeps(gs, d, m - 1)
  BY <1>5, <1>6, <1>7, <1>8, Local
<1>10. f \in Frame /\ f.phase = "jumped" /\ f.kind = "protect" /\ f.then.to = d
  <2>1. d \in Places
    BY <1>3 DEF Goal, Places
  <2>2. ToFrame(d) \in Exits /\ ToFrame(d).to = d
    BY <2>1 DEF ToFrame, Exits
  <2>3. QED
    BY <1>1, <1>2, <1>4, <2>2, CleaningTyped
<1>11. FramesInv(hs) /\ Len(hs) = m /\ Mirror(hs, Front(iter), m) /\ IsCell(hs, cell, m)
  <2>1. Put(gs, f, hs)
    BY <1>1, <1>10 DEF Put
  <2>2. f.phase # "body" /\ f.phase # "caught"
    BY <1>10
  <2>3. QED
    BY <1>4, <1>5, <1>9, <1>10, <2>1, <2>2, PutCleanup
<1>12. CatchInv(hs, caught')
  <2>1. d <= m /\ d \in 1..Len(frames) /\ frames[m].phase # "caught"
    BY <1>3, <1>6 DEF Goal
  <2>2. CatchInv(gs, IF \E i \in 1..m : frames[i].phase = "caught" THEN caught ELSE <<>>)
    BY <1>3, <1>4, <2>1, CatchesByJump
  <2>3. hs \in Seq(Frame) /\ gs \in Seq(Frame) /\ hs[m] = f /\ \A i \in 1..(m - 1) : hs[i] = gs[i]
    BY <1>1, <1>4, <1>5, <1>10 DEF FramesInv
  <2>4. Stay(gs, hs, m - 1)
    BY <1>4, <1>5, <1>10, <1>11, <2>3 DEF Stay
  <2>5. QED
    BY <1>2, <2>2, <2>4, CatchesStay
<1>13. iter' \in Envs /\ unwindDest' \in Places \cup {0}
  <2>1. 0 \in 0..MaxFrames /\ <<>> \in [1..0 -> Places]
    BY UnwindAssumption
  <2>2. QED
    BY <1>2, <2>1 DEF Envs
<1>14. QED
  BY <1>2, <1>3, <1>11, <1>12, <1>13, RunAgain

-----------------------------------------------------------------------------
\* What is known of the innermost frame when an exception is in flight.
LEMMA InFlight ==
  ASSUME UnwindIInv, mode = "throw", NEW n, n = Len(frames), n > 0
  PROVE  /\ n \in 1..MaxFrames /\ MaxFrames \in Nat /\ n # 0 /\ frames \in Seq(Frame)
         /\ FramesInv(frames) /\ CatchInv(frames, caught) /\ FrameInv(frames, n)
         /\ frames[n] \in Frame
         /\ Mirror(frames, dynEnvStack, n) /\ IsCell(frames, cell, n)
         /\ Reaches(frames, thrown, n) /\ thrown \in Exits
         /\ iter \in Envs /\ unwindDest \in Places \cup {0}
<1>1. Reaches(frames, thrown, n)
  BY DEF UnwindIInv, ThrowInv
<1>2. Top > 0
  BY DEF Top
<1>3. QED
  BY <1>1, <1>2, TopFrame, UnwindAssumption DEF Top, Here, UnwindIInv, VarsInv, EnvInv

\* The frame that the exception is for catches it,
LEMMA CatchKeeps ==
  ASSUME UnwindIInv, Catch
  PROVE  UnwindIInv'
<1>1. PICK n, gs : n = Len(frames) /\ gs = SubSeq(frames, 1, n - 1)
  OBVIOUS
<1>2. /\ mode = "throw" /\ n > 0 /\ frames[n].phase = "body" /\ frames[n].kind # "bind"
      /\ mode' = "run" /\ thrown' = Nowhere
      /\ UNCHANGED <<cell, iter, unwindDest, caught>>
  BY <1>1 DEF Catch, Catches, Here, Top
<1>3. \/ dynEnvStack' = Append(frames[n].outer, n) /\ frames' = frames
      \/ dynEnvStack' = frames[n].outer /\ frames' = gs
  BY <1>1 DEF Catch, Here, Top, Upto
<1>4. /\ n \in 1..MaxFrames /\ MaxFrames \in Nat /\ n # 0 /\ frames \in Seq(Frame)
      /\ FramesInv(frames) /\ CatchInv(frames, caught) /\ FrameInv(frames, n)
      /\ IsCell(frames, cell, n) /\ iter \in Envs /\ unwindDest \in Places \cup {0}
  BY <1>1, <1>2, InFlight
<1>5. n - 1 \in Nat /\ (n - 1) + 1 = n /\ Cut(frames, n - 1, gs)
  BY <1>1, <1>4 DEF Cut
<1>6. CASE dynEnvStack' = Append(frames[n].outer, n) /\ frames' = frames
  <2>1. Mirror(frames, frames[n].outer, n - 1) /\ Agree(frames, frames, n - 1)
    BY <1>2, <1>4, <1>5 DEF FrameInv, Agree
  <2>2. Mirror(frames, Append(frames[n].outer, n), n)
    BY <1>2, <1>5, <2>1, MirrorPush
  <2>3. QED
    BY <1>1, <1>2, <1>4, <1>6, <2>2, RunAgain
<1>7. CASE dynEnvStack' = frames[n].outer /\ frames' = gs
  <2>1. FramesInv(gs) /\ Len(gs) = n - 1 /\ Mirror(gs, frames[n].outer, n - 1) /\ IsCell(gs, cell, n - 1)
    BY <1>1, <1>2, <1>4, <1>5, LeaveBody
  <2>2. gs \in Seq(Frame) /\ \A i \in 1..(n - 1) : gs[i] = frames[i]
    BY <1>4, <1>5, CutFrames DEF FramesInv
  <2>3. Stay(frames, gs, n - 1)
    BY <1>1, <1>2, <1>4, <1>5, <2>1, <2>2 DEF Stay
  <2>4. CatchInv(gs, caught)
    BY <1>4, <2>3, CatchesStay
  <2>5. QED
    BY <1>2, <1>4, <1>7, <2>1, <2>4, RunAgain
<1>8. QED
  BY <1>3, <1>6, <1>7

\* an unwind-protect catches any,
LEMMA CatchAllKeeps ==
  ASSUME UnwindIInv, CatchAll
  PROVE  UnwindIInv'
<1>1. PICK n, gs, f, hs : /\ n = Len(frames) /\ gs = SubSeq(frames, 1, n - 1)
                          /\ f = Cleaning(frames[n], "caught", thrown)
                          /\ hs = Append(gs, f)
  OBVIOUS
<1>2. /\ mode = "throw" /\ n > 0 /\ frames[n].kind = "protect" /\ frames[n].phase = "body"
      /\ dynEnvStack' = frames[n].outer /\ frames' = hs
      /\ caught' = Append(caught, thrown)
      /\ mode' = "run" /\ thrown' = Nowhere
      /\ UNCHANGED <<cell, iter, unwindDest>>
  BY <1>1 DEF CatchAll, Here, Top, Upto
<1>3. /\ n \in 1..MaxFrames /\ MaxFrames \in Nat /\ n # 0 /\ frames \in Seq(Frame)
      /\ FramesInv(frames) /\ CatchInv(frames, caught) /\ FrameInv(frames, n) /\ frames[n] \in Frame
      /\ IsCell(frames, cell, n) /\ iter \in Envs /\ unwindDest \in Places \cup {0}
      /\ Reaches(frames, thrown, n) /\ thrown \in Exits
  BY <1>1, <1>2, InFlight
<1>4. n - 1 \in Nat /\ (n - 1) + 1 = n /\ n - 1 < MaxFrames /\ Cut(frames, n - 1, gs)
  BY <1>1, <1>3 DEF Cut
<1>5. FramesInv(gs) /\ Len(gs) = n - 1 /\ Mirror(gs, frames[n].outer, n - 1) /\ IsCell(gs, cell, n - 1)
  BY <1>1, <1>2, <1>3, <1>4, LeaveBody
<1>6. f \in Frame /\ f.phase = "caught" /\ f.kind = "protect" /\ f.then = thrown
  BY <1>1, <1>2, <1>3, CleaningTyped
<1>7. Reaches(gs, thrown, n - 1)
  <2>1. Reaches(frames, thrown, n - 1)
    <3>1. ASSUME ~Abandons PROVE Received(frames, thrown, n - 1)
      <4>1. PICK d \in 1..n : frames[d].phase = "body" /\ Receives(frames, d, thrown)
        BY <1>3, <3>1 DEF Reaches, Received
      <4>2. d # n
        BY <1>2, <4>1 DEF Receives
      <4>3. d \in 1..(n - 1)
        BY <1>3, <4>1, <4>2
      <4>4. QED
        BY <4>1, <4>3 DEF Received
    <3>2. QED
      BY <1>3, <3>1 DEF Reaches
  <2>2. Agree(frames, gs, n - 1) /\ n - 1 \in 0..(n - 1)
    BY <1>3, <1>4, CutFrames
  <2>3. QED
    BY <2>1, <2>2, Local
<1>8. FramesInv(hs) /\ Len(hs) = n /\ Mirror(hs, frames[n].outer, n) /\ IsCell(hs, cell, n)
  <2>1. Put(gs, f, hs)
    BY <1>1, <1>6 DEF Put
  <2>2. f.phase # "body" /\ f.phase # "jumped"
    BY <1>6
  <2>3. QED
    BY <1>4, <1>5, <1>6, <1>7, <2>1, <2>2, PutCleanup
<1>9. CatchInv(hs, caught')
  <2>1. gs \in Seq(Frame) /\ \A i \in 1..(n - 1) : gs[i] = frames[i]
    BY <1>3, <1>4, CutFrames DEF FramesInv
  <2>2. Stay(frames, gs, n - 1)
    BY <1>1, <1>2, <1>3, <1>4, <1>5, <2>1 DEF Stay
  <2>3. CatchInv(gs, caught)
    BY <1>3, <2>2, CatchesStay
  <2>4. QED
    BY <1>1, <1>2, <1>3, <1>6, <2>1, <2>3, CatchEntered DEF Reaches
<1>10. QED
  BY <1>2, <1>3, <1>8, <1>9, RunAgain

\* and it leaves the others.
LEMMA PassFrameKeeps ==
  ASSUME UnwindIInv, PassFrame
  PROVE  UnwindIInv'
<1>1. PICK n, gs : n = Len(frames) /\ gs = SubSeq(frames, 1, n - 1)
  OBVIOUS
<1>2. /\ mode = "throw" /\ n > 0 /\ ~Catches(frames[n]) /\ frames' = gs
      /\ caught' = IF frames[n].phase = "caught" THEN Front(caught) ELSE caught
      /\ UNCHANGED <<mode, iter, unwindDest, thrown>>
  BY <1>1 DEF PassFrame, Here, Top, Upto
<1>3. IF frames[n].phase = "body"
      THEN /\ dynEnvStack' = frames[n].outer
           /\ cell' = IF frames[n].kind = "bind" THEN frames[n].old ELSE cell
      ELSE UNCHANGED <<dynEnvStack, cell>>
  BY <1>1 DEF PassFrame, Here, Top
<1>4. /\ n \in 1..MaxFrames /\ MaxFrames \in Nat /\ n # 0 /\ frames \in Seq(Frame)
      /\ FramesInv(frames) /\ CatchInv(frames, caught)
      /\ Mirror(frames, dynEnvStack, n) /\ IsCell(frames, cell, n)
      /\ Reaches(frames, thrown, n) /\ thrown \in Exits
  BY <1>1, <1>2, InFlight
<1>5. n - 1 \in Nat /\ Cut(frames, n - 1, gs)
  BY <1>1, <1>4 DEF Cut
<1>6. FramesInv(gs) /\ Len(gs) = n - 1 /\ Mirror(gs, dynEnvStack', n - 1) /\ IsCell(gs, cell', n - 1)
  <2>1. CASE frames[n].phase = "body"
    BY <1>1, <1>3, <1>4, <1>5, <2>1, LeaveBody
  <2>2. CASE frames[n].phase # "body"
    <3>1. FramesInv(gs) /\ Len(gs) = n - 1 /\ Mirror(gs, dynEnvStack, n - 1) /\ IsCell(gs, cell, n - 1)
      BY <1>1, <1>4, <1>5, <2>2, LeaveCleanup
    <3>2. QED
      BY <1>3, <2>2, <3>1
  <2>3. QED
    BY <2>1, <2>2
<1>7. Reaches(gs, thrown, n - 1)
  <2>1. Reaches(frames, thrown, n - 1)
    <3>1. ASSUME ~Abandons PROVE Received(frames, thrown, n - 1)
      <4>1. PICK d \in 1..n : frames[d].phase = "body" /\ Receives(frames, d, thrown)
        BY <1>4, <3>1 DEF Reaches, Received
      <4>2. d # n
        BY <1>1, <1>2, <4>1 DEF Receives, Catches, Top
      <4>3. d \in 1..(n - 1)
        BY <1>4, <4>1, <4>2
      <4>4. QED
        BY <4>1, <4>3 DEF Received
    <3>2. QED
      BY <1>4, <3>1 DEF Reaches
  <2>2. Agree(frames, gs, n - 1) /\ n - 1 \in 0..(n - 1)
    BY <1>4, <1>5, CutFrames
  <2>3. QED
    BY <2>1, <2>2, Local
<1>8. CatchInv(gs, caught')
  <2>1. CASE frames[n].phase = "caught"
    <3>1. frames # <<>>
      BY <1>1, <1>4
    <3>2. QED
      BY <1>1, <1>2, <1>4, <2>1, <3>1, CatchLeft
  <2>2. CASE frames[n].phase # "caught"
    <3>1. gs \in Seq(Frame) /\ \A i \in 1..(n - 1) : gs[i] = frames[i]
      BY <1>4, <1>5, CutFrames DEF FramesInv
    <3>2. Stay(frames, gs, n - 1)
      BY <1>1, <1>4, <1>5, <1>6, <2>2, <3>1 DEF Stay
    <3>3. QED
      BY <1>2, <1>4, <2>2, <3>2, CatchesStay
  <2>3. QED
    BY <2>1, <2>2
<1>9. QED
  BY <1>2, <1>6, <1>7, <1>8, ThrowOn

-----------------------------------------------------------------------------
\* At first nothing runs.
LEMMA InitUnwind == Init => UnwindIInv
<1> SUFFICES ASSUME Init PROVE UnwindIInv
  OBVIOUS
<1>1. frames = <<>> /\ Len(frames) = 0 /\ frames \in Seq(Frame) /\ MaxFrames \in Nat
  BY EmptySeq, UnwindAssumption DEF Init
<1>2. FramesInv(frames)
  BY <1>1 DEF FramesInv
<1>3. CatchInv(frames, caught)
  <2>1. \A j \in 1..Len(frames) : frames[j].phase # "caught"
    BY <1>1
  <2>2. CatchInv(frames, <<>>)
    BY <1>1, <2>1, NoCatches
  <2>3. caught = <<>>
    BY DEF Init
  <2>4. QED
    BY <2>2, <2>3
<1>4. <<>> \in Seq(1..0) /\ Len(<<>>) = 0
  BY EmptySeq
<1>5. Mirror(frames, dynEnvStack, 0) /\ IsCell(frames, cell, 0)
  BY <1>4 DEF Init, Mirror, IsCell
<1>6. <<>> \in Envs /\ Nowhere \in Exits
  <2>1. 0 \in 0..MaxFrames /\ <<>> \in [1..0 -> Places]
    BY <1>1
  <2>2. QED
    BY <2>1 DEF Envs, Nowhere, Exits
<1>7. VarsInv
  BY <1>1, <1>4, <1>6 DEF Init, VarsInv
<1>8. QED
  BY <1>1, <1>2, <1>3, <1>5, <1>7 DEF Init, UnwindIInv, EnvInv, WalkInv, ThrowInv

\* Every step keeps the invariant.
LEMMA NextUnwind == UnwindIInv /\ [Next]_vars => UnwindIInv'
<1> SUFFICES ASSUME UnwindIInv, [Next]_vars PROVE UnwindIInv'
  OBVIOUS
<1>1. CASE UNCHANGED vars
  BY <1>1 DEF vars, UnwindIInv, VarsInv, EnvInv, WalkInv, ThrowInv
<1>2. ASSUME NEW k \in Kinds \ {"catch"}, Enter(k, NoTag) PROVE UnwindIInv'
  BY <1>2, EnterKeeps
<1>3. ASSUME NEW t \in Tags, Enter("catch", t) PROVE UnwindIInv'
  BY <1>3, EnterKeeps DEF Kinds
<1>4. ASSUME NEW t \in Tags, Throw(t) PROVE UnwindIInv'
  BY <1>4, ThrowKeeps
<1>5. CASE Return \/ EndReturned \/ EndJumped \/ EndCaught
  BY <1>5, ReturnKeeps, EndReturnedKeeps, EndJumpedKeeps, EndCaughtKeeps
<1>6. ASSUME NEW d \in 1..Top, UnwindTo(d) PROVE UnwindIInv'
  BY <1>6, UnwindToKeeps
<1>7. CASE Travel
  BY <1>7, JumpKeeps, JumpToCleanupKeeps, WalkOnKeeps, CatchKeeps, CatchAllKeeps, PassFrameKeeps
  DEF Travel
<1>8. QED
  BY <1>1, <1>2, <1>3, <1>4, <1>5, <1>6, <1>7 DEF Next

\* The invariant holds in every state.
THEOREM Invariance == Spec => []UnwindIInv
BY InitUnwind, NextUnwind, PTL DEF Spec

\* Every frame, environment and exception is what it should be, at any depth.
THEOREM TypeCorrect == Spec => []TypeOK
<1>1. UnwindIInv => TypeOK
  <2> SUFFICES ASSUME UnwindIInv PROVE TypeOK
    OBVIOUS
  <2>1. Top <= MaxFrames /\ \A i \in 1..Top : frames[i] \in Frame /\ FrameInv(frames, i)
    BY DEF UnwindIInv, FramesInv, Top
  <2>2. \A i \in 1..Top : FrameOK(frames[i])
    BY <2>1 DEF FrameOK, Frame, FrameInv
  <2>3. \A i \in 1..Len(caught) : caught[i] \in Exits
    BY DEF UnwindIInv, CatchInv, CatchesAre
  <2>4. QED
    BY <2>1, <2>2, <2>3 DEF UnwindIInv, VarsInv, TypeOK, Top
<1>2. QED
  BY <1>1, Invariance, PTL

\* While code runs, the environments are those of the frames, whichever unwinder
\* brought the thread where it is.
THEOREM EnvironmentsMirrorFrames == Spec => []EnvMirrorsFrames
<1>1. UnwindIInv => EnvMirrorsFrames
  <2> SUFFICES ASSUME UnwindIInv, Running PROVE /\ \A i, j \in 1..Len(dynEnvStack) :
                                                       i < j => dynEnvStack[i] < dynEnvStack[j]
                                                /\ \A j \in 1..Top : InExtent(j) <=> frames[j].phase = "body"
    BY DEF EnvMirrorsFrames
  <2>1. Mirror(frames, dynEnvStack, Top)
    BY DEF UnwindIInv, EnvInv, Running, Top
  <2>2. QED
    BY <2>1 DEF Mirror, InExtent
<1>2. QED
  BY <1>1, Invariance, PTL

-----------------------------------------------------------------------------
\* Bindings.

\* The innermost frame that an exit has not left.
Reached == IF mode = "walk" THEN Last(iter) ELSE Top

\* The special variable was set by the innermost binding that is in force, or by
\* none: a walk has undone those it has passed and no other.
InnermostBinding == /\ cell # 0 => cell \in 1..Reached /\ Kind(cell) = "bind"
                    /\ \A i \in 1..Reached : Kind(i) = "bind" => i <= cell

\* Every binding that is left is undone once, whether its frame returns, is walked
\* over or is unwound: the value is that of the innermost binding.
THEOREM BindingsAreUndone == Spec => []InnermostBinding
<1>1. UnwindIInv => InnermostBinding
  <2> SUFFICES ASSUME UnwindIInv PROVE InnermostBinding
    OBVIOUS
  <2>1. IsCell(frames, cell, Reached) /\ Reached \in Nat
    BY DEF UnwindIInv, FramesInv, EnvInv, WalkInv, Reached, Top
  <2>2. QED
    BY <2>1 DEF IsCell, InnermostBinding, Kind
<1>2. QED
  BY <1>1, Invariance, PTL

-----------------------------------------------------------------------------
\* Exits.

\* The frame at d is in its body and receives the exit x.
Receiver(d, x) == frames[d].phase = "body" /\ Receives(frames, d, x)

\* A walk has its destination before it, and so has one that waits for a cleanup in
\* frame i: below that frame.
WalksArrive ==
  /\ mode = "walk" => \E i \in 1..Len(iter) :
                        /\ iter[i] = unwindDest /\ unwindDest \in 1..Top
                        /\ frames[unwindDest].phase = "body"
                        /\ Kind(unwindDest) \in {"block", "tagbody", "catch"}
  /\ \A i \in 1..Top : frames[i].phase = "jumped" =>
       \E d \in 1..(i - 1) : /\ frames[d].phase = "body" /\ d = frames[i].then.to
                             /\ Kind(d) \in {"block", "tagbody", "catch"}

\* An exception has a frame that catches it, and so has one that waits.
ExceptionsArrive ==
  /\ mode = "throw" => \E d \in 1..Top : Receiver(d, thrown)
  /\ \A i \in 1..Top : frames[i].phase = "caught" => \E d \in 1..(i - 1) : Receiver(d, frames[i].then)

\* No walk loses the place it goes to, whatever the program: what it passes, the
\* cleanups it runs and the exits in them never take away the frame that is to
\* receive it.
THEOREM WalksCanArrive == Spec => []WalksArrive
<1>1. UnwindIInv => WalksArrive
  <2> SUFFICES ASSUME UnwindIInv PROVE WalksArrive
    OBVIOUS
  <2>1. ASSUME mode = "walk"
        PROVE  \E i \in 1..Len(iter) : /\ iter[i] = unwindDest /\ unwindDest \in 1..Top
                                       /\ frames[unwindDest].phase = "body"
                                       /\ Kind(unwindDest) \in {"block", "tagbody", "catch"}
    <3>1. /\ Mirror(frames, iter, Last(iter)) /\ Goal(frames, unwindDest, Last(iter))
          /\ Last(iter) \in 1..Top
      BY <2>1 DEF UnwindIInv, WalkInv, Top
    <3>2. /\ unwindDest \in 1..Last(iter) /\ frames[unwindDest].phase = "body"
          /\ Kind(unwindDest) \in {"block", "tagbody", "catch"}
      BY <3>1 DEF Goal, Kind
    <3>3. PICK i \in 1..Len(iter) : iter[i] = unwindDest
      BY <3>1, <3>2 DEF Mirror
    <3>4. unwindDest \in 1..Top
      BY <3>1, <3>2 DEF UnwindIInv, FramesInv, Top
    <3>5. QED
      BY <3>2, <3>3, <3>4
  <2>2. ASSUME NEW i \in 1..Top, frames[i].phase = "jumped"
        PROVE  \E d \in 1..(i - 1) : /\ frames[d].phase = "body" /\ d = frames[i].then.to
                                     /\ Kind(d) \in {"block", "tagbody", "catch"}
    <3>1. FrameInv(frames, i)
      BY DEF UnwindIInv, FramesInv, Top
    <3>2. QED
      BY <2>2, <3>1 DEF FrameInv, Goal, Kind
  <2>3. QED
    BY <2>1, <2>2 DEF WalksArrive
<1>2. QED
  BY <1>1, Invariance, PTL

\* Nor does an exception, of a program that does not longjmp out of one catch block
\* inside another.
THEOREM ExceptionsCanArrive == ~Abandons => (Spec => []ExceptionsArrive)
<1> SUFFICES ASSUME ~Abandons PROVE Spec => []ExceptionsArrive
  OBVIOUS
<1>1. UnwindIInv => ExceptionsArrive
  <2> SUFFICES ASSUME UnwindIInv PROVE ExceptionsArrive
    OBVIOUS
  <2>1. mode = "throw" => \E d \in 1..Top : Receiver(d, thrown)
    BY DEF UnwindIInv, ThrowInv, Reaches, Received, Receiver, Top
  <2>2. ASSUME NEW i \in 1..Top, frames[i].phase = "caught"
        PROVE  \E d \in 1..(i - 1) : Receiver(d, frames[i].then)
    <3>1. FrameInv(frames, i)
      BY DEF UnwindIInv, FramesInv, Top
    <3>2. QED
      BY <2>2, <3>1 DEF FrameInv, Reaches, Received, Receiver
  <2>3. QED
    BY <2>1, <2>2 DEF ExceptionsArrive
<1>2. QED
  BY <1>1, Invariance, PTL

\* In such a program the exception that a cleanup interrupted is the one that goes
\* on, whatever exits there were in the cleanup.
THEOREM CleanupsRethrow == ~Abandons => (Spec => RethrowsCaught)
<1> SUFFICES ASSUME ~Abandons PROVE Spec => RethrowsCaught
  OBVIOUS
<1>1. ASSUME UnwindIInv, EndCaught PROVE thrown' = Here.then
  <2>1. /\ Top > 0 /\ frames[Top].phase = "caught" /\ thrown' = Last(caught)
    BY <1>1 DEF EndCaught, Here
  <2>2. frames \in Seq(Frame) /\ frames # <<>> /\ CatchInv(frames, caught)
    BY <1>1, <2>1, TopFrame DEF Top
  <2>3. Last(caught) = frames[Top].then
    BY <2>1, <2>2, CatchLeft DEF Top
  <2>4. QED
    BY <2>1, <2>3 DEF Here
<1>2. UnwindIInv /\ [Next]_vars => [EndCaught => thrown' = Here.then]_vars
  BY <1>1
<1>3. QED
  BY <1>2, Invariance, PTL DEF Spec, RethrowsCaught

\* A step of an exit that neither arrives nor starts a cleanup makes it shorter.
Shortens == ~Running /\ ~Running' =>
  /\ mode' = mode
  /\ mode = "walk" => /\ Len(iter') = Len(iter) - 1
                      /\ UNCHANGED <<frames, unwindDest>>
  /\ mode = "throw" => Len(frames') = Len(frames) - 1 /\ UNCHANGED thrown

\* An exit does not go on for ever: it keeps where it goes, and every step passes
\* an environment or a frame.
THEOREM ExitsShorten == Spec => [][Shortens]_vars
<1>1. ASSUME UnwindIInv, [Next]_vars, ~Running, ~Running', vars' # vars PROVE Shortens
  <2>1. CASE WalkOn
    <3>1. iter \in Seq(1..Last(iter)) /\ iter # <<>>
      BY <1>1, <2>1 DEF WalkOn, UnwindIInv, WalkInv, Mirror
    <3>2. Len(Front(iter)) = Len(iter) - 1
      BY <3>1, FrontOf
    <3>3. mode = "walk" /\ iter' = Front(iter) /\ UNCHANGED <<frames, mode, unwindDest>>
      BY <2>1 DEF WalkOn
    <3>4. QED
      BY <3>2, <3>3 DEF Shortens
  <2>2. CASE PassFrame
    <3>1. /\ mode = "throw" /\ Len(frames) > 0
          /\ frames' = SubSeq(frames, 1, Len(frames) - 1) /\ UNCHANGED <<mode, thrown>>
      BY <2>2 DEF PassFrame, Upto, Top
    <3>2. frames \in Seq(Frame) /\ Len(frames) # 0
      BY <1>1, <3>1, InFlight
    <3>3. Len(frames') = Len(frames) - 1
      <4>1. frames # <<>>
        BY <3>2
      <4>2. Len(Front(frames)) = Len(frames) - 1
        BY <3>2, <4>1, FrontOf
      <4>3. QED
        BY <3>1, <4>2 DEF Front
    <3>4. QED
      BY <3>1, <3>3 DEF Shortens
  <2>3. CASE Jump \/ JumpToCleanup \/ Catch \/ CatchAll
    BY <1>1, <2>3 DEF Jump, JumpToCleanup, Catch, CatchAll, Running
  <2>4. QED
    BY <1>1, <2>1, <2>2, <2>3
    DEF Next, Travel, Enter, Return, EndReturned, EndJumped, EndCaught, UnwindTo, Throw, Running
<1>2. UnwindIInv /\ [Next]_vars => [Shortens]_vars
  BY <1>1 DEF Shortens, Running
<1>3. QED
  BY <1>2, Invariance, PTL DEF Spec
=============================================================================
