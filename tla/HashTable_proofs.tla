-------------------------- MODULE HashTable_proofs --------------------------
(***************************************************************************)
(* What is proved about HashTable, for every set of keys, hash, size and   *)
(* rate of growth: that a search finds each key in its one place, that     *)
(* maphash calls its function once for a key that stays, and that the      *)
(* table implements Dictionary.                                            *)
(*                                                                         *)
(* The invariant has three parts.  TableIInv is about the table: each key  *)
(* is there once and reachable from its home, and the threshold is kept,   *)
(* which leaves a free entry.  StackIInv is about the rehashes under way:  *)
(* what they still have to move is nowhere else.  MapIInv says of each     *)
(* maphash what it has seen of a key, by where the key is in its vector.   *)
(***************************************************************************)
EXTENDS HashTable, FiniteSetTheorems, FunctionTheorems, SequenceTheorems, WellFoundedInduction, TLAPS

Vectors(S) == UNION {Vector(n, S) : n \in Nat}
Frames == [slot : Vectors(AnyKey), value : Vectors(AnyValue), at : Nat, end : Nat]

\* An old vector of a rehash under way.
FrameOK(f) == /\ f.at <= f.end
              /\ f.slot \in Vector(f.end, AnyKey) /\ f.value \in Vector(f.end, AnyValue)
Stack(m) == m \in Seq(Frames) /\ \A d \in 1..Len(m) : FrameOK(m[d])

\* The entries of an old vector that are still to move.
ToMove(f) == f.at..(f.end - 1)

\* OnePlace, by where the two places are.
InStack(m) == \A d, e \in 1..Len(m) : \A i \in ToMove(m[d]), j \in ToMove(m[e]) :
                m[d].slot[i] \in Keys /\ m[d].slot[i] = m[e].slot[j] => d = e /\ i = j
Across(m) == \A d \in 1..Len(m) : \A i \in ToMove(m[d]), j \in Indices(size) :
               slot[j] \in Keys => slot[j] # m[d].slot[i]
InTable == \A i, j \in Indices(size) : slot[i] \in Keys /\ slot[i] = slot[j] => i = j

\* k is no key that is still to move.
NotIn(k, m) == \A d \in 1..Len(m) : \A i \in ToMove(m[d]) : m[d].slot[i] # k

TableTyped == /\ size \in Nat \ {0} /\ count \in Nat
              /\ slot \in Vector(size, AnyKey) /\ value \in Vector(size, AnyValue)

\* The threshold is not passed.
Threshold == count * Den <= Num * size

TableIInv == TableTyped /\ InTable /\ Reachable /\ CountInv /\ Threshold
StackIInv == Stack(moving) /\ InStack(moving) /\ Across(moving)

-----------------------------------------------------------------------------
\* The threshold leaves an entry free.
LEMMA Room == ASSUME NEW c \in Nat, NEW n \in Nat \ {0}, c * Den <= Num * n
              PROVE  c < n
<1>1. Num \in Nat /\ Den \in Nat /\ Num < Den
  BY HTAssumption
<1>2. SUFFICES ASSUME n <= c PROVE FALSE
  OBVIOUS
<1>3. n * Den <= c * Den
  BY <1>1, <1>2
<1>4. Num * n < n * Den
  BY <1>1
<1>5. QED
  BY <1>1, <1>3, <1>4

\* With a key less the threshold is still kept.
LEMMA NotFullThen == ASSUME NEW c \in Nat, NEW n \in Nat \ {0}, c * Den <= Num * n
                     PROVE  c > 0 => (c - 1) * Den <= Num * n
<1>1. Num \in Nat /\ Den \in Nat
  BY HTAssumption
<1>2. c * Den - Den = (c - 1) * Den
  BY <1>1
<1>3. QED
  BY <1>1, <1>2

\* An expanded table has entries.
LEMMA GrownIsPositive == ASSUME NEW n \in Nat PROVE Grown(n) \in Nat \ {0} /\ Grown(n) >= MinSize
<1>1. GrowNum \in Nat /\ GrowDen \in Nat \ {0} /\ GrowBy \in Nat /\ MinSize \in Nat \ {0}
  BY HTAssumption
<1>2. n * GrowNum \in Nat
  BY <1>1
<1>3. (n * GrowNum) \div GrowDen \in Nat
  BY <1>1, <1>2
<1>4. QED
  BY <1>1, <1>3 DEF Grown

\* A mark is not taken for a key.
LEMMA KeysAreNoMarks == Keys \cap Marks = {}
BY HTAssumption DEF Marks

\* The entries of the table with a key, as a finite set.
Used == {i \in Indices(size) : slot[i] \in Keys}

\* The entries with a key can be counted.
LEMMA UsedFinite == ASSUME TableTyped
                    PROVE  /\ IsFiniteSet(Used) /\ Cardinality(Used) \in Nat
                           /\ Cardinality(Indices(size)) = size
<1>1. size - 1 \in Int /\ size \in Nat \ {0}
  BY DEF TableTyped
<1>2. /\ IsFiniteSet(0..(size - 1))
      /\ Cardinality(0..(size - 1)) = IF 0 > size - 1 THEN 0 ELSE size - 1 - 0 + 1
  BY <1>1, FS_Interval
<1>3. Used \in SUBSET (0..(size - 1))
  BY DEF Used, Indices
<1>4. IsFiniteSet(Used)
  BY <1>2, <1>3, FS_Subset
<1>5. QED
  BY <1>1, <1>2, <1>4, FS_CardinalityType DEF Indices

\* A new key finds a free entry: "there should always be room".
LEMMA RoomInv == ASSUME TableIInv PROVE HasRoom
<1> SUFFICES ASSUME ~HasRoom PROVE FALSE
  OBVIOUS
<1>1. Used = Indices(size)
  BY DEF HasRoom, Used
<1>2. count = size
  BY <1>1, UsedFinite DEF TableIInv, CountInv, Used
<1>3. count < size
  BY Room DEF TableIInv, TableTyped, Threshold
<1>4. QED
  BY <1>2, <1>3 DEF TableIInv, TableTyped

\* A search finds every key that is there.
LEMMA Search == ASSUME TableIInv, NEW k \in Keys, NEW i \in Indices(size), slot[i] = k
                PROVE  i \in Found(k)
<1>1. \A j \in Way(Home(k, size), i, size) : j \in Indices(size) /\ j # i
  BY DEF Way, Indices
<1>2. \A j \in Way(Home(k, size), i, size) : slot[j] # NoKey
  BY DEF TableIInv, Reachable
<1>3. \A j \in Way(Home(k, size), i, size) : slot[j] # k
  BY <1>1 DEF TableIInv, InTable
<1>4. QED
  BY <1>2, <1>3 DEF Found

-----------------------------------------------------------------------------
\* A vector that a rehash takes away is one it can read.
LEMMA FrameIn ==
  ASSUME NEW n \in Nat, NEW a \in 0..n, NEW s \in Vector(n, AnyKey), NEW w \in Vector(n, AnyValue)
  PROVE  /\ [slot |-> s, value |-> w, at |-> a, end |-> n] \in Frames
         /\ FrameOK([slot |-> s, value |-> w, at |-> a, end |-> n])
<1>1. s \in Vectors(AnyKey) /\ w \in Vectors(AnyValue)
  BY DEF Vectors
<1>2. QED
  BY <1>1 DEF Frames, FrameOK

\* A rehash started within another leaves what the others still have to move.
LEMMA Pushed ==
  ASSUME NEW m, Stack(m), NEW f \in Frames, FrameOK(f)
  PROVE  /\ Stack(Append(m, f)) /\ Len(m) \in Nat /\ Len(Append(m, f)) = Len(m) + 1
         /\ Append(m, f)[Len(m) + 1] = f
         /\ \A d \in 1..Len(m) : Append(m, f)[d] = m[d]
<1>1. m \in Seq(Frames)
  BY DEF Stack
<1>2. /\ Append(m, f) \in Seq(Frames) /\ Len(m) \in Nat /\ Len(Append(m, f)) = Len(m) + 1
      /\ Append(m, f)[Len(m) + 1] = f
      /\ \A d \in 1..Len(m) : Append(m, f)[d] = m[d]
  BY <1>1
<1>3. QED
  BY <1>2 DEF Stack

\* A table without entries.
LEMMA BlankTable ==
  ASSUME NEW n \in Nat \ {0},
         slot' = Blank(n) /\ value' = NoValues(n) /\ size' = n /\ count' = 0
  PROVE  TableIInv' /\ \A i \in Indices(size') : slot'[i] = NoKey
<1>1. \A i \in Indices(n) : slot'[i] = NoKey
  BY DEF Blank
<1>2. TableTyped'
  BY DEF TableTyped, Blank, NoValues, Vector, AnyKey, AnyValue, Marks
<1>3. InTable' /\ Reachable' /\ Threshold'
  <2>1. 0 * Den <= Num * n
    BY HTAssumption
  <2>2. QED
    BY <1>1, <2>1, KeysAreNoMarks DEF InTable, Reachable, Threshold, Marks
<1>4. CountInv'
  <2>1. {i \in Indices(size') : slot'[i] \in Keys} = {}
    BY <1>1, KeysAreNoMarks DEF Marks
  <2>2. QED
    BY <2>1, FS_EmptySet DEF CountInv
<1>5. QED
  BY <1>1, <1>2, <1>3, <1>4 DEF TableIInv

\* A new table, with the vector s, w to move.
LEMMA StartRehashStep ==
  ASSUME TableIInv, NEW s \in Vector(size, AnyKey), NEW w \in Vector(size, AnyValue),
         \A i, j \in Indices(size) : s[i] \in Keys /\ s[i] = s[j] => i = j,
         NEW n \in Nat \ {0}, NEW rest, Stack(rest), InStack(rest),
         \A i \in Indices(size) : s[i] \in Keys => NotIn(s[i], rest),
         StartRehash(s, w, n, rest)
  PROVE  TableIInv' /\ StackIInv'
<1>1. /\ slot' = Blank(n) /\ value' = NoValues(n) /\ size' = n /\ count' = 0
      /\ moving' = Append(rest, [slot |-> s, value |-> w, at |-> 0, end |-> size])
  BY DEF StartRehash
<1>2. size \in Nat \ {0}
  BY DEF TableIInv, TableTyped
<1>3. \A i \in Indices(n) : slot'[i] = NoKey
  BY <1>1 DEF Blank
<1>4. TableIInv'
  BY <1>1, BlankTable
<1> DEFINE f == [slot |-> s, value |-> w, at |-> 0, end |-> size]
<1>7. f \in Frames /\ FrameOK(f)
  BY <1>2, FrameIn
<1>8. /\ f.slot = s /\ ToMove(f) = Indices(size)
  BY DEF ToMove, Indices
<1> HIDE DEF f
<1>9. /\ Stack(moving') /\ Len(rest) \in Nat /\ Len(moving') = Len(rest) + 1
      /\ moving'[Len(rest) + 1] = f
      /\ \A d \in 1..Len(rest) : moving'[d] = rest[d]
  BY <1>1, <1>7, Pushed DEF f
<1>10. InStack(moving')
  <2> SUFFICES ASSUME NEW d \in 1..Len(moving'), NEW e \in 1..Len(moving'),
                      NEW i \in ToMove(moving'[d]), NEW j \in ToMove(moving'[e]),
                      moving'[d].slot[i] \in Keys, moving'[d].slot[i] = moving'[e].slot[j]
               PROVE  d = e /\ i = j
    BY DEF InStack
  <2>1. /\ d \in 1..Len(rest) \/ d = Len(rest) + 1
        /\ e \in 1..Len(rest) \/ e = Len(rest) + 1
    BY <1>9
  <2>2. CASE d \in 1..Len(rest) /\ e \in 1..Len(rest)
    BY <1>9, <2>2 DEF InStack
  <2>3. CASE d = Len(rest) + 1 /\ e = Len(rest) + 1
    BY <1>8, <1>9, <2>3
  <2>4. CASE d = Len(rest) + 1 /\ e \in 1..Len(rest)
    BY <1>8, <1>9, <2>4 DEF NotIn
  <2>5. CASE e = Len(rest) + 1 /\ d \in 1..Len(rest)
    BY <1>8, <1>9, <2>5 DEF NotIn
  <2>6. QED
    BY <2>1, <2>2, <2>3, <2>4, <2>5
<1>11. Across(moving)'
  BY <1>1, <1>3, KeysAreNoMarks DEF Across, Marks
<1>12. QED
  BY <1>4, <1>9, <1>10, <1>11 DEF StackIInv, Stack, InStack, ToMove, FrameOK

\* A key is stored, with the vectors rest still to move after it.
LEMMA PutStep ==
  ASSUME TableIInv, NEW k \in Keys, NEW v \in AnyValue,
         NEW rest, Stack(rest), InStack(rest), Across(rest), NotIn(k, rest),
         Put(k, v, rest)
  PROVE  TableIInv' /\ StackIInv'
<1>1. size \in Nat \ {0} /\ slot \in Vector(size, AnyKey) /\ value \in Vector(size, AnyValue)
  BY DEF TableIInv, TableTyped
<1>2. CASE Found(k) # {}
  <2>1. PICK i \in Found(k) : value' = [value EXCEPT ![i] = v]
    BY <1>2 DEF Put
  <2>2. UNCHANGED <<slot, size, count>> /\ moving' = rest
    BY <1>2 DEF Put
  <2>3. value' \in Vector(size, AnyValue)
    BY <1>1, <2>1 DEF Vector
  <2>4. TableIInv'
    BY <2>2, <2>3 DEF TableIInv, TableTyped, InTable, Reachable, CountInv, Threshold
  <2>5. QED
    BY <2>2, <2>4 DEF StackIInv, Stack, InStack, Across, ToMove, FrameOK
<1>3. CASE Found(k) = {}
  <2> DEFINE S(i) == [slot EXCEPT ![i] = k]
             W(i) == [value EXCEPT ![i] = v]
  <2>1. PICK i \in FirstFree(k) :
          IF Full THEN StartRehash(S(i), W(i), Grown(size), rest)
          ELSE /\ slot' = S(i) /\ value' = W(i) /\ count' = count + 1
               /\ moving' = rest /\ size' = size
    BY <1>3 DEF Put
  <2>2. i \in Indices(size) /\ slot[i] \in Marks /\ \A j \in Way(Home(k, size), i, size) : slot[j] \notin Marks
    BY DEF FirstFree
  <2>3. S(i) \in Vector(size, AnyKey) /\ W(i) \in Vector(size, AnyValue)
    BY <1>1 DEF Vector, AnyKey
  <2>4. \A j \in Indices(size) : S(i)[j] = IF j = i THEN k ELSE slot[j]
    BY <1>1 DEF Vector
  <2>5. \A j \in Indices(size) : slot[j] # k
    BY <1>3, Search
  <2>6. \A j, l \in Indices(size) : S(i)[j] \in Keys /\ S(i)[j] = S(i)[l] => j = l
    BY <2>4, <2>5 DEF TableIInv, InTable
  <2>7. \A j \in Indices(size) : S(i)[j] \in Keys => NotIn(S(i)[j], rest)
    BY <2>4 DEF NotIn, Across
  <2>8. CASE Full
    <3>1. Grown(size) \in Nat \ {0}
      BY <1>1, GrownIsPositive
    <3>2. StartRehash(S(i), W(i), Grown(size), rest)
      BY <2>1, <2>8
    <3> HIDE DEF S, W
    <3>3. QED
      BY <2>3, <2>6, <2>7, <3>1, <3>2, StartRehashStep
  <2>9. CASE ~Full
    <3>1. slot' = S(i) /\ value' = W(i) /\ count' = count + 1 /\ moving' = rest /\ size' = size
      BY <2>1, <2>9
    <3>2. \A j \in Indices(size) : slot'[j] = IF j = i THEN k ELSE slot[j]
      BY <2>4, <3>1
    <3>3. count \in Nat
      BY DEF TableIInv, TableTyped
    <3>4. TableTyped'
      BY <1>1, <2>3, <3>1, <3>3 DEF TableTyped
    <3>5. InTable'
      BY <2>6, <3>1 DEF InTable
    <3>6. Reachable'
      <4> SUFFICES ASSUME NEW j \in Indices(size), slot'[j] \in Keys,
                          NEW l \in Way(Home(slot'[j], size), j, size)
                   PROVE  slot'[l] # NoKey
        BY <3>1 DEF Reachable
      <4>1. l \in Indices(size)
        BY DEF Way
      <4>2. CASE j = i
        BY <2>2, <3>2, <4>1, <4>2, HTAssumption DEF Marks
      <4>3. CASE j # i
        BY <3>2, <4>1, <4>3, HTAssumption DEF TableIInv, Reachable
      <4>4. QED
        BY <4>2, <4>3
    <3>7. CountInv'
      <4>1. i \notin Used
        BY <2>2, KeysAreNoMarks DEF Used
      <4>2. {j \in Indices(size') : slot'[j] \in Keys} = Used \cup {i}
        BY <2>2, <3>1, <3>2 DEF Used
      <4>3. IsFiniteSet(Used) /\ count = Cardinality(Used)
        BY UsedFinite DEF TableIInv, CountInv, Used
      <4>4. Cardinality(Used \cup {i}) = Cardinality(Used) + 1
        BY <4>1, <4>3, FS_AddElement
      <4>5. QED
        BY <3>1, <4>2, <4>3, <4>4 DEF CountInv
    <3>8. Threshold'
      <4>1. ~((count + 1) * Den > Num * size)
        BY <2>9 DEF Full
      <4>2. (count + 1) * Den \in Int /\ Num * size \in Int
        BY <1>1, <3>3, HTAssumption
      <4>3. QED
        BY <3>1, <4>1, <4>2 DEF Threshold
    <3>9. Across(moving)'
      BY <3>1, <3>2 DEF Across, NotIn
    <3>10. QED
      BY <3>1, <3>4, <3>5, <3>6, <3>7, <3>8, <3>9
         DEF TableIInv, StackIInv, Stack, InStack, ToMove, FrameOK
  <2>10. QED
    BY <2>8, <2>9
<1>4. QED
  BY <1>2, <1>3

\* The stack of rehashes without the last one, and with its loop one entry
\* further.
LEMMA RestFrames ==
  ASSUME StackIInv, ~Unlocked, NEW n, n = Len(moving)
  PROVE  /\ n \in Nat \ {0}
         /\ Last \in Frames /\ FrameOK(Last) /\ Last = moving[n]
         /\ Stack(Outer) /\ Len(Outer) = n - 1
         /\ \A d \in 1..(n - 1) : Outer[d] = moving[d]
         /\ Last.at < Last.end =>
              /\ Stack(Further) /\ Len(Further) = n
              /\ \A d \in 1..(n - 1) : Further[d] = moving[d]
              /\ Further[n].slot = Last.slot /\ Further[n].value = Last.value
              /\ ToMove(Further[n]) = ToMove(Last) \ {Last.at}
              /\ Last.at \in ToMove(Last)
<1>1. moving \in Seq(Frames) /\ n \in Nat \ {0}
  BY DEF StackIInv, Stack, Unlocked
<1>2. /\ Outer \in Seq(Frames) /\ Len(Outer) = n - 1
      /\ \A d \in 1..(n - 1) : Outer[d] = moving[d]
  <2>1. \A d \in 1..(n - 1) : moving[d] \in Frames
    BY <1>1
  <2>2. 1 \in Int /\ n - 1 \in Int
    BY <1>1
  <2>3. /\ SubSeq(moving, 1, n - 1) \in Seq(Frames)
        /\ Len(SubSeq(moving, 1, n - 1)) = IF 1 <= n - 1 THEN n - 1 - 1 + 1 ELSE 0
        /\ \A d \in 1..(n - 1 - 1 + 1) : SubSeq(moving, 1, n - 1)[d] = moving[1 + d - 1]
    BY <2>1, <2>2, SubSeqProperties
  <2>4. n - 1 - 1 + 1 = n - 1 /\ \A d \in 1..(n - 1) : 1 + d - 1 = d
    BY <1>1
  <2>5. \A d \in 1..(n - 1) : SubSeq(moving, 1, n - 1)[d] = moving[d]
    BY <2>3, <2>4
  <2>6. Len(SubSeq(moving, 1, n - 1)) = n - 1
    <3> DEFINE l == Len(SubSeq(moving, 1, n - 1))
    <3>1. n \in Nat \ {0} /\ l = IF 1 <= n - 1 THEN n - 1 - 1 + 1 ELSE 0
      BY <1>1, <2>3
    <3> HIDE DEF l
    <3>2. l = n - 1
      BY <3>1
    <3>3. QED
      BY <3>2 DEF l
  <2>7. QED
    BY <2>3, <2>5, <2>6 DEF Outer
<1>3. Last \in Frames /\ FrameOK(Last) /\ Last = moving[n]
  BY <1>1 DEF Last, StackIInv, Stack
<1>4. Stack(Outer)
  BY <1>1, <1>2 DEF StackIInv, Stack
<1>5. ASSUME Last.at < Last.end
      PROVE  /\ Stack(Further) /\ Len(Further) = n
             /\ \A d \in 1..(n - 1) : Further[d] = moving[d]
             /\ Further[n].slot = Last.slot /\ Further[n].value = Last.value
             /\ ToMove(Further[n]) = ToMove(Last) \ {Last.at}
             /\ Last.at \in ToMove(Last)
  <2> DEFINE g == [Last EXCEPT !.at = @ + 1]
  <2>1. /\ g \in Frames /\ FrameOK(g) /\ g.slot = Last.slot /\ g.value = Last.value
        /\ ToMove(g) = ToMove(Last) \ {Last.at} /\ Last.at \in ToMove(Last)
    BY <1>3, <1>5 DEF Frames, FrameOK, ToMove
  <2>2. Further = Append(Outer, g)
    BY DEF Further
  <2> HIDE DEF g
  <2>3. /\ Stack(Further) /\ Len(Further) = n
        /\ Further[n] = g
        /\ \A d \in 1..(n - 1) : Further[d] = moving[d]
    BY <1>1, <1>2, <1>4, <2>1, <2>2, Pushed
  <2>4. QED
    BY <2>1, <2>3
<1>6. QED
  BY <1>1, <1>2, <1>3, <1>4, <1>5

\* With fewer entries to move no key comes to be in two places.
LEMMA Rest ==
  ASSUME StackIInv, ~Unlocked
  PROVE  /\ Stack(Outer) /\ InStack(Outer) /\ Across(Outer)
         /\ Last \in Frames /\ FrameOK(Last)
         /\ Last.at < Last.end =>
              /\ Stack(Further) /\ InStack(Further) /\ Across(Further)
              /\ Last.slot[Last.at] \in Keys => NotIn(Last.slot[Last.at], Further)
<1> DEFINE n == Len(moving)
<1> HIDE DEF n
<1>1. /\ n \in Nat \ {0} /\ n = Len(moving)
      /\ Last \in Frames /\ FrameOK(Last) /\ Last = moving[n]
      /\ Stack(Outer) /\ Len(Outer) = n - 1
      /\ \A d \in 1..(n - 1) : Outer[d] = moving[d]
  BY RestFrames DEF n
<1>2. InStack(Outer) /\ Across(Outer)
  BY <1>1 DEF StackIInv, InStack, Across
<1>3. ASSUME Last.at < Last.end
      PROVE  /\ Stack(Further) /\ InStack(Further) /\ Across(Further)
             /\ Last.slot[Last.at] \in Keys => NotIn(Last.slot[Last.at], Further)
  <2>1. /\ Stack(Further) /\ Len(Further) = n
        /\ \A d \in 1..(n - 1) : Further[d] = moving[d]
        /\ Further[n].slot = Last.slot
        /\ ToMove(Further[n]) = ToMove(Last) \ {Last.at}
        /\ Last.at \in ToMove(Last)
    BY <1>3, RestFrames DEF n
  <2>2. \A d \in 1..n : /\ ToMove(Further[d]) \subseteq ToMove(moving[d])
                        /\ Further[d].slot = moving[d].slot
    BY <1>1, <2>1
  <2>3. InStack(moving)
    BY DEF StackIInv
  <2>4. InStack(Further)
    <3> SUFFICES ASSUME NEW d \in 1..n, NEW e \in 1..n,
                        NEW i \in ToMove(Further[d]), NEW j \in ToMove(Further[e]),
                        Further[d].slot[i] \in Keys, Further[d].slot[i] = Further[e].slot[j]
                 PROVE  d = e /\ i = j
      BY <2>1 DEF InStack
    <3>1. i \in ToMove(moving[d]) /\ j \in ToMove(moving[e])
      BY <2>2
    <3>2. QED
      BY <1>1, <2>2, <2>3, <3>1 DEF InStack
  <2>5. Across(Further)
    BY <1>1, <2>1, <2>2 DEF StackIInv, Across
  <2>6. ASSUME Last.slot[Last.at] \in Keys PROVE NotIn(Last.slot[Last.at], Further)
    <3> SUFFICES ASSUME NEW d \in 1..n, NEW i \in ToMove(Further[d]),
                        Further[d].slot[i] = Last.slot[Last.at]
                 PROVE  FALSE
      BY <2>1 DEF NotIn
    <3>1. Last.at \in ToMove(moving[n]) /\ n \in 1..n
      BY <1>1, <2>1
    <3>2. moving[d].slot[i] = moving[n].slot[Last.at] /\ i \in ToMove(moving[d])
      BY <1>1, <2>2
    <3>3. d = n /\ i = Last.at
      BY <1>1, <2>3, <2>6, <3>1, <3>2 DEF InStack
    <3>4. QED
      BY <2>1, <3>3
  <2>7. QED
    BY <2>1, <2>4, <2>5, <2>6
<1>4. QED
  BY <1>1, <1>2, <1>3

\* A removed entry keeps the other keys reachable, as its mark does not end a search.
LEMMA RemhashStep ==
  ASSUME TableIInv, StackIInv, NEW k \in Keys, Remhash(k)
  PROVE  TableIInv' /\ StackIInv'
<1>1. moving = <<>> /\ UNCHANGED <<value, size, moving>>
  BY DEF Remhash, Unlocked
<1>2. CASE Found(k) = {}
  <2>1. UNCHANGED <<slot, count>>
    BY <1>2 DEF Remhash
  <2>2. QED
    BY <1>1, <2>1 DEF TableIInv, StackIInv, TableTyped, InTable, Reachable, CountInv, Threshold,
                      Stack, InStack, Across, ToMove, FrameOK
<1>3. CASE Found(k) # {}
  <2>1. PICK i \in Found(k) : slot' = [slot EXCEPT ![i] = Deleted]
    BY <1>3 DEF Remhash
  <2>2. count' = count - 1 /\ i \in Indices(size) /\ slot[i] = k
    BY <1>3 DEF Remhash, Found
  <2>3. /\ slot' \in Vector(size, AnyKey)
        /\ \A j \in Indices(size) : slot'[j] = IF j = i THEN Deleted ELSE slot[j]
    BY <2>1, <2>2 DEF TableIInv, TableTyped, Vector, AnyKey, Marks
  <2>4. Deleted \notin Keys /\ Deleted # NoKey
    BY HTAssumption
  <2>5. i \in Used /\ IsFiniteSet(Used) /\ count = Cardinality(Used) /\ Cardinality(Used) \in Nat
    BY <2>2, UsedFinite DEF Used, TableIInv, CountInv
  <2>6. Cardinality(Used \ {i}) = Cardinality(Used) - 1 /\ IsFiniteSet(Used \ {i})
    BY <2>5, FS_RemoveElement
  <2>7. {j \in Indices(size') : slot'[j] \in Keys} = Used \ {i}
    BY <1>1, <2>3, <2>4 DEF Used
  <2>8. CountInv'
    BY <2>2, <2>5, <2>6, <2>7 DEF CountInv
  <2>9. count' \in Nat
    BY <2>2, <2>5, <2>6, FS_CardinalityType
  <2>10. Threshold'
    <3>1. count > 0
      BY <2>2, <2>5, <2>9
    <3>2. QED
      BY <1>1, <2>2, <2>5, <3>1, NotFullThen DEF TableIInv, TableTyped, Threshold
  <2>11. InTable'
    BY <1>1, <2>3, <2>4 DEF TableIInv, InTable
  <2>12. Reachable'
    <3> SUFFICES ASSUME NEW j \in Indices(size), slot'[j] \in Keys,
                        NEW l \in Way(Home(slot'[j], size), j, size)
                 PROVE  slot'[l] # NoKey
      BY <1>1 DEF Reachable
    <3>1. l \in Indices(size)
      BY DEF Way
    <3>2. QED
      BY <2>3, <2>4, <3>1 DEF TableIInv, Reachable
  <2>13. TableTyped'
    BY <1>1, <2>3, <2>9 DEF TableIInv, TableTyped
  <2>14. StackIInv'
    BY <1>1, <2>3, <2>4 DEF StackIInv, Stack, InStack, Across, ToMove, FrameOK
  <2>15. QED
    BY <2>8, <2>10, <2>11, <2>12, <2>13, <2>14 DEF TableIInv
<1>4. QED
  BY <1>2, <1>3

\* No rehash under way: nothing to move.
LEMMA EmptyStack == Stack(<<>>) /\ InStack(<<>>) /\ Across(<<>>) /\ \A k : NotIn(k, <<>>)
BY DEF Stack, InStack, Across, NotIn

\* The key a rehash moves is nowhere else.
LEMMA MoveEntryPuts ==
  ASSUME TableIInv, StackIInv, MoveEntry
  PROVE  /\ Last.slot[Last.at] \in Keys /\ Last.value[Last.at] \in AnyValue
         /\ Stack(Further) /\ InStack(Further) /\ Across(Further)
         /\ NotIn(Last.slot[Last.at], Further)
<1>1. ~Unlocked /\ Last.at < Last.end /\ Last.slot[Last.at] \notin Marks
  BY DEF MoveEntry
<1>2. Last \in Frames /\ FrameOK(Last)
  BY <1>1, Rest
<1>3. Last.at \in Indices(Last.end)
  BY <1>1, <1>2 DEF Frames, Indices
<1>4. Last.slot[Last.at] \in Keys /\ Last.value[Last.at] \in AnyValue
  BY <1>1, <1>2, <1>3 DEF FrameOK, Vector, AnyKey
<1>5. QED
  BY <1>1, <1>4, Rest

\* Each step keeps the table and the rehashes as they should be.
LEMMA TableNext ==
  ASSUME TableIInv, StackIInv, [Next]_vars
  PROVE  TableIInv' /\ StackIInv'
<1>1. ASSUME UNCHANGED <<tablevars, moving>> PROVE TableIInv' /\ StackIInv'
  BY <1>1 DEF tablevars, TableIInv, StackIInv, TableTyped, InTable, Reachable, CountInv, Threshold,
              Stack, InStack, Across, ToMove, FrameOK
<1>2. ASSUME NEW k \in Keys, NEW v \in Values, SetfGethash(k, v) PROVE TableIInv' /\ StackIInv'
  <2>1. v \in AnyValue /\ Put(k, v, <<>>)
    BY <1>2 DEF SetfGethash, AnyValue
  <2>2. QED
    BY <2>1, EmptyStack, PutStep
<1>3. ASSUME NEW k \in Keys, Remhash(k) PROVE TableIInv' /\ StackIInv'
  BY <1>3, RemhashStep
<1>4. CASE Clrhash
  <2>1. MinSize \in Nat \ {0}
    BY HTAssumption
  <2>2. /\ slot' = Blank(MinSize) /\ value' = NoValues(MinSize)
        /\ size' = MinSize /\ count' = 0 /\ moving' = <<>>
    BY <1>4 DEF Clrhash, Unlocked
  <2>3. TableIInv'
    BY <2>1, <2>2, BlankTable
  <2>4. StackIInv'
    BY <2>2 DEF StackIInv, Stack, InStack, Across
  <2>5. QED
    BY <2>3, <2>4
<1>5. CASE ForceRehash
  <2>1. StartRehash(slot, value, size, <<>>)
    BY <1>5 DEF ForceRehash
  <2>2. size \in Nat \ {0} /\ slot \in Vector(size, AnyKey) /\ value \in Vector(size, AnyValue)
    BY DEF TableIInv, TableTyped
  <2>3. \A i, j \in Indices(size) : slot[i] \in Keys /\ slot[i] = slot[j] => i = j
    BY DEF TableIInv, InTable
  <2>4. QED
    BY <2>1, <2>2, <2>3, EmptyStack, StartRehashStep
<1>6. CASE MoveEntry
  <2>1. Put(Last.slot[Last.at], Last.value[Last.at], Further)
    BY <1>6 DEF MoveEntry
  <2>2. QED
    BY <1>6, <2>1, MoveEntryPuts, PutStep
<1>7. ASSUME SkipEntry \/ EndRehash PROVE TableIInv' /\ StackIInv'
  <2>1. ~Unlocked /\ UNCHANGED <<slot, value, size, count>>
    BY <1>7 DEF SkipEntry, EndRehash, tablevars
  <2>2. moving' = Outer \/ (moving' = Further /\ Last.at < Last.end)
    BY <1>7 DEF SkipEntry, EndRehash
  <2>3. Stack(moving') /\ InStack(moving') /\ Across(moving')
    BY <2>1, <2>2, Rest
  <2>4. TableIInv'
    BY <2>1 DEF TableIInv, TableTyped, InTable, Reachable, CountInv, Threshold
  <2>5. QED
    BY <2>1, <2>3, <2>4 DEF StackIInv, Stack, InStack, Across, ToMove, FrameOK
<1>8. CASE UNCHANGED vars
  BY <1>1, <1>8 DEF vars, tablevars
<1>9. ASSUME NEW t \in Mappers, BeginMap(t) \/ MapStep(t) \/ EndMap(t) PROVE TableIInv' /\ StackIInv'
  BY <1>1, <1>9 DEF BeginMap, MapStep, EndMap
<1>10. ASSUME NEW k \in Keys, Gethash(k) PROVE TableIInv' /\ StackIInv'
  BY <1>1, <1>10 DEF Gethash
<1>11. CASE HashTableCount \/ HashTablePairs
  BY <1>1, <1>11 DEF HashTableCount, HashTablePairs
<1>12. QED
  BY <1>2, <1>3, <1>4, <1>5, <1>6, <1>7, <1>8, <1>9, <1>10, <1>11 DEF Next, Rehash

-----------------------------------------------------------------------------
\* The vector a maphash goes through.
Vec(t) == IF iter[t].old THEN iter[t].slot ELSE slot

Record(it) == it = [at |-> it.at, end |-> it.end, old |-> it.old, slot |-> it.slot]

\* k is in one entry of the n entries of the vector, and the loop at the entry a
\* has called its function for it c times.
SeenAt(vec, n, k, a, c) == \E i \in Indices(n) : /\ vec[i] = k
                                                 /\ \A j \in Indices(n) : vec[j] = k => j = i
                                                 /\ c = IF i < a THEN 1 ELSE 0

MapTyped == /\ iter = [t \in Mappers |-> iter[t]] /\ \A t \in Mappers : Record(iter[t])
            /\ visits \in [Mappers -> [Keys -> Nat]]
            /\ stayed \in [Mappers -> SUBSET Keys]

\* A loop that has not the old vector has the one of the table, and no rehash
\* is under way.
MapOK(t) == \/ iter[t] = Idle /\ stayed[t] = {}
            \/ /\ iter[t].end \in Nat \ {0} /\ iter[t].at \in 0..iter[t].end /\ iter[t].old \in BOOLEAN
               /\ iter[t].old => iter[t].slot \in Vector(iter[t].end, AnyKey)
               /\ ~iter[t].old => iter[t].end = size /\ Unlocked
               /\ \A k \in stayed[t] : SeenAt(Vec(t), iter[t].end, k, iter[t].at, visits[t][k])

MapIInv == MapTyped /\ \A t \in Mappers : MapOK(t)

\* No key is in two places.
LEMMA TableIsOnce == ASSUME TableIInv, StackIInv PROVE OnePlace
<1>1. \A p \in Places : \/ \E i \in Indices(size) : p = <<0, i>>
                        \/ \E d \in 1..Len(moving) : \E i \in ToMove(moving[d]) : p = <<d, i>>
  BY DEF Places, ToMove
<1>2. \A i : KeyAt(<<0, i>>) = slot[i]
  BY DEF KeyAt
<1>3. \A d \in 1..Len(moving) : \A i : KeyAt(<<d, i>>) = moving[d].slot[i]
  BY DEF KeyAt
<1> SUFFICES ASSUME NEW p \in Places, NEW q \in Places, KeyAt(p) = KeyAt(q), KeyAt(p) \in Keys
             PROVE  p = q
  BY DEF OnePlace
<1>4. CASE \E i \in Indices(size) : p = <<0, i>>
  BY <1>1, <1>2, <1>3, <1>4 DEF TableIInv, InTable, StackIInv, Across
<1>5. CASE \E d \in 1..Len(moving) : \E i \in ToMove(moving[d]) : p = <<d, i>>
  BY <1>1, <1>2, <1>3, <1>5 DEF StackIInv, InStack, Across
<1>6. QED
  BY <1>1, <1>4, <1>5

\* The invariant gives what the runs check.
LEMMA MapConsequences ==
  ASSUME TableIInv, StackIInv, MapIInv
  PROVE  TypeOK /\ TableInv /\ MaphashOnce
<1>1. TypeOK
  <2>1. ASSUME NEW t \in Mappers PROVE IterOK(iter[t])
    <3>1. MapOK(t)
      BY DEF MapIInv
    <3>2. CASE iter[t] = Idle
      BY <3>2 DEF Idle, IterOK
    <3>3. CASE iter[t] # Idle
      <4>1. /\ iter[t].end \in Nat /\ iter[t].at \in 0..iter[t].end /\ iter[t].old \in BOOLEAN
            /\ iter[t].old => iter[t].slot \in [Indices(iter[t].end) -> AnyKey]
        BY <3>1, <3>3 DEF MapOK, Vector
      <4>2. QED
        BY <4>1 DEF IterOK
    <3>4. QED
      BY <3>2, <3>3
  <2>2. ASSUME NEW f \in {moving[d] : d \in 1..Len(moving)}
        PROVE  /\ f.end \in Nat /\ f.at \in 0..f.end
               /\ f.slot \in Vector(f.end, AnyKey) /\ f.value \in Vector(f.end, AnyValue)
    <3>1. f \in Frames /\ FrameOK(f)
      BY DEF StackIInv, Stack
    <3>2. QED
      BY <3>1 DEF Frames, FrameOK
  <2>3. QED
    BY <2>1, <2>2 DEF TypeOK, TableIInv, TableTyped
<1>2. OnePlace
  BY TableIsOnce
<1>3. TableInv
  BY <1>2, RoomInv DEF TableInv, TableIInv
<1>4. MaphashOnce
  <2> SUFFICES ASSUME NEW t \in Mappers, NEW k \in stayed[t]
               PROVE  /\ visits[t][k] <= 1
                      /\ iter[t].end > 0 /\ iter[t].at = iter[t].end => visits[t][k] = 1
    BY DEF MaphashOnce
  <2>1. SeenAt(Vec(t), iter[t].end, k, iter[t].at, visits[t][k]) /\ iter[t].end \in Nat
    BY DEF MapIInv, MapOK
  <2>2. QED
    BY <2>1 DEF SeenAt, Indices
<1>5. QED
  BY <1>1, <1>3, <1>4

\* The invariant holds of an empty table.
LEMMA InitIInv == Init => TableIInv /\ StackIInv /\ MapIInv
<1> SUFFICES ASSUME Init PROVE TableIInv /\ StackIInv /\ MapIInv
  OBVIOUS
<1>1. MinSize \in Nat \ {0} /\ 0 * Den <= Num * MinSize /\ NoKey \notin Keys
  BY HTAssumption
<1>2. \A i \in Indices(size) : slot[i] = NoKey
  BY DEF Init, Blank
<1>3. TableTyped
  BY <1>1 DEF Init, TableTyped, Blank, NoValues, Vector, AnyKey, AnyValue, Marks
<1>4. CountInv
  <2>1. {i \in Indices(size) : slot[i] \in Keys} = {}
    BY <1>1, <1>2
  <2>2. QED
    BY <2>1, FS_EmptySet DEF CountInv, Init
<1>5. TableIInv
  BY <1>1, <1>2, <1>3, <1>4 DEF TableIInv, InTable, Reachable, Threshold, Init
<1>6. StackIInv
  BY EmptyStack DEF Init, StackIInv
<1>7. MapIInv
  BY DEF Init, MapIInv, MapTyped, MapOK, Record, Idle
<1>8. QED
  BY <1>5, <1>6, <1>7

\* A loop it is left the vector s of the table.
Left(it, j, s) == /\ Record(j) /\ j.old = TRUE /\ j.slot = s
                  /\ j.end = it.end /\ j.at = it.at

\* Every loop that goes through the vector s of the table is left it.
AllLeft(s) == /\ iter' = [t \in Mappers |-> iter'[t]]
              /\ \A t \in Mappers : IF iter[t].old \/ iter[t] = Idle THEN iter'[t] = iter[t]
                                                                    ELSE Left(iter[t], iter'[t], s)

\* A maphash whose vector is taken away keeps it, and its place in it.
LEMMA LeftIt == ASSUME NEW it, NEW s
                PROVE  Left(it, [at |-> it.at, end |-> it.end, old |-> TRUE, slot |-> s], s)
<1> DEFINE j == [at |-> it.at, end |-> it.end, old |-> TRUE, slot |-> s]
<1>1. j = [at |-> it.at, end |-> it.end, old |-> TRUE, slot |-> s]
  OBVIOUS
<1> HIDE DEF j
<1>2. Left(it, j, s)
  BY <1>1 DEF Left, Record
<1>3. QED
  BY <1>2 DEF j

\* A rehash takes the vector away from every maphash that goes through it.
LEMMA RehashLeaves ==
  ASSUME MapIInv, NEW s, NEW w, NEW n, NEW rest, StartRehash(s, w, n, rest)
  PROVE  AllLeft(s)
<1> DEFINE L(it) == [at |-> it.at, end |-> it.end, old |-> TRUE, slot |-> s]
<1>1. iter' = [t \in Mappers |-> IF iter[t].old \/ iter[t] = Idle THEN iter[t] ELSE L(iter[t])]
  BY DEF StartRehash
<1>2. \A t \in Mappers : Left(iter[t], L(iter[t]), s)
  BY LeftIt
<1> HIDE DEF L
<1>3. QED
  BY <1>1, <1>2 DEF AllLeft

\* The table has another vector s with all its keys where they were, in place or
\* after a rehash that takes s away.
LEMMA KeepMaps ==
  ASSUME TableIInv, MapIInv, NEW s \in Vector(size, AnyKey),
         \A i, j \in Indices(size) : s[i] \in Keys /\ s[i] = s[j] => i = j,
         \A i \in Indices(size) : slot[i] \in Keys => s[i] = slot[i],
         \/ slot' = s /\ size' = size /\ iter' = iter /\ (Unlocked => Unlocked')
         \/ AllLeft(s),
         UNCHANGED <<visits, stayed>>
  PROVE  MapIInv'
<1>1. SUFFICES ASSUME NEW t \in Mappers PROVE MapOK(t)' /\ Record(iter[t])'
  BY DEF MapIInv, MapTyped, AllLeft
<1>2. MapOK(t) /\ Record(iter[t]) /\ stayed[t] \subseteq Keys
  BY DEF MapIInv, MapTyped
<1>3. CASE iter[t] = Idle
  <2>1. iter'[t] = Idle
    BY <1>3 DEF AllLeft
  <2>2. stayed'[t] = {}
    BY <1>2, <1>3 DEF MapOK, Idle
  <2>3. QED
    BY <2>1, <2>2 DEF MapOK, Record, Idle
<1>4. CASE iter[t] # Idle /\ iter[t].old
  <2>1. iter'[t] = iter[t]
    BY <1>4 DEF AllLeft
  <2>2. Vec(t)' = Vec(t)
    BY <1>4, <2>1 DEF Vec
  <2>3. QED
    BY <1>2, <1>4, <2>1, <2>2 DEF MapOK, Record
<1>5. CASE iter[t] # Idle /\ ~iter[t].old
  <2>1. /\ iter[t].end = size /\ iter[t].end \in Nat \ {0} /\ iter[t].at \in 0..iter[t].end /\ Unlocked
        /\ \A k \in stayed[t] : SeenAt(slot, size, k, iter[t].at, visits[t][k])
    BY <1>2, <1>5 DEF MapOK, Vec
  <2>2. \A k \in stayed[t] : SeenAt(s, size, k, iter[t].at, visits[t][k])
    BY <1>2, <2>1 DEF SeenAt
  <2>3. CASE iter' = iter /\ slot' = s /\ size' = size /\ (Unlocked => Unlocked')
    <3>1. Vec(t)' = s
      BY <1>5, <2>3 DEF Vec
    <3>2. QED
      BY <1>2, <1>5, <2>1, <2>2, <2>3, <3>1 DEF MapOK, Record
  <2>4. CASE AllLeft(s)
    <3>1. Left(iter[t], iter'[t], s)
      BY <1>5, <2>4 DEF AllLeft
    <3>2. iter'[t].old = TRUE /\ iter'[t].end = iter[t].end /\ iter'[t].at = iter[t].at /\ Record(iter[t])'
      BY <3>1 DEF Left, Record
    <3>3. Vec(t)' = s
      BY <3>1, <3>2 DEF Left, Vec
    <3>4. \A k \in stayed'[t] : SeenAt(Vec(t)', iter'[t].end, k, iter'[t].at, visits'[t][k])
      BY <2>1, <2>2, <3>2, <3>3
    <3>5. QED
      BY <2>1, <3>1, <3>2, <3>3, <3>4 DEF MapOK, Left, Vector
  <2>5. QED
    BY <2>3, <2>4
<1>6. QED
  BY <1>3, <1>4, <1>5

\* While a rehash is under way every maphash has an old vector.
LEMMA PutKeepsMaps ==
  ASSUME TableIInv, MapIInv, NEW k \in Keys, NEW v, NEW rest,
         Put(k, v, rest), Unlocked => rest = <<>>, UNCHANGED <<visits, stayed>>
  PROVE  MapIInv'
<1>1. slot \in Vector(size, AnyKey)
  BY DEF TableIInv, TableTyped
<1>2. CASE Found(k) # {}
  <2>1. slot' = slot /\ size' = size /\ iter' = iter /\ moving' = rest
    BY <1>2 DEF Put
  <2>2. QED
    BY <1>1, <2>1, KeepMaps DEF Unlocked, TableIInv, InTable
<1>3. CASE Found(k) = {}
  <2> DEFINE S(i) == [slot EXCEPT ![i] = k]
  <2>1. PICK i \in FirstFree(k) :
          IF Full THEN StartRehash(S(i), [value EXCEPT ![i] = v], Grown(size), rest)
          ELSE slot' = S(i) /\ moving' = rest /\ size' = size /\ iter' = iter
    BY <1>3 DEF Put
  <2>2. i \in Indices(size) /\ slot[i] \notin Keys
    BY KeysAreNoMarks DEF FirstFree
  <2>3. /\ S(i) \in Vector(size, AnyKey)
        /\ \A j \in Indices(size) : S(i)[j] = IF j = i THEN k ELSE slot[j]
    BY <1>1 DEF Vector, AnyKey
  <2>4. \A j \in Indices(size) : slot[j] # k
    BY <1>3, Search
  <2>5. \A j, l \in Indices(size) : S(i)[j] \in Keys /\ S(i)[j] = S(i)[l] => j = l
    BY <2>3, <2>4 DEF TableIInv, InTable
  <2>6. \A j \in Indices(size) : slot[j] \in Keys => S(i)[j] = slot[j]
    BY <2>2, <2>3
  <2>7. \/ slot' = S(i) /\ size' = size /\ iter' = iter /\ (Unlocked => Unlocked')
        \/ AllLeft(S(i))
    BY <2>1, RehashLeaves DEF Unlocked
  <2> HIDE DEF S
  <2>8. QED
    BY <2>3, <2>5, <2>6, <2>7, KeepMaps
<1>4. QED
  BY <1>2, <1>3

\* A key that is removed no longer counts as one that stayed.
LEMMA RemhashKeepsMaps ==
  ASSUME TableIInv, MapIInv, NEW k \in Keys, Remhash(k)
  PROVE  MapIInv'
<1>1. /\ UNCHANGED <<size, iter, visits, moving>>
      /\ stayed' = [t \in Mappers |-> stayed[t] \ {k}]
  BY DEF Remhash
<1>2. \A t \in Mappers : stayed'[t] = stayed[t] \ {k}
  BY <1>1
<1>3. MapTyped'
  BY <1>1, <1>2 DEF MapIInv, MapTyped, Record
<1>4. \/ slot' = slot
      \/ \E i \in Indices(size) : slot[i] = k /\ \A j \in Indices(size) :
                                    slot'[j] = IF j = i THEN Deleted ELSE slot[j]
  <2>1. CASE Found(k) = {}
    BY <2>1 DEF Remhash
  <2>2. CASE Found(k) # {}
    BY <2>2 DEF Remhash, Found, TableIInv, TableTyped, Vector
  <2>3. QED
    BY <2>1, <2>2
<1>5. Deleted \notin Keys
  BY HTAssumption
<1>6. ASSUME NEW t \in Mappers PROVE MapOK(t)'
  <2>1. MapOK(t) /\ stayed[t] \subseteq Keys
    BY DEF MapIInv, MapTyped
  <2>2. CASE iter[t] = Idle
    BY <1>1, <1>2, <2>1, <2>2 DEF MapOK, Idle
  <2>3. CASE iter[t] # Idle /\ iter[t].old
    <3>1. Vec(t)' = Vec(t)
      BY <1>1, <2>3 DEF Vec
    <3>2. QED
      BY <1>1, <1>2, <2>1, <2>3, <3>1 DEF MapOK
  <2>4. CASE iter[t] # Idle /\ ~iter[t].old
    <3>1. /\ iter[t].end = size /\ iter[t].end \in Nat \ {0} /\ iter[t].at \in 0..iter[t].end /\ Unlocked
          /\ \A l \in stayed[t] : SeenAt(slot, size, l, iter[t].at, visits[t][l])
          /\ iter[t].old \in BOOLEAN
      BY <2>1, <2>4 DEF MapOK, Vec
    <3>2. \A l \in stayed'[t] : SeenAt(slot', size, l, iter[t].at, visits[t][l])
      BY <1>2, <1>4, <1>5, <2>1, <3>1 DEF SeenAt
    <3>3. Vec(t)' = slot'
      BY <1>1, <2>4 DEF Vec
    <3>4. QED
      BY <1>1, <2>4, <3>1, <3>2, <3>3 DEF MapOK, Unlocked
  <2>5. QED
    BY <2>2, <2>3, <2>4
<1>7. QED
  BY <1>3, <1>6 DEF MapIInv

\* clrhash leaves the old vectors alone; no key has stayed.
LEMMA ClrhashKeepsMaps == ASSUME MapIInv, Clrhash PROVE MapIInv'
<1>1. /\ \A t \in Mappers : iter[t] = Idle \/ iter[t].old
      /\ stayed' = [t \in Mappers |-> {}]
      /\ UNCHANGED <<iter, visits>>
  BY DEF Clrhash
<1>2. MapTyped'
  BY <1>1 DEF MapIInv, MapTyped, Record
<1>3. ASSUME NEW t \in Mappers PROVE MapOK(t)'
  <2>1. MapOK(t)
    BY DEF MapIInv
  <2>2. CASE iter[t] = Idle
    BY <1>1, <2>2 DEF MapOK, Idle
  <2>3. CASE iter[t] # Idle
    BY <1>1, <2>1, <2>3 DEF MapOK
  <2>4. QED
    BY <2>2, <2>3
<1>4. QED
  BY <1>2, <1>3 DEF MapIInv

\* A step of maphash: the keys of the entry are counted once.
LEMMA MapStepCounts ==
  ASSUME TableIInv, MapIInv, NEW t \in Mappers, MapStep(t)
  PROVE  MapIInv'
<1> DEFINE a == iter[t].at
           k == Vec(t)[a]
<1>1. /\ a < iter[t].end /\ UNCHANGED <<slot, size, moving, stayed>>
      /\ visits' = IF k \in Marks THEN visits ELSE [visits EXCEPT ![t][k] = @ + 1]
      /\ iter' = [iter EXCEPT ![t].at = @ + 1]
  BY DEF MapStep, Entry, Vec, tablevars
<1>2. MapOK(t) /\ Record(iter[t]) /\ visits[t] \in [Keys -> Nat] /\ stayed[t] \subseteq Keys
  BY DEF MapIInv, MapTyped
<1>3. iter[t] # Idle
  BY <1>1 DEF Idle
<1>4. /\ iter[t].end \in Nat \ {0} /\ a \in 0..iter[t].end
      /\ \A l \in stayed[t] : SeenAt(Vec(t), iter[t].end, l, a, visits[t][l])
  BY <1>2, <1>3 DEF MapOK
<1>5. Vec(t) \in Vector(iter[t].end, AnyKey)
  <2>1. CASE iter[t].old
    BY <1>2, <1>3, <2>1 DEF MapOK, Vec
  <2>2. CASE ~iter[t].old
    BY <1>2, <1>3, <2>2 DEF MapOK, Vec, TableIInv, TableTyped
  <2>3. QED
    BY <2>1, <2>2
<1>6. a \in Indices(iter[t].end) /\ k \in AnyKey
  BY <1>1, <1>4, <1>5 DEF Indices, Vector
<1>7. /\ iter'[t] = [iter[t] EXCEPT !.at = @ + 1] /\ iter' = [u \in Mappers |-> iter'[u]]
      /\ \A u \in Mappers : u # t => iter'[u] = iter[u]
  BY <1>1 DEF MapIInv, MapTyped
<1>8. /\ Record(iter[t])' /\ iter'[t].at = a + 1 /\ iter'[t].end = iter[t].end
      /\ iter'[t].old = iter[t].old /\ iter'[t].slot = iter[t].slot
  <2>1. iter[t] = [at |-> a, end |-> iter[t].end, old |-> iter[t].old, slot |-> iter[t].slot]
    BY <1>2 DEF Record
  <2>2. iter'[t] = [at |-> a + 1, end |-> iter[t].end, old |-> iter[t].old, slot |-> iter[t].slot]
    BY <1>7, <2>1
  <2>3. QED
    BY <2>2 DEF Record
<1> HIDE DEF a, k
<1>9. Vec(t)' = Vec(t)
  BY <1>1, <1>8 DEF Vec
<1>10. /\ visits' \in [Mappers -> [Keys -> Nat]]
       /\ \A u \in Mappers : u # t => visits'[u] = visits[u]
       /\ \A l \in Keys : visits'[t][l] = IF l = k THEN visits[t][l] + 1 ELSE visits[t][l]
  <2>1. visits \in [Mappers -> [Keys -> Nat]]
    BY DEF MapIInv, MapTyped
  <2>2. CASE k \in Marks
    BY <1>1, <2>1, <2>2, KeysAreNoMarks
  <2>3. CASE k \notin Marks
    BY <1>1, <1>6, <2>1, <2>3 DEF AnyKey
  <2>4. QED
    BY <2>2, <2>3
<1>11. ASSUME NEW l \in stayed[t] PROVE SeenAt(Vec(t), iter[t].end, l, a + 1, visits'[t][l])
  <2>1. PICK i \in Indices(iter[t].end) : /\ Vec(t)[i] = l
                                          /\ \A j \in Indices(iter[t].end) : Vec(t)[j] = l => j = i
                                          /\ visits[t][l] = IF i < a THEN 1 ELSE 0
    BY <1>4 DEF SeenAt
  <2>2. l = k <=> i = a
    BY <1>6, <2>1 DEF k
  <2>3. visits'[t][l] = IF i < a + 1 THEN 1 ELSE 0
    <3>1. i \in Int /\ a \in Int
      BY <1>4 DEF Indices
    <3>2. l \in Keys
      BY <1>2
    <3>3. QED
      BY <1>10, <2>1, <2>2, <3>1, <3>2
  <2>4. QED
    BY <2>1, <2>3 DEF SeenAt
<1>12. MapOK(t)'
  <2>1. a + 1 \in 0..iter[t].end
    BY <1>1, <1>4 DEF a
  <2>2. /\ iter[t].old \in BOOLEAN
        /\ iter[t].old => iter[t].slot \in Vector(iter[t].end, AnyKey)
        /\ ~iter[t].old => iter[t].end = size /\ Unlocked
    BY <1>2, <1>3 DEF MapOK
  <2>3. iter'[t].end \in Nat \ {0} /\ iter'[t].at \in 0..iter'[t].end
    BY <1>4, <1>8, <2>1
  <2>4. \A l \in stayed'[t] : SeenAt(Vec(t)', iter'[t].end, l, iter'[t].at, visits'[t][l])
    BY <1>1, <1>8, <1>9, <1>11
  <2>5. /\ iter'[t].old \in BOOLEAN
        /\ iter'[t].old => iter'[t].slot \in Vector(iter'[t].end, AnyKey)
        /\ ~iter'[t].old => iter'[t].end = size' /\ Unlocked'
    BY <1>1, <1>8, <2>2 DEF Unlocked
  <2>6. QED
    BY <2>3, <2>4, <2>5 DEF MapOK
<1>13. ASSUME NEW u \in Mappers, u # t PROVE MapOK(u)' /\ Record(iter[u])'
  <2>1. MapOK(u) /\ Record(iter[u])
    BY DEF MapIInv, MapTyped
  <2>2. Vec(u)' = Vec(u) /\ iter'[u] = iter[u] /\ visits'[u] = visits[u]
    BY <1>1, <1>7, <1>10, <1>13 DEF Vec
  <2>3. QED
    BY <1>1, <2>1, <2>2 DEF MapOK, Record, Unlocked
<1>14. MapTyped'
  BY <1>1, <1>7, <1>8, <1>10, <1>13 DEF MapIInv, MapTyped
<1>15. QED
  BY <1>12, <1>13, <1>14 DEF MapIInv

\* A maphash that begins has seen nothing, and all keys are ahead of it.
LEMMA BeginMapStarts ==
  ASSUME TableIInv, MapIInv, NEW t \in Mappers, BeginMap(t)
  PROVE  MapIInv'
<1>1. /\ Unlocked /\ iter[t] = Idle /\ UNCHANGED <<slot, size, moving>>
      /\ iter' = [iter EXCEPT ![t].end = size]
      /\ visits' = [visits EXCEPT ![t] = [k \in Keys |-> 0]]
      /\ stayed' = [stayed EXCEPT ![t] = LiveKeys(slot)]
  BY DEF BeginMap, tablevars
<1>2. slot \in Vector(size, AnyKey) /\ size \in Nat \ {0}
  BY DEF TableIInv, TableTyped
<1>3. DOMAIN slot = Indices(size)
  BY <1>2 DEF Vector
<1>4. LiveKeys(slot) \subseteq Keys /\ \A k \in LiveKeys(slot) : \E i \in Indices(size) : slot[i] = k
  BY <1>2, <1>3 DEF LiveKeys, Vector, AnyKey
<1>5. /\ iter' = [u \in Mappers |-> iter'[u]] /\ iter'[t] = [iter[t] EXCEPT !.end = size]
      /\ \A u \in Mappers : u # t => iter'[u] = iter[u]
  BY <1>1 DEF MapIInv, MapTyped
<1>6. /\ iter'[t].at = 0 /\ iter'[t].end = size /\ iter'[t].old = FALSE
      /\ Record(iter[t])'
  <2>1. iter[t] = [at |-> iter[t].at, end |-> iter[t].end, old |-> iter[t].old, slot |-> iter[t].slot]
    BY DEF MapIInv, MapTyped, Record
  <2>2. iter'[t] = [at |-> iter[t].at, end |-> size, old |-> iter[t].old, slot |-> iter[t].slot]
    BY <1>5, <2>1
  <2>3. iter[t].at = 0 /\ iter[t].old = FALSE
    BY <1>1 DEF Idle
  <2>4. QED
    BY <2>2, <2>3 DEF Record
<1>7. /\ visits' \in [Mappers -> [Keys -> Nat]] /\ stayed' \in [Mappers -> SUBSET Keys]
      /\ stayed'[t] = LiveKeys(slot) /\ \A k \in Keys : visits'[t][k] = 0
      /\ \A u \in Mappers : u # t => visits'[u] = visits[u] /\ stayed'[u] = stayed[u]
  BY <1>1, <1>4 DEF MapIInv, MapTyped
<1>8. MapOK(t)' /\ Record(iter[t])'
  <2>1. /\ iter'[t].old \in BOOLEAN /\ ~iter'[t].old
        /\ iter'[t].end \in Nat \ {0} /\ iter'[t].at \in 0..iter'[t].end
    <3>1. iter'[t].old \in BOOLEAN
      BY <1>6
    <3>2. ~iter'[t].old
      BY <1>6
    <3>3. iter'[t].end \in Nat \ {0} /\ iter'[t].at \in 0..iter'[t].end
      BY <1>2, <1>6
    <3>4. QED
      BY <3>1, <3>2, <3>3
  <2>2. Vec(t)' = slot
    BY <1>1, <2>1 DEF Vec
  <2>3. \A k \in LiveKeys(slot) : SeenAt(slot, size, k, 0, 0)
    BY <1>4 DEF SeenAt, Indices, TableIInv, InTable
  <2>4. \A k \in stayed'[t] : SeenAt(Vec(t)', iter'[t].end, k, iter'[t].at, visits'[t][k])
    BY <1>4, <1>6, <1>7, <2>2, <2>3
  <2>5. Unlocked' /\ iter'[t].end = size'
    BY <1>1, <1>6 DEF Unlocked
  <2>6. QED
    BY <1>6, <2>1, <2>4, <2>5 DEF MapOK
<1>9. ASSUME NEW u \in Mappers, u # t PROVE MapOK(u)' /\ Record(iter[u])'
  <2>1. MapOK(u) /\ Record(iter[u])
    BY DEF MapIInv, MapTyped
  <2>2. Vec(u)' = Vec(u) /\ iter'[u] = iter[u] /\ visits'[u] = visits[u] /\ stayed'[u] = stayed[u]
    BY <1>1, <1>5, <1>7, <1>9 DEF Vec
  <2>3. QED
    BY <1>1, <2>1, <2>2 DEF MapOK, Record, Unlocked
<1>10. QED
  BY <1>5, <1>7, <1>8, <1>9 DEF MapIInv, MapTyped

\* After its last entry a maphash has no vector.
LEMMA EndMapStops ==
  ASSUME MapIInv, NEW t \in Mappers, EndMap(t)
  PROVE  MapIInv'
<1>1. /\ UNCHANGED <<slot, size, moving>>
      /\ iter' = [iter EXCEPT ![t] = Idle]
      /\ visits' = [visits EXCEPT ![t] = [k \in Keys |-> 0]]
      /\ stayed' = [stayed EXCEPT ![t] = {}]
  BY DEF EndMap, tablevars
<1>2. /\ iter' = [u \in Mappers |-> iter'[u]] /\ iter'[t] = Idle
      /\ \A u \in Mappers : u # t => iter'[u] = iter[u]
  BY <1>1 DEF MapIInv, MapTyped
<1>3. /\ visits' \in [Mappers -> [Keys -> Nat]] /\ stayed' \in [Mappers -> SUBSET Keys]
      /\ stayed'[t] = {}
      /\ \A u \in Mappers : u # t => visits'[u] = visits[u] /\ stayed'[u] = stayed[u]
  BY <1>1 DEF MapIInv, MapTyped
<1>4. MapOK(t)' /\ Record(iter[t])'
  BY <1>2, <1>3 DEF MapOK, Record, Idle
<1>5. ASSUME NEW u \in Mappers, u # t PROVE MapOK(u)' /\ Record(iter[u])'
  <2>1. MapOK(u) /\ Record(iter[u])
    BY DEF MapIInv, MapTyped
  <2>2. Vec(u)' = Vec(u) /\ iter'[u] = iter[u] /\ visits'[u] = visits[u] /\ stayed'[u] = stayed[u]
    BY <1>1, <1>2, <1>3, <1>5 DEF Vec
  <2>3. QED
    BY <1>1, <2>1, <2>2 DEF MapOK, Record, Unlocked
<1>6. QED
  BY <1>2, <1>3, <1>4, <1>5 DEF MapIInv, MapTyped

\* Each step keeps what every maphash has seen in agreement with its vector.
LEMMA MapNext ==
  ASSUME TableIInv, StackIInv, MapIInv, [Next]_vars
  PROVE  MapIInv'
<1>1. ASSUME UNCHANGED <<slot, size, moving, iter, visits, stayed>> PROVE MapIInv'
  BY <1>1 DEF MapIInv, MapTyped, MapOK, Vec, Record, Unlocked
<1>2. ASSUME NEW k \in Keys, NEW v \in Values, SetfGethash(k, v) PROVE MapIInv'
  BY <1>2, PutKeepsMaps DEF SetfGethash
<1>3. ASSUME NEW k \in Keys, Gethash(k) \/ Remhash(k) PROVE MapIInv'
  BY <1>1, <1>3, RemhashKeepsMaps DEF Gethash, tablevars, mapvars
<1>4. CASE HashTableCount \/ HashTablePairs
  BY <1>1, <1>4 DEF HashTableCount, HashTablePairs, tablevars, mapvars
<1>5. CASE Clrhash
  BY <1>5, ClrhashKeepsMaps
<1>6. CASE ForceRehash
  <2>1. StartRehash(slot, value, size, <<>>) /\ UNCHANGED <<visits, stayed>>
    BY <1>6 DEF ForceRehash
  <2>2. AllLeft(slot)
    BY <2>1, RehashLeaves
  <2>3. QED
    BY <2>1, <2>2, KeepMaps DEF TableIInv, TableTyped, InTable
<1>7. CASE MoveEntry
  <2>1. /\ Put(Last.slot[Last.at], Last.value[Last.at], Further)
        /\ ~Unlocked /\ UNCHANGED <<visits, stayed>>
    BY <1>7 DEF MoveEntry
  <2>2. QED
    BY <1>7, <2>1, MoveEntryPuts, PutKeepsMaps
<1>8. CASE SkipEntry \/ EndRehash
  <2>1. ~Unlocked /\ UNCHANGED <<slot, size, iter, visits, stayed>>
    BY <1>8 DEF SkipEntry, EndRehash, tablevars, mapvars
  <2>2. QED
    BY <2>1, KeepMaps DEF TableIInv, TableTyped, InTable
<1>9. ASSUME NEW t \in Mappers, BeginMap(t) \/ MapStep(t) \/ EndMap(t) PROVE MapIInv'
  BY <1>9, BeginMapStarts, MapStepCounts, EndMapStops
<1>10. CASE UNCHANGED vars
  BY <1>1, <1>10 DEF vars
<1>11. QED
  BY <1>2, <1>3, <1>4, <1>5, <1>6, <1>7, <1>8, <1>9, <1>10 DEF Next, Rehash

\* The invariant holds in every state.
THEOREM Invariance == Spec => [](TableIInv /\ StackIInv /\ MapIInv)
<1>1. TableIInv /\ StackIInv /\ MapIInv /\ [Next]_vars => (TableIInv /\ StackIInv /\ MapIInv)'
  BY TableNext, MapNext
<1>2. QED
  BY <1>1, InitIInv, PTL DEF Spec

\* The vectors have the size the table says, and loops stay within them.
THEOREM TypeCorrect == Spec => []TypeOK
<1>1. QED
  BY Invariance, MapConsequences, PTL

\* Through removals, expansions and forced rehashes, also between two steps of
\* one (rehash_no_lock): a search finds each key, which is in one place, the
\* count is right, and there is room for another key.
THEOREM TableIsSound == Spec => []TableInv
<1>1. QED
  BY Invariance, MapConsequences, PTL

\* maphash calls its function once for a key that stays in the table, and not
\* twice, whatever is written and however often the table is rehashed.
THEOREM MaphashCallsOnce == Spec => []MaphashOnce
<1>1. QED
  BY Invariance, MapConsequences, PTL

-----------------------------------------------------------------------------
\* The value of k is v: in the table, or in one of the vectors m still to move.
InVector(vec, val, S, k, v) == \E i \in S : vec[i] = k /\ val[i] = v
BindsIn(k, v, m) == \/ InVector(slot, value, Indices(size), k, v)
                    \/ \E d \in 1..Len(m) : InVector(m[d].slot, m[d].value, ToMove(m[d]), k, v)
Binds(k, v) == BindsIn(k, v, moving)

Valued == \A k \in Keys : \A v : Binds(k, v) => v \in Values

\* Contents, by what the table binds.
ContentsAgree == /\ Contents = [k \in Keys |-> Contents[k]]
                 /\ \A k \in Keys : \A v, w : Binds(k, v) /\ Binds(k, w) => v = w
                 /\ \A k \in Keys : \A v : Binds(k, v) => Contents[k] = v
                 /\ \A k \in Keys : (\A v : ~Binds(k, v)) => Contents[k] = Absent

\* What the table holds is what its entries bind.
LEMMA ContentsOf == TableIInv /\ StackIInv => ContentsAgree
<1> SUFFICES ASSUME TableIInv, StackIInv PROVE ContentsAgree
  OBVIOUS
<1> DEFINE At(k, v) == \E p \in Places : KeyAt(p) = k /\ ValueAt(p) = v
<1>1. \A p : p \in Places <=> \/ \E i \in Indices(size) : p = <<0, i>>
                              \/ \E d \in 1..Len(moving) : \E i \in ToMove(moving[d]) : p = <<d, i>>
  BY DEF Places, ToMove
<1>2. \A i : KeyAt(<<0, i>>) = slot[i] /\ ValueAt(<<0, i>>) = value[i]
  BY DEF KeyAt, ValueAt
<1>3. \A d \in 1..Len(moving) : \A i : /\ KeyAt(<<d, i>>) = moving[d].slot[i]
                                   /\ ValueAt(<<d, i>>) = moving[d].value[i]
  BY DEF KeyAt, ValueAt
<1>4. ASSUME NEW k, NEW v PROVE Binds(k, v) <=> At(k, v)
  <2>1. ASSUME Binds(k, v) PROVE At(k, v)
    <3>1. CASE \E i \in Indices(size) : slot[i] = k /\ value[i] = v
      BY <1>1, <1>2, <3>1
    <3>2. CASE \E d \in 1..Len(moving) : \E i \in ToMove(moving[d]) :
                 moving[d].slot[i] = k /\ moving[d].value[i] = v
      <4>5. PICK d \in 1..Len(moving) : \E i \in ToMove(moving[d]) :
                   moving[d].slot[i] = k /\ moving[d].value[i] = v
        BY <3>2
      <4>1. PICK i \in ToMove(moving[d]) : moving[d].slot[i] = k /\ moving[d].value[i] = v
        BY <4>5
      <4>2. <<d, i>> \in Places
        BY <1>1
      <4>3. KeyAt(<<d, i>>) = k /\ ValueAt(<<d, i>>) = v
        BY <1>3, <4>1
      <4>4. QED
        BY <4>2, <4>3
    <3>3. QED
      BY <2>1, <3>1, <3>2 DEF Binds, BindsIn, InVector
  <2>2. ASSUME At(k, v) PROVE Binds(k, v)
    BY <1>1, <1>2, <1>3, <2>2 DEF Binds, BindsIn, InVector
  <2>3. QED
    BY <2>1, <2>2
<1>5. \A p, q \in Places : KeyAt(p) = KeyAt(q) /\ KeyAt(p) \in Keys => p = q
  BY TableIsOnce DEF OnePlace
<1>6. Contents = [k \in Keys |-> IF \E p \in Places : KeyAt(p) = k
                                 THEN ValueAt(CHOOSE p \in Places : KeyAt(p) = k)
                                 ELSE Absent]
  BY DEF Contents
<1> HIDE DEF At
<1>7. ASSUME NEW k \in Keys, NEW v, Binds(k, v) PROVE Contents[k] = v
  <2>1. PICK p \in Places : KeyAt(p) = k /\ ValueAt(p) = v
    BY <1>4, <1>7 DEF At
  <2>2. (CHOOSE q \in Places : KeyAt(q) = k) = p
    BY <1>5, <2>1
  <2>3. QED
    BY <1>6, <2>1, <2>2
<1>8. ASSUME NEW k \in Keys, \A v : ~Binds(k, v) PROVE Contents[k] = Absent
  <2>1. \A p \in Places : KeyAt(p) # k
    BY <1>4, <1>8 DEF At
  <2>2. QED
    BY <1>6, <2>1
<1>9. QED
  BY <1>6, <1>7, <1>8 DEF ContentsAgree

\* How the contents change follows from how the bindings do.
LEMMA SameContents ==
  ASSUME ContentsAgree, ContentsAgree', \A k \in Keys : \A v : Binds(k, v)' <=> Binds(k, v)
  PROVE  Contents' = Contents
<1>1. \A k \in Keys : Contents'[k] = Contents[k]
  BY DEF ContentsAgree
<1>2. QED
  BY <1>1 DEF ContentsAgree

\* ... when one key is bound to a new value,
LEMMA NewContents ==
  ASSUME ContentsAgree, ContentsAgree', NEW k \in Keys, NEW v,
         \A l \in Keys : \A w : Binds(l, w)' <=> IF l = k THEN w = v ELSE Binds(l, w)
  PROVE  Contents' = [Contents EXCEPT ![k] = v]
<1>1. \A l \in Keys : Contents'[l] = IF l = k THEN v ELSE Contents[l]
  BY DEF ContentsAgree
<1>2. QED
  BY <1>1 DEF ContentsAgree

\* ... when one key is bound no longer,
LEMMA LessContents ==
  ASSUME ContentsAgree, ContentsAgree', NEW k \in Keys,
         \A l \in Keys : \A w : Binds(l, w)' <=> l # k /\ Binds(l, w)
  PROVE  Contents' = [Contents EXCEPT ![k] = Absent]
<1>1. \A l \in Keys : Contents'[l] = IF l = k THEN Absent ELSE Contents[l]
  BY DEF ContentsAgree
<1>2. QED
  BY <1>1 DEF ContentsAgree

\* A rehash moves the bindings of the vector it takes away.
LEMMA RehashBinds ==
  ASSUME NEW s, NEW w, NEW n \in Nat \ {0}, NEW rest, Stack(rest), size \in Nat \ {0},
         s \in Vector(size, AnyKey), w \in Vector(size, AnyValue),
         StartRehash(s, w, n, rest)
  PROVE  \A l \in Keys : \A x : Binds(l, x)' <=>
           \/ InVector(s, w, Indices(size), l, x)
           \/ \E d \in 1..Len(rest) : InVector(rest[d].slot, rest[d].value, ToMove(rest[d]), l, x)
<1> DEFINE f == [slot |-> s, value |-> w, at |-> 0, end |-> size]
<1>1. /\ slot' = Blank(n) /\ size' = n /\ moving' = Append(rest, f)
  BY DEF StartRehash
<1>2. f \in Frames /\ FrameOK(f)
  BY FrameIn
<1>3. f.slot = s /\ f.value = w /\ ToMove(f) = Indices(size)
  BY DEF ToMove, Indices
<1> HIDE DEF f
<1>4. /\ Len(rest) \in Nat /\ Len(moving') = Len(rest) + 1
      /\ moving'[Len(rest) + 1] = f
      /\ \A d \in 1..Len(rest) : moving'[d] = rest[d]
  BY <1>1, <1>2, Pushed
<1>5. \A i \in Indices(size') : slot'[i] \notin Keys
  BY <1>1, KeysAreNoMarks DEF Blank, Marks
<1>6. ASSUME NEW l \in Keys, NEW x
      PROVE  Binds(l, x)' <=> \E d \in 1..Len(moving') :
               InVector(moving'[d].slot, moving'[d].value, ToMove(moving'[d]), l, x)
  <2>1. ~InVector(slot', value', Indices(size'), l, x)
    BY <1>5 DEF InVector
  <2>2. Binds(l, x)' <=> \/ InVector(slot', value', Indices(size'), l, x)
                         \/ \E d \in 1..Len(moving') :
                              InVector(moving'[d].slot, moving'[d].value, ToMove(moving'[d]), l, x)
    BY DEF Binds, BindsIn, InVector, ToMove, Indices
  <2>3. QED
    BY <2>1, <2>2
<1>7. QED
  BY <1>3, <1>4, <1>6

\* A key that is stored is bound to its new value, the others stay bound.
LEMMA PutBinds ==
  ASSUME TableIInv, NEW k \in Keys, NEW v \in AnyValue,
         NEW rest, Stack(rest), NotIn(k, rest), Put(k, v, rest)
  PROVE  \A l \in Keys : \A x : Binds(l, x)' <=> IF l = k THEN x = v ELSE BindsIn(l, x, rest)
<1> DEFINE T(l, x) == InVector(slot, value, Indices(size), l, x)
           R(l, x) == \E d \in 1..Len(rest) : InVector(rest[d].slot, rest[d].value, ToMove(rest[d]), l, x)
<1>1. \A l, x : BindsIn(l, x, rest) <=> T(l, x) \/ R(l, x)
  BY DEF BindsIn
<1>2. \A x : ~R(k, x)
  BY DEF NotIn, InVector
<1>3. size \in Nat \ {0} /\ slot \in Vector(size, AnyKey) /\ value \in Vector(size, AnyValue)
  BY DEF TableIInv, TableTyped
<1>4. ASSUME moving' = rest, NEW l, NEW x
      PROVE  Binds(l, x)' <=> InVector(slot', value', Indices(size'), l, x) \/ R(l, x)
  BY <1>4 DEF Binds, BindsIn, InVector, ToMove, Indices
<1>5. CASE Found(k) # {}
  <2>1. PICK i \in Found(k) : value' = [value EXCEPT ![i] = v]
    BY <1>5 DEF Put
  <2>2. UNCHANGED <<slot, size>> /\ moving' = rest
    BY <1>5 DEF Put
  <2>3. i \in Indices(size) /\ slot[i] = k /\ \A j \in Indices(size) : slot[j] = k => j = i
    BY DEF Found, TableIInv, InTable
  <2>4. \A j \in Indices(size) : value'[j] = IF j = i THEN v ELSE value[j]
    BY <1>3, <2>1 DEF Vector
  <2>5. \A l, x : InVector(slot', value', Indices(size'), l, x) <=> IF l = k THEN x = v ELSE T(l, x)
    BY <2>2, <2>3, <2>4 DEF InVector
  <2> HIDE DEF T, R
  <2>6. QED
    BY <1>1, <1>2, <1>4, <2>2, <2>5
<1>6. CASE Found(k) = {}
  <2> DEFINE S(i) == [slot EXCEPT ![i] = k]
             W(i) == [value EXCEPT ![i] = v]
  <2>1. PICK i \in FirstFree(k) :
          IF Full THEN StartRehash(S(i), W(i), Grown(size), rest)
          ELSE slot' = S(i) /\ value' = W(i) /\ moving' = rest /\ size' = size
    BY <1>6 DEF Put
  <2>2. i \in Indices(size) /\ slot[i] \notin Keys
    BY KeysAreNoMarks DEF FirstFree
  <2>3. /\ S(i) \in Vector(size, AnyKey) /\ W(i) \in Vector(size, AnyValue)
        /\ \A j \in Indices(size) : /\ S(i)[j] = IF j = i THEN k ELSE slot[j]
                                    /\ W(i)[j] = IF j = i THEN v ELSE value[j]
    BY <1>3 DEF Vector, AnyKey
  <2>4. \A j \in Indices(size) : slot[j] # k
    BY <1>6, Search
  <2> HIDE DEF S, W
  <2>5. \A l \in Keys : \A x : InVector(S(i), W(i), Indices(size), l, x) <=> IF l = k THEN x = v ELSE T(l, x)
    BY <2>2, <2>3, <2>4 DEF InVector
  <2>6. CASE Full
    <3>1. \A l \in Keys : \A x : Binds(l, x)' <=> InVector(S(i), W(i), Indices(size), l, x) \/ R(l, x)
      BY <1>3, <2>1, <2>3, <2>6, GrownIsPositive, RehashBinds
    <3> HIDE DEF T, R
    <3>2. QED
      BY <1>1, <1>2, <2>5, <3>1
  <2>7. CASE ~Full
    <3>1. \A l, x : Binds(l, x)' <=> InVector(S(i), W(i), Indices(size), l, x) \/ R(l, x)
      BY <1>4, <2>1, <2>7
    <3> HIDE DEF T, R
    <3>2. QED
      BY <1>1, <1>2, <2>5, <3>1
  <2>8. QED
    BY <2>6, <2>7
<1>7. QED
  BY <1>5, <1>6

\* A removed key is bound no longer, and the answer says whether it was.
LEMMA RemhashBinds ==
  ASSUME TableIInv, NEW k \in Keys, Remhash(k)
  PROVE  /\ \A l \in Keys : \A x : Binds(l, x)' <=> l # k /\ Binds(l, x)
         /\ Found(k) # {} <=> \E x : Binds(k, x)
<1>1. moving = <<>> /\ UNCHANGED <<value, size, moving>>
  BY DEF Remhash, Unlocked
<1>2. \A l, x : Binds(l, x) <=> InVector(slot, value, Indices(size), l, x)
  BY <1>1 DEF Binds, BindsIn
<1>3. \A l, x : Binds(l, x)' <=> InVector(slot', value, Indices(size), l, x)
  BY <1>1 DEF Binds, BindsIn, InVector, Indices
<1>4. Deleted \notin Keys
  BY HTAssumption
<1>5. CASE Found(k) = {}
  <2>1. slot' = slot
    BY <1>5 DEF Remhash
  <2>2. \A i \in Indices(size) : slot[i] # k
    BY <1>5, Search
  <2>3. \A x : ~Binds(k, x)
    BY <1>2, <2>2 DEF InVector
  <2>4. QED
    BY <1>2, <1>3, <1>5, <2>1, <2>3
<1>6. CASE Found(k) # {}
  <2>1. PICK i \in Found(k) : slot' = [slot EXCEPT ![i] = Deleted]
    BY <1>6 DEF Remhash
  <2>2. i \in Indices(size) /\ slot[i] = k /\ \A j \in Indices(size) : slot[j] = k => j = i
    BY DEF Found, TableIInv, InTable
  <2>3. \A j \in Indices(size) : slot'[j] = IF j = i THEN Deleted ELSE slot[j]
    BY <2>1 DEF TableIInv, TableTyped, Vector
  <2>4. \A l \in Keys : \A x : InVector(slot', value, Indices(size), l, x)
                                 <=> l # k /\ InVector(slot, value, Indices(size), l, x)
    BY <1>4, <2>2, <2>3 DEF InVector
  <2>5. Binds(k, value[i])
    BY <1>2, <2>2 DEF InVector
  <2>6. QED
    BY <1>2, <1>3, <1>6, <2>4, <2>5
<1>7. QED
  BY <1>5, <1>6

\* While no rehash is under way the answers come from the contents.
LEMMA UnlockedContents ==
  ASSUME TableIInv, StackIInv, Valued, Unlocked
  PROVE  /\ \A i \in Indices(size) : slot[i] \in Keys => Contents[slot[i]] = value[i] /\ value[i] \in Values
         /\ \A k \in Keys : Contents[k] # Absent <=> \E i \in Indices(size) : slot[i] = k
<1>1. ContentsAgree
  BY ContentsOf
<1>2. \A k, v : Binds(k, v) <=> InVector(slot, value, Indices(size), k, v)
  BY DEF Binds, BindsIn, Unlocked
<1>3. \A i \in Indices(size) : Binds(slot[i], value[i])
  BY <1>2 DEF InVector
<1>4. \A i \in Indices(size) : slot[i] \in Keys => Contents[slot[i]] = value[i] /\ value[i] \in Values
  BY <1>1, <1>3 DEF ContentsAgree, Valued
<1>5. ASSUME NEW k \in Keys, \A i \in Indices(size) : slot[i] # k PROVE Contents[k] = Absent
  BY <1>1, <1>2, <1>5 DEF ContentsAgree, InVector
<1>6. Absent \notin Values
  BY HTAssumption
<1>7. QED
  BY <1>4, <1>5, <1>6

\* hash-table-count is the number of keys with a value.
LEMMA CountIsRight ==
  ASSUME TableIInv, StackIInv, Valued, Unlocked
  PROVE  count = Cardinality(Dict!Present)
<1>1. Dict!Present = {k \in Keys : Contents[k] # Absent}
  BY DEF Dict!Present
<1>2. \A k \in Keys : k \in Dict!Present <=> \E i \in Indices(size) : slot[i] = k
  BY <1>1, UnlockedContents
<1> DEFINE f == [i \in Used |-> slot[i]]
<1>3. f \in Bijection(Used, Dict!Present)
  <2>1. f \in [Used -> Dict!Present]
    BY <1>2 DEF Used
  <2>2. \A i, j \in Used : f[i] = f[j] => i = j
    BY DEF Used, TableIInv, InTable
  <2>3. \A k \in Dict!Present : \E i \in Used : f[i] = k
    BY <1>1, <1>2 DEF Used
  <2> HIDE DEF f
  <2>4. QED
    BY <2>1, <2>2, <2>3, Fun_IsBij
<1>4. ExistsBijection(Used, Dict!Present)
  BY <1>3 DEF ExistsBijection
<1>5. IsFiniteSet(Used) /\ count = Cardinality(Used)
  BY UsedFinite DEF TableIInv, CountInv, Used
<1>6. QED
  BY <1>4, <1>5, FS_Bijection

\* The entry a rehash is at is the only one it leaves behind by going on.
LEMMA RestBinds ==
  ASSUME StackIInv, ~Unlocked
  PROVE  /\ Last.at < Last.end => \A l, x : Binds(l, x) <=>
              \/ BindsIn(l, x, Further)
              \/ l = Last.slot[Last.at] /\ x = Last.value[Last.at]
         /\ Last.at = Last.end => \A l, x : Binds(l, x) <=> BindsIn(l, x, Outer)
<1> DEFINE n == Len(moving)
           B(f, l, x) == InVector(f.slot, f.value, ToMove(f), l, x)
<1> HIDE DEF n
<1>1. /\ n \in Nat \ {0} /\ n = Len(moving)
      /\ Last \in Frames /\ Last = moving[n]
      /\ Len(Outer) = n - 1
      /\ \A d \in 1..(n - 1) : Outer[d] = moving[d]
  BY RestFrames DEF n
<1>2. ASSUME NEW l, NEW x
      PROVE  (\E d \in 1..n : B(moving[d], l, x)) <=> (\E d \in 1..(n - 1) : B(moving[d], l, x)) \/ B(Last, l, x)
  <2> HIDE DEF B
  <2>1. QED
    BY <1>1
<1>3. ASSUME Last.at < Last.end, NEW l, NEW x
      PROVE  Binds(l, x) <=> \/ BindsIn(l, x, Further)
                             \/ l = Last.slot[Last.at] /\ x = Last.value[Last.at]
  <2>1. /\ Len(Further) = n
        /\ \A d \in 1..(n - 1) : Further[d] = moving[d]
        /\ Further[n].slot = Last.slot /\ Further[n].value = Last.value
        /\ ToMove(Further[n]) = ToMove(Last) \ {Last.at} /\ Last.at \in ToMove(Last)
    BY <1>3, RestFrames DEF n
  <2>2. B(Last, l, x) <=> B(Further[n], l, x) \/ (l = Last.slot[Last.at] /\ x = Last.value[Last.at])
    BY <2>1 DEF InVector
  <2>3. (\E d \in 1..n : B(Further[d], l, x)) <=> (\E d \in 1..(n - 1) : B(moving[d], l, x)) \/ B(Further[n], l, x)
    <3> HIDE DEF B
    <3>1. QED
      BY <1>1, <2>1
  <2>4. QED
    BY <1>1, <1>2, <2>1, <2>2, <2>3 DEF Binds, BindsIn
<1>4. ASSUME Last.at = Last.end, NEW l, NEW x
      PROVE  Binds(l, x) <=> BindsIn(l, x, Outer)
  <2>1. ~B(Last, l, x)
    BY <1>1, <1>4 DEF InVector, ToMove, Frames
  <2>2. QED
    BY <1>1, <1>2, <2>1 DEF Binds, BindsIn
<1>5. QED
  BY <1>3, <1>4

\* ... and when nothing is bound anew: a rehash does not show.
LEMMA SameBindings ==
  ASSUME Valued, ContentsAgree, ContentsAgree', \A k \in Keys : \A v : Binds(k, v)' <=> Binds(k, v)
  PROVE  Valued' /\ Contents' = Contents
<1>1. Valued'
  BY DEF Valued
<1>2. QED
  BY <1>1, SameContents

\* Each step takes effect in the dictionary at once, or not at all.
LEMMA DictNext ==
  ASSUME TableIInv, StackIInv, Valued, ContentsAgree, ContentsAgree', [Next]_vars
  PROVE  Valued' /\ [Dict!Next]_(Dict!vars)
<1>1. ASSUME UNCHANGED <<slot, value, size, moving>> PROVE Valued' /\ Contents' = Contents
  <2>1. \A k \in Keys : \A v : Binds(k, v)' <=> Binds(k, v)
    BY <1>1 DEF Binds, BindsIn, InVector, ToMove, Indices
  <2>2. QED
    BY <2>1, SameBindings
<1>2. ASSUME NEW k \in Keys, NEW v \in Values, SetfGethash(k, v)
      PROVE  Valued' /\ Dict!Next
  <2>1. v \in AnyValue /\ Put(k, v, <<>>) /\ moving = <<>> /\ Done
    BY <1>2 DEF SetfGethash, AnyValue, Unlocked
  <2>2. \A l \in Keys : \A w : Binds(l, w)' <=> IF l = k THEN w = v ELSE Binds(l, w)
    BY <2>1, EmptyStack, PutBinds DEF Binds
  <2>3. Contents' = [Contents EXCEPT ![k] = v]
    BY <2>2, NewContents
  <2>4. Valued'
    BY <2>2 DEF Valued
  <2>5. Dict!Set(k, v)
    BY <2>1, <2>3 DEF Dict!Set, Dict!Done, Dict!Reply, Done, Reply
  <2>6. QED
    BY <2>4, <2>5 DEF Dict!Next
<1>3. ASSUME NEW k \in Keys, Gethash(k) PROVE Valued' /\ Dict!Next
  <2>1. Unlocked /\ UNCHANGED <<slot, value, size, moving>>
    BY <1>3 DEF Gethash, tablevars
  <2>2. Valued' /\ Contents' = Contents
    BY <1>1, <2>1
  <2>3. Reply("get", Contents[k])
    <3>1. CASE Found(k) = {}
      <4>1. \A i \in Indices(size) : slot[i] # k
        BY <3>1, Search
      <4>2. Contents[k] = Absent
        BY <2>1, <4>1, UnlockedContents
      <4>3. QED
        BY <1>3, <3>1, <4>2 DEF Gethash
    <3>2. CASE Found(k) # {}
      <4>1. PICK i \in Found(k) : Reply("get", value[i])
        BY <1>3, <3>2 DEF Gethash
      <4>2. i \in Indices(size) /\ slot[i] = k
        BY DEF Found
      <4>3. Contents[k] = value[i]
        BY <2>1, <4>2, UnlockedContents
      <4>4. QED
        BY <4>1, <4>3
    <3>3. QED
      BY <3>1, <3>2
  <2>4. Dict!Get(k)
    BY <2>2, <2>3 DEF Dict!Get, Dict!Reply, Reply
  <2>5. QED
    BY <2>2, <2>4 DEF Dict!Next
<1>4. ASSUME NEW k \in Keys, Remhash(k) PROVE Valued' /\ Dict!Next
  <2>1. /\ \A l \in Keys : \A x : Binds(l, x)' <=> l # k /\ Binds(l, x)
        /\ Found(k) # {} <=> \E x : Binds(k, x)
    BY <1>4, RemhashBinds
  <2>2. Contents' = [Contents EXCEPT ![k] = Absent] /\ Valued'
    BY <2>1, LessContents DEF Valued
  <2>3. Found(k) # {} <=> Contents[k] # Absent
    BY <2>1, HTAssumption DEF ContentsAgree, Valued
  <2>4. (Found(k) # {}) = (k \in Dict!Present)
    BY <2>3 DEF Dict!Present
  <2>5. answer' = [op |-> "remove", gave |-> k \in Dict!Present]
    BY <1>4, <2>4 DEF Remhash, Reply
  <2>6. Dict!Remove(k)
    BY <2>2, <2>5 DEF Dict!Remove, Dict!Reply
  <2>7. QED
    BY <2>2, <2>6 DEF Dict!Next
<1>5. CASE HashTableCount
  <2>1. Unlocked /\ UNCHANGED <<slot, value, size, moving>> /\ Reply("count", count)
    BY <1>5 DEF HashTableCount, tablevars
  <2>2. Valued' /\ Contents' = Contents
    BY <1>1, <2>1
  <2>3. count = Cardinality(Dict!Present)
    BY <2>1, CountIsRight
  <2>4. Dict!Cardinality(Dict!Present) = Cardinality(Dict!Present)
    BY DEF Dict!Cardinality, Cardinality, Dict!IsFiniteSet, IsFiniteSet
  <2>5. answer' = [op |-> "count", gave |-> Dict!Cardinality(Dict!Present)]
    BY <2>1, <2>3, <2>4 DEF Reply
  <2>6. Dict!Count
    BY <2>2, <2>5 DEF Dict!Count, Dict!Reply
  <2>7. QED
    BY <2>2, <2>6 DEF Dict!Next
<1>6. CASE HashTablePairs
  <2>1. Unlocked /\ UNCHANGED <<slot, value, size, moving>>
    BY <1>6 DEF HashTablePairs, tablevars
  <2>2. Valued' /\ Contents' = Contents
    BY <1>1, <2>1
  <2> DEFINE P == {<<slot[i], value[i]>> : i \in {j \in Indices(size) : slot[j] \notin Marks}}
             Q == {<<k, Contents[k]>> : k \in Dict!Present}
  <2>3. P = Q
    <3>1. \A i \in Indices(size) : slot[i] \in AnyKey
      BY DEF TableIInv, TableTyped, Vector
    <3>2. \A i \in Indices(size) : slot[i] \notin Marks <=> slot[i] \in Keys
      BY <3>1, KeysAreNoMarks DEF AnyKey
    <3>3. \A k : k \in Dict!Present <=> k \in Keys /\ \E i \in Indices(size) : slot[i] = k
      BY <2>1, UnlockedContents DEF Dict!Present
    <3>4. \A i \in Indices(size) : slot[i] \in Keys => Contents[slot[i]] = value[i]
      BY <2>1, UnlockedContents
    <3>5. P \subseteq Q
      BY <3>2, <3>3, <3>4
    <3>6. Q \subseteq P
      BY <3>2, <3>3, <3>4
    <3>7. QED
      BY <3>5, <3>6
  <2>4. answer' = [op |-> "pairs", gave |-> P]
    BY <1>6 DEF HashTablePairs, Reply
  <2> HIDE DEF P
  <2>5. Dict!Pairs
    BY <2>2, <2>3, <2>4 DEF Dict!Pairs, Dict!Reply
  <2>6. QED
    BY <2>2, <2>5 DEF Dict!Next
<1>7. CASE Clrhash
  <2>1. /\ slot' = Blank(MinSize) /\ size' = MinSize /\ moving = <<>> /\ moving' = <<>> /\ Done
    BY <1>7 DEF Clrhash, Unlocked
  <2>2. \A i \in Indices(size') : slot'[i] \notin Keys
    BY <2>1, KeysAreNoMarks DEF Blank, Marks
  <2>3. \A k \in Keys : \A v : ~Binds(k, v)'
    BY <2>1, <2>2 DEF Binds, BindsIn, InVector, Indices
  <2>4. Valued' /\ Contents' = [k \in Keys |-> Absent]
    BY <2>3 DEF Valued, ContentsAgree
  <2>5. Dict!Clear
    BY <2>1, <2>4 DEF Dict!Clear, Dict!Done, Dict!Reply, Done, Reply
  <2>6. QED
    BY <2>4, <2>5 DEF Dict!Next
<1>8. CASE ForceRehash
  <2>1. StartRehash(slot, value, size, <<>>) /\ moving = <<>> /\ Done
    BY <1>8 DEF ForceRehash, Unlocked
  <2>2. size \in Nat \ {0} /\ slot \in Vector(size, AnyKey) /\ value \in Vector(size, AnyValue)
    BY DEF TableIInv, TableTyped
  <2>3. \A l \in Keys : \A x : Binds(l, x)' <=>
          \/ InVector(slot, value, Indices(size), l, x)
          \/ \E d \in 1..Len(<<>>) :
               InVector(<<>>[d].slot, <<>>[d].value, ToMove(<<>>[d]), l, x)
    BY <2>1, <2>2, EmptyStack, RehashBinds
  <2>4. \A l \in Keys : \A x : Binds(l, x)' <=> Binds(l, x)
    BY <2>1, <2>3 DEF Binds, BindsIn
  <2>5. Valued' /\ Contents' = Contents
    BY <2>4, SameBindings
  <2>6. Dict!Rearrange
    BY <2>1, <2>5 DEF Dict!Rearrange, Dict!Done, Dict!Reply, Done, Reply
  <2>7. QED
    BY <2>5, <2>6 DEF Dict!Next
<1>9. CASE MoveEntry
  <2> DEFINE k == Last.slot[Last.at]
             v == Last.value[Last.at]
  <2>1. ~Unlocked /\ Last.at < Last.end /\ Put(k, v, Further) /\ answer' = answer
    BY <1>9 DEF MoveEntry
  <2>2. k \in Keys /\ v \in AnyValue /\ Stack(Further) /\ NotIn(k, Further)
    BY <1>9, MoveEntryPuts
  <2>3. \A l, x : Binds(l, x) <=> BindsIn(l, x, Further) \/ (l = k /\ x = v)
    BY <2>1, RestBinds
  <2> HIDE DEF k, v
  <2>4. \A l \in Keys : \A x : Binds(l, x)' <=> IF l = k THEN x = v ELSE BindsIn(l, x, Further)
    BY <2>1, <2>2, PutBinds
  <2>5. \A x : Binds(k, x) <=> x = v
    BY <2>2, <2>3 DEF ContentsAgree
  <2>6. \A l \in Keys : \A x : Binds(l, x)' <=> Binds(l, x)
    BY <2>3, <2>4, <2>5
  <2>7. QED
    BY <2>1, <2>6, SameBindings DEF Dict!vars
<1>10. CASE SkipEntry \/ EndRehash
  <2>1. ~Unlocked /\ UNCHANGED <<slot, value, size>> /\ answer' = answer
    BY <1>10 DEF SkipEntry, EndRehash, tablevars
  <2>2. \A m : moving' = m => \A l, x : Binds(l, x)' <=> BindsIn(l, x, m)
    BY <2>1 DEF Binds, BindsIn, InVector, ToMove, Indices
  <2>3. CASE SkipEntry
    <3>1. moving' = Further /\ Last.at < Last.end /\ Last.slot[Last.at] \notin Keys
      BY <2>3, KeysAreNoMarks DEF SkipEntry
    <3>2. \A l \in Keys : \A x : Binds(l, x)' <=> Binds(l, x)
      BY <2>1, <2>2, <3>1, RestBinds
    <3>3. QED
      BY <2>1, <3>2, SameBindings DEF Dict!vars
  <2>4. CASE EndRehash
    <3>1. moving' = Outer /\ Last.at = Last.end
      BY <2>4 DEF EndRehash
    <3>2. \A l \in Keys : \A x : Binds(l, x)' <=> Binds(l, x)
      BY <2>1, <2>2, <3>1, RestBinds
    <3>3. QED
      BY <2>1, <3>2, SameBindings DEF Dict!vars
  <2>5. QED
    BY <1>10, <2>3, <2>4
<1>11. ASSUME NEW t \in Mappers, BeginMap(t) \/ MapStep(t) \/ EndMap(t) PROVE Valued' /\ Dict!Next
  <2>1. UNCHANGED <<slot, value, size, moving>> /\ Done
    BY <1>11 DEF BeginMap, MapStep, EndMap, tablevars
  <2>2. Dict!Rearrange
    BY <1>1, <2>1 DEF Dict!Rearrange, Dict!Done, Dict!Reply, Done, Reply
  <2>3. QED
    BY <1>1, <2>1, <2>2 DEF Dict!Next
<1>12. CASE UNCHANGED vars
  BY <1>1, <1>12 DEF vars, Dict!vars
<1>13. QED
  BY <1>2, <1>3, <1>4, <1>5, <1>6, <1>7, <1>8, <1>9, <1>10, <1>11, <1>12 DEF Next, Rehash

\* An empty table is an empty dictionary.
LEMMA DictInit == Init => Valued /\ Dict!Init
<1> SUFFICES ASSUME Init PROVE Valued /\ Dict!Init
  OBVIOUS
<1>1. ContentsAgree
  BY InitIInv, ContentsOf
<1>2. \A i \in Indices(size) : slot[i] \notin Keys
  BY KeysAreNoMarks DEF Init, Blank, Marks
<1>3. \A k \in Keys : \A v : ~Binds(k, v)
  BY <1>2 DEF Init, Binds, BindsIn, InVector
<1>4. Contents = [k \in Keys |-> Absent]
  BY <1>1, <1>3 DEF ContentsAgree
<1>5. QED
  BY <1>3, <1>4 DEF Valued, Dict!Init, Init

\* The table implements Dictionary: a call sees a function from keys to values,
\* and each answer is what that function says (gethash, setf gethash, remhash,
\* clrhash, hash-table-count, hash_table_pairs).
THEOREM Refinement == Spec => ImplementsDictionary
<1>1. TableIInv /\ StackIInv => ContentsAgree
  BY ContentsOf
<1>2. (TableIInv /\ StackIInv /\ ContentsAgree /\ (ContentsAgree)') /\ Valued /\ [Next]_vars
        => Valued' /\ [Dict!Next]_(Dict!vars)
  BY DictNext
<1>3. Init => Valued /\ Dict!Init
  BY DictInit
<1>4. QED
  BY <1>1, <1>2, <1>3, Invariance, PTL DEF Spec, ImplementsDictionary, Dict!Spec

-----------------------------------------------------------------------------
\* What a search finds.

\* How far entry i is from h, upwards and round the end of the vector.
Far(h, i, n) == IF h <= i THEN i - h ELSE i - h + n

\* A search passes the entries that are nearer.
LEMMA PassesNearer ==
  ASSUME NEW n \in Nat \ {0}, NEW h \in Indices(n), NEW i \in Indices(n), NEW j \in Indices(n)
  PROVE  /\ Far(h, i, n) \in Nat
         /\ j \in Way(h, i, n) <=> Far(h, j, n) < Far(h, i, n)
         /\ Far(h, j, n) = Far(h, i, n) => i = j
BY DEF Far, Way, Indices

\* A set of natural numbers that is not empty has a least one.
LEMMA LeastOf ==
  ASSUME NEW U, U \in SUBSET Nat, U # {}
  PROVE  \E u \in U : \A v \in U : ~(v < u)
<1> DEFINE R == OpToRel(<, Nat)
<1>1. IsWellFoundedOn(R, Nat)
  BY NatLessThanWellFounded
<1>2. \A x, y \in Nat : <<y, x>> \in R <=> y < x
  BY DEF OpToRel
<1> HIDE DEF R
<1>3. PICK u \in U : \A v \in U : ~(<<v, u>> \in R)
  BY <1>1, WFMin
<1>4. QED
  BY <1>2, <1>3

\* Of some entries a search comes to one before the others.
LEMMA MetFirst ==
  ASSUME NEW n \in Nat \ {0}, NEW h \in Indices(n), NEW T, T \in SUBSET Indices(n), T # {}
  PROVE  \E i \in T : \A j \in T : j \notin Way(h, i, n)
<1> DEFINE U == {Far(h, i, n) : i \in T}
<1>1. U \in SUBSET Nat /\ U # {}
  BY PassesNearer
<1> HIDE DEF U
<1>2. PICK u \in U : \A v \in U : ~(v < u)
  BY <1>1, LeastOf
<1>3. PICK i \in T : u = Far(h, i, n)
  BY DEF U
<1>4. ASSUME NEW j \in T PROVE j \notin Way(h, i, n)
  <2>1. Far(h, j, n) \in U
    BY DEF U
  <2>2. ~(Far(h, j, n) < Far(h, i, n))
    BY <1>2, <1>3, <2>1
  <2>3. QED
    BY <2>2, PassesNearer
<1>5. QED
  BY <1>4

\* A search starts at an entry of the vector.
LEMMA HomeIn == ASSUME NEW k \in Keys, NEW n \in Nat \ {0} PROVE Home(k, n) \in Indices(n)
<1>1. Hash[k] \in Nat
  BY HTAssumption
<1>2. Hash[k] % n \in 0..(n - 1)
  BY <1>1
<1>3. QED
  BY <1>2 DEF Home, Indices

\* A search for a key comes to the entry with it, and to no other; the search for
\* a free entry comes to one, and to no other.
Decided == \A k \in Keys :
  /\ Found(k) = {i \in Indices(size) : slot[i] = k}
  /\ \A i, j \in Found(k) : i = j
  /\ FirstFree(k) # {}
  /\ \A i, j \in FirstFree(k) : i = j

\* Whatever was removed or is being moved, a search for a key ends at its one
\* entry, or ends without one when the key is not there, and a new key always has
\* an entry to go to: no loop over the vector runs out of it.
THEOREM SearchesAreDecided == Spec => []Decided
<1>1. TableIInv => Decided
  <2> SUFFICES ASSUME TableIInv, NEW k \in Keys
               PROVE  /\ Found(k) = {i \in Indices(size) : slot[i] = k}
                      /\ \A i, j \in Found(k) : i = j
                      /\ FirstFree(k) # {}
                      /\ \A i, j \in FirstFree(k) : i = j
    BY DEF Decided
  <2> DEFINE n == size
             h == Home(k, size)
  <2>1. n \in Nat \ {0} /\ h \in Indices(n)
    BY HomeIn DEF TableIInv, TableTyped
  <2>2. Found(k) = {i \in Indices(size) : slot[i] = k}
    BY Search DEF Found
  <2>3. \A i, j \in Found(k) : i = j
    BY <2>2 DEF TableIInv, InTable
  <2>4. FirstFree(k) # {}
    <3> DEFINE T == {i \in Indices(n) : slot[i] \in Marks}
    <3>1. T \in SUBSET Indices(n) /\ T # {}
      BY RoomInv DEF HasRoom, TableIInv, TableTyped, Vector, AnyKey
    <3>2. PICK i \in T : \A j \in T : j \notin Way(h, i, n)
      <4> HIDE DEF T, h, n
      <4>1. QED
        BY <2>1, <3>1, MetFirst
    <3>3. \A j \in Way(h, i, n) : slot[j] \notin Marks
      BY <3>2 DEF Way
    <3>4. i \in FirstFree(k)
      BY <3>2, <3>3 DEF FirstFree
    <3>5. QED
      BY <3>4
  <2>5. ASSUME NEW i \in FirstFree(k), NEW j \in FirstFree(k) PROVE i = j
    <3>1. /\ i \in Indices(n) /\ j \in Indices(n) /\ slot[i] \in Marks /\ slot[j] \in Marks
          /\ i \notin Way(h, j, n) /\ j \notin Way(h, i, n)
      BY DEF FirstFree
    <3> HIDE DEF h, n
    <3>2. /\ Far(h, i, n) \in Nat /\ Far(h, j, n) \in Nat
          /\ ~(Far(h, j, n) < Far(h, i, n)) /\ ~(Far(h, i, n) < Far(h, j, n))
      BY <2>1, <3>1, PassesNearer
    <3>3. Far(h, j, n) = Far(h, i, n)
      BY <3>2
    <3>4. QED
      BY <2>1, <3>1, <3>3, PassesNearer
  <2>6. QED
    BY <2>2, <2>3, <2>4, <2>5
<1>2. QED
  BY <1>1, Invariance, PTL

-----------------------------------------------------------------------------
\* What a rehash has still to do.

\* The factor is not below one, and an expansion makes the smallest table larger.
\* make-hash-table does not ask for it: an integer :rehash-size above 0 (the factor
\* is 1 / 1 then) and the default of 2.0 have it, 1.05 does not.
Expands == GrowNum >= GrowDen /\ Grown(MinSize) > MinSize

\* The entries of the old vectors that are not read, and the ends of their loops.
ToRead(f) == f.at..f.end
PendingIn(m) == UNION {{<<d, i>> : i \in ToRead(m[d])} : d \in 1..Len(m)}
Pending == PendingIn(moving)

\* The table never gets smaller than a new one.
SizeInv == size \in Nat /\ size >= MinSize

\* An expanded table is larger.
LEMMA GrownIsLarger ==
  ASSUME Expands, NEW n \in Nat, n >= MinSize
  PROVE  Grown(n) \in Nat /\ Grown(n) > n
<1>1. /\ GrowNum \in Nat /\ GrowDen \in Nat \ {0} /\ GrowBy \in Nat /\ MinSize \in Nat \ {0}
      /\ GrowNum >= GrowDen
  BY HTAssumption DEF Expands
<1>2. \A m \in Nat : /\ m * GrowNum \in Nat /\ m * GrowDen \in Nat
                     /\ (m * GrowNum) \div GrowDen \in Nat
  BY <1>1
<1>3. PICK e \in Nat : e = GrowNum - GrowDen
  BY <1>1
<1>4. MinSize * e <= n * e /\ MinSize * e \in Nat /\ n * e \in Nat
  BY <1>1, <1>3
<1>5. \A m \in Nat : m * GrowNum = m * GrowDen + m * e
  <2>1. GrowNum = GrowDen + e
    BY <1>1, <1>3
  <2>2. \A m \in Nat : m * (GrowDen + e) = m * GrowDen + m * e
    BY <1>1, <1>3
  <2>3. QED
    BY <2>1, <2>2
<1>6. MinSize * e + GrowBy * GrowDen >= GrowDen
  <2>1. PICK q \in Nat : q = (MinSize * GrowNum) \div GrowDen
    BY <1>1, <1>2
  <2>2. q + GrowBy >= MinSize + 1
    BY <1>1, <2>1 DEF Expands, Grown
  <2>3. q * GrowDen <= MinSize * GrowNum
    BY <1>1, <1>2, <2>1
  <2>4. (q + GrowBy) * GrowDen >= (MinSize + 1) * GrowDen
    BY <1>1, <2>2
  <2>5. q * GrowDen + GrowBy * GrowDen >= MinSize * GrowDen + GrowDen
    BY <1>1, <2>4
  <2>6. MinSize * GrowNum = MinSize * GrowDen + MinSize * e
    BY <1>1, <1>5
  <2>7. q * GrowDen \in Nat /\ GrowBy * GrowDen \in Nat /\ MinSize * GrowDen \in Nat
    BY <1>1
  <2>8. QED
    BY <1>1, <1>4, <2>3, <2>5, <2>6, <2>7
<1>7. PICK q \in Nat : q = (n * GrowNum) \div GrowDen
  BY <1>2
<1>8. n * GrowNum < (q + 1) * GrowDen
  BY <1>1, <1>2, <1>7
<1>9. q + GrowBy >= n + 1
  <2>1. GrowBy * GrowDen \in Nat /\ n * GrowNum + GrowBy * GrowDen >= n * GrowDen + GrowDen
    BY <1>1, <1>2, <1>4, <1>5, <1>6
  <2>2. (q + 1) * GrowDen + GrowBy * GrowDen > n * GrowDen + GrowDen
    BY <1>1, <1>2, <1>8, <2>1
  <2>3. (q + 1 + GrowBy) * GrowDen > (n + 1) * GrowDen
    BY <1>1, <2>2
  <2>4. q + 1 + GrowBy > n + 1
    <3> SUFFICES ASSUME q + 1 + GrowBy <= n + 1 PROVE FALSE
      BY <1>1
    <3>1. (q + 1 + GrowBy) * GrowDen <= (n + 1) * GrowDen
      BY <1>1
    <3>2. QED
      BY <1>1, <2>3, <3>1
  <2>5. QED
    BY <1>1, <2>4
<1>10. QED
  BY <1>1, <1>7, <1>9 DEF Grown

\* No step makes the table smaller than a new one.
LEMMA SizeNext ==
  ASSUME SizeInv, [Next]_vars
  PROVE  SizeInv'
<1>1. ASSUME size' = size \/ size' = MinSize \/ size' = Grown(size) PROVE SizeInv'
  BY <1>1, GrownIsPositive, HTAssumption DEF SizeInv
<1>2. ASSUME NEW k, NEW v, NEW rest, Put(k, v, rest) PROVE size' = size \/ size' = Grown(size)
  BY <1>2 DEF Put, StartRehash
<1>3. CASE \E k \in Keys, v \in Values : SetfGethash(k, v)
  BY <1>1, <1>2, <1>3 DEF SetfGethash
<1>4. CASE MoveEntry
  BY <1>1, <1>2, <1>4 DEF MoveEntry
<1>5. CASE Clrhash \/ ForceRehash
  BY <1>1, <1>5 DEF Clrhash, ForceRehash, StartRehash
<1>6. CASE SkipEntry \/ EndRehash
  BY <1>1, <1>6 DEF SkipEntry, EndRehash, tablevars
<1>7. CASE \E k \in Keys : Gethash(k) \/ Remhash(k)
  BY <1>1, <1>7 DEF Gethash, Remhash, tablevars
<1>8. CASE HashTableCount \/ HashTablePairs
  BY <1>1, <1>8 DEF HashTableCount, HashTablePairs, tablevars
<1>9. CASE \E t \in Mappers : BeginMap(t) \/ MapStep(t) \/ EndMap(t)
  BY <1>1, <1>9 DEF BeginMap, MapStep, EndMap, tablevars
<1>10. CASE UNCHANGED vars
  BY <1>1, <1>10 DEF vars
<1>11. QED
  BY <1>3, <1>4, <1>5, <1>6, <1>7, <1>8, <1>9, <1>10 DEF Next, Rehash

\* A table without k has a key less than there are, at most.
LEMMA OthersCounted ==
  ASSUME IsFiniteSet(Keys), TableIInv, NEW k \in Keys, Found(k) = {}
  PROVE  count + 1 <= Cardinality(Keys) /\ Cardinality(Keys) \in Nat
<1> DEFINE others == Keys \ {k}
           f == [i \in Used |-> slot[i]]
<1>1. IsFiniteSet(others) /\ Cardinality(others) = Cardinality(Keys) - 1
  BY FS_RemoveElement
<1>2. Cardinality(Keys) \in Nat
  BY FS_CardinalityType
<1>3. f \in Injection(Used, others)
  <2>1. \A i \in Used : slot[i] # k
    BY Search DEF Used
  <2>2. \A i \in Used : slot[i] \in others
    BY <2>1 DEF Used
  <2>3. \A i, j \in Used : slot[i] = slot[j] => i = j
    BY DEF Used, TableIInv, InTable
  <2>4. QED
    BY <2>2, <2>3 DEF Injection, IsInjective
<1> HIDE DEF others, f
<1>4. Cardinality(Used) <= Cardinality(others)
  BY <1>1, <1>3, FS_Injection
<1>5. count = Cardinality(Used) /\ count \in Nat
  BY DEF TableIInv, TableTyped, CountInv, Used
<1>6. QED
  BY <1>1, <1>2, <1>4, <1>5

\* What is pending, entry by entry.
LEMMA IsPending ==
  ASSUME NEW m
  PROVE  \A p : p \in PendingIn(m) <=> \E d \in 1..Len(m) : \E i \in ToRead(m[d]) : p = <<d, i>>
BY DEF PendingIn

\* An entry that is read, and a loop that ends, leave one thing less to do.
LEMMA PendingShrinks ==
  ASSUME StackIInv, ~Unlocked
  PROVE  /\ Last.at < Last.end => \E p \in Pending : PendingIn(Further) = Pending \ {p}
         /\ Last.at = Last.end => \E p \in Pending : PendingIn(Outer) = Pending \ {p}
<1> DEFINE n == Len(moving)
<1> HIDE DEF n
<1>1. /\ n \in Nat \ {0} /\ n = Len(moving)
      /\ Last \in Frames /\ FrameOK(Last) /\ Last = moving[n]
      /\ Stack(Outer) /\ Len(Outer) = n - 1
      /\ \A d \in 1..(n - 1) : Outer[d] = moving[d]
  BY RestFrames DEF n
<1>2. Last.at \in Nat /\ Last.end \in Nat /\ Last.at <= Last.end
  BY <1>1 DEF Frames, FrameOK
<1>3. <<n, Last.at>> \in Pending
  <2>1. Last.at \in ToRead(moving[n]) /\ n \in 1..Len(moving)
    BY <1>1, <1>2 DEF ToRead
  <2>2. QED
    BY <2>1, IsPending DEF Pending
<1>4. ASSUME Last.at < Last.end PROVE PendingIn(Further) = Pending \ {<<n, Last.at>>}
  <2> DEFINE g == [Last EXCEPT !.at = @ + 1]
  <2>1. g.at = Last.at + 1 /\ g.end = Last.end /\ g \in Frames
    BY <1>1, <1>2 DEF Frames
  <2>2. Further = Append(Outer, g)
    BY DEF Further
  <2> HIDE DEF g
  <2>3. /\ Len(Further) = n /\ \A d \in 1..(n - 1) : Further[d] = moving[d]
        /\ Further[n] = g
    <3>1. Outer \in Seq(Frames)
      BY <1>1 DEF Stack
    <3>2. QED
      BY <1>1, <2>1, <2>2, <3>1, AppendProperties
  <2>4. ToRead(Further[n]) = ToRead(moving[n]) \ {Last.at}
    BY <1>1, <1>2, <1>4, <2>1, <2>3 DEF ToRead
  <2>5. \A p : p \in PendingIn(Further) <=> p \in Pending /\ p # <<n, Last.at>>
    <3>1. ASSUME NEW d \in 1..n, NEW i
          PROVE  i \in ToRead(Further[d]) <=> i \in ToRead(moving[d]) /\ <<d, i>> # <<n, Last.at>>
      <4>1. CASE d = n
        BY <2>4, <4>1
      <4>2. CASE d # n
        <5>1. d \in 1..(n - 1)
          BY <1>1, <4>2
        <5>2. QED
          BY <2>3, <4>2, <5>1
      <4>3. QED
        BY <4>1, <4>2
    <3>2. \A p : p \in PendingIn(Further) <=> \E d \in 1..n : \E i \in ToRead(Further[d]) : p = <<d, i>>
      BY <2>3, IsPending
    <3>3. \A p : p \in Pending <=> \E d \in 1..n : \E i \in ToRead(moving[d]) : p = <<d, i>>
      BY <1>1, IsPending DEF Pending
    <3>4. QED
      BY <3>1, <3>2, <3>3
  <2>6. QED
    BY <2>5
<1>5. ASSUME Last.at = Last.end PROVE PendingIn(Outer) = Pending \ {<<n, Last.at>>}
  <2>1. ToRead(moving[n]) = {Last.at}
    BY <1>1, <1>2, <1>5 DEF ToRead
  <2>2. \A p : p \in PendingIn(Outer) <=> \E d \in 1..(n - 1) : \E i \in ToRead(moving[d]) : p = <<d, i>>
    BY <1>1, IsPending
  <2>3. \A p : p \in Pending <=> \E d \in 1..n : \E i \in ToRead(moving[d]) : p = <<d, i>>
    BY <1>1, IsPending DEF Pending
  <2>4. \A d \in 1..n : d = n \/ d \in 1..(n - 1)
    BY <1>1
  <2>5. \A d \in 1..(n - 1) : d \in 1..n /\ d # n
    BY <1>1
  <2>6. \A p : p \in PendingIn(Outer) <=> p \in Pending /\ p # <<n, Last.at>>
    BY <2>1, <2>2, <2>3, <2>4, <2>5
  <2>7. QED
    BY <2>6
<1>6. QED
  BY <1>3, <1>4, <1>5

\* Moving a key takes it off what is to be read, or makes the table larger.
LEMMA PutProgresses ==
  ASSUME Expands, IsFiniteSet(Keys), TableIInv, SizeInv, NEW k \in Keys, NEW v, NEW rest, Put(k, v, rest)
  PROVE  \/ size' = size /\ moving' = rest
         \/ size' > size /\ Num * size < Den * Cardinality(Keys)
<1>1. CASE Found(k) # {} \/ ~Full
  BY <1>1 DEF Put
<1>2. CASE Found(k) = {} /\ Full
  <2>1. size' = Grown(size)
    BY <1>2 DEF Put, StartRehash
  <2>2. size' > size
    BY <2>1, GrownIsLarger DEF SizeInv
  <2>3. /\ count \in Nat /\ size \in Nat /\ (count + 1) * Den > Num * size
        /\ Cardinality(Keys) \in Nat /\ count + 1 <= Cardinality(Keys)
    BY <1>2, OthersCounted DEF Full, TableIInv, TableTyped
  <2>4. Num \in Nat /\ Den \in Nat
    BY HTAssumption
  <2>5. (count + 1) * Den <= Cardinality(Keys) * Den
    BY <2>3, <2>4
  <2>6. QED
    BY <2>2, <2>3, <2>4, <2>5
<1>3. QED
  BY <1>1, <1>2

\* While a rehash is under way, a step that touches the table takes one thing off
\* what is to be read, or makes the table larger; and a table in which all the keys
\* there are would keep the threshold is not made larger.
Progress == ~Unlocked =>
  \/ UNCHANGED <<tablevars, moving>>
  \/ size' = size /\ \E p \in Pending : Pending' = Pending \ {p}
  \/ size' > size /\ Num * size < Den * Cardinality(Keys)

\* A rehash does not go on for ever, though moving an entry may start another one
\* inside it: it can do so only finitely often, and in between it has less to read
\* after each step.
THEOREM RehashesProgress == ASSUME Expands, IsFiniteSet(Keys) PROVE Spec => [][Progress]_vars
<1>1. Init => SizeInv
  BY HTAssumption DEF Init, SizeInv
<1>2. SizeInv /\ [Next]_vars => SizeInv'
  BY SizeNext
<1>3. ASSUME TableIInv, StackIInv, SizeInv, [Next]_vars, ~Unlocked
      PROVE  \/ UNCHANGED <<tablevars, moving>>
             \/ size' = size /\ \E p \in Pending : Pending' = Pending \ {p}
             \/ size' > size /\ Num * size < Den * Cardinality(Keys)
  <2>1. CASE UNCHANGED vars \/ \E t \in Mappers : EndMap(t)
    BY <2>1 DEF vars, tablevars, EndMap
  <2>2. CASE SkipEntry \/ EndRehash
    BY <1>3, <2>2, PendingShrinks DEF SkipEntry, EndRehash, tablevars, Pending
  <2>3. CASE MoveEntry
    <3>1. /\ Last.at < Last.end /\ Last.slot[Last.at] \in Keys
          /\ Put(Last.slot[Last.at], Last.value[Last.at], Further)
      BY <1>3, <2>3, MoveEntryPuts DEF MoveEntry
    <3>2. CASE size' = size /\ moving' = Further
      BY <1>3, <3>1, <3>2, PendingShrinks DEF Pending
    <3>3. QED
      BY <1>3, <3>1, <3>2, PutProgresses
  <2>4. QED
    BY <1>3, <2>1, <2>2, <2>3
    DEF Next, Rehash, SetfGethash, Gethash, Remhash, HashTableCount, HashTablePairs, Clrhash,
        ForceRehash, BeginMap, MapStep
<1>4. TableIInv /\ StackIInv /\ SizeInv /\ [Next]_vars => Progress
  BY <1>3 DEF Progress
<1>5. QED
  BY <1>1, <1>2, <1>4, Invariance, PTL DEF Spec
=============================================================================
