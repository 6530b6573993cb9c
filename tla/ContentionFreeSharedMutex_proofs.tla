---------------- MODULE ContentionFreeSharedMutex_proofs ----------------
(***************************************************************************)
(* Theorems about sf::contention_free_shared_mutex, for every set of       *)
(* threads, number of slots and kind of nesting: the invariant that ties   *)
(* the slots, want_x_lock and recursive_xlock_count to the holds of the    *)
(* threads is inductive; exclusion and the implementation of the abstract  *)
(* reader/writer lock follow from it.                                      *)
(*                                                                         *)
(* One lemma per action; under it one step per conjunct of Inv.            *)
(***************************************************************************)
EXTENDS ContentionFreeSharedMutex, TLAPS

IInv == TypeOK /\ Inv

\* recursive_xlock_count covers the exclusive holds of the owner.
LEMMA FallbackNat == ASSUME IInv, NEW t \in Threads PROVE FallbackHolds(t) \in Nat
<1>1. owner = t => xcount >= xheld[t]
  BY DEF IInv, Inv, WantInv
<1>2. xcount \in Nat /\ xheld[t] \in Nat
  BY DEF IInv, TypeOK
<1>3. QED
  BY <1>1, <1>2 DEF FallbackHolds

\* lock_shared and the registration of the thread.
LEMMA LockSharedStep == ASSUME IInv, NEW t \in Threads, LockShared(t) PROVE IInv'
<1> USE CFAssumption DEF IInv, TypeOK, Inv
<1>1. /\ pc[t] = "rest"
      /\ RegisterThread(t)
      /\ UNCHANGED <<want, owner, xcount, scan, sheld, xheld>>
  BY DEF LockShared, MayShare
<1>2. \E l \in {"announce", "claim_s"} : pc' = [pc EXCEPT ![t] = l]
  BY <1>1 DEF RegisterThread, Goto
<1>3. pc' \in [Threads -> Labels]
  BY <1>2 DEF Labels
<1>4. \A u \in Threads : Wanting(u)' <=> Wanting(u)
  BY <1>1, <1>2 DEF Wanting
<1>5. \A u \in Threads : FallbackHolds(u)' = FallbackHolds(u)
  BY <1>1 DEF FallbackHolds
<1>6. WantInv'
  BY <1>1, <1>2, <1>4 DEF WantInv
<1>7. CASE UNCHANGED <<slot, index>>
  <2>1. pc' = [pc EXCEPT ![t] = IF index[t] = 0 THEN "claim_s" ELSE "announce"]
    BY <1>7, <1>1 DEF RegisterThread, Goto, FreeSlots
  <2>2. SlotOwnership' /\ ScanInv'
    BY <1>1, <1>2, <1>7 DEF SlotOwnership, ScanInv
  <2>3. SlotCount'
    BY <1>1, <1>5, <1>7, <2>1 DEF SlotCount
  <2>4. FallbackInv'
    BY <1>1, <1>5, <1>7, <2>1 DEF FallbackInv
  <2>5. QED
    BY <1>1, <1>3, <1>6, <1>7, <2>2, <2>3, <2>4
<1>8. CASE ~UNCHANGED <<slot, index>>
  <2>1. PICK i \in SlotIds : /\ slot[i] = 0
                             /\ slot' = [slot EXCEPT ![i] = 1]
                             /\ index' = [index EXCEPT ![t] = i]
                             /\ index[t] = 0
                             /\ pc' = [pc EXCEPT ![t] = "announce"]
    BY <1>8, <1>1 DEF FreeSlots, RegisterThread, Goto
  <2>2. slot' \in [SlotIds -> Nat] /\ index' \in [Threads -> 0..Slots] /\ i # 0
    BY <2>1 DEF SlotIds
  <2>3. \A u \in Threads : index[u] # i
    <3> SUFFICES ASSUME NEW u \in Threads, index[u] = i PROVE FALSE
      OBVIOUS
    <3>1. FallbackHolds(u) \in Nat /\ sheld[u] >= FallbackHolds(u)
      BY FallbackNat DEF FallbackInv
    <3>2. slot[i] > 0
      BY <2>2, <3>1 DEF SlotCount
    <3>3. QED
      BY <2>1, <3>2
  <2>4. sheld[t] = FallbackHolds(t)
    BY <2>1 DEF FallbackInv
  <2>5. SlotOwnership'
    <3>1. \A u, v \in Threads : index'[u] = index'[v] /\ index'[u] # 0 => u = v
      BY <2>1, <2>2, <2>3 DEF SlotOwnership
    <3>2. \A j \in SlotIds : slot'[j] > 0 => \E u \in Threads : index'[u] = j
      <4> SUFFICES ASSUME NEW j \in SlotIds, slot'[j] > 0
                   PROVE  \E u \in Threads : index'[u] = j
        OBVIOUS
      <4>1. CASE j = i
        BY <4>1, <2>1
      <4>2. CASE j # i
        BY <4>2, <2>1, <2>2 DEF SlotOwnership, SlotIds
      <4>3. QED
        BY <4>1, <4>2
    <3>3. QED
      BY <3>1, <3>2 DEF SlotOwnership
  <2>6. SlotCount'
    <3> SUFFICES ASSUME NEW u \in Threads, index'[u] # 0
                 PROVE  slot'[index'[u]] = 1 + (sheld[u] - FallbackHolds(u))
                                             + (IF pc'[u] \in {"check", "retreat"} THEN 1 ELSE 0)
      BY <1>1, <1>5 DEF SlotCount
    <3>1. CASE u = t
      BY <3>1, <2>1, <2>2, <2>4 DEF FallbackHolds
    <3>2. CASE u # t
      BY <3>2, <2>1, <2>2, <2>3 DEF SlotCount, SlotIds
    <3>3. QED
      BY <3>1, <3>2
  <2>7. FallbackInv'
    BY <1>1, <1>5, <2>1, <2>2, <2>4 DEF FallbackInv
  <2>8. ScanInv'
    BY <1>1, <2>1, <2>2, <2>4 DEF ScanInv, FallbackHolds, WantInv
  <2>9. QED
    BY <1>1, <1>3, <1>6, <2>2, <2>5, <2>6, <2>7, <2>8
<1>9. QED
  BY <1>7, <1>8

\* The reader raises its slot.
LEMMA AnnounceStep == ASSUME IInv, NEW t \in Threads, Announce(t) PROVE IInv'
<1> USE CFAssumption DEF IInv, TypeOK, Inv, Announce, Goto
<1>1. index[t] # 0 /\ index[t] \in SlotIds
  BY DEF FallbackInv, SlotIds
<1>2. /\ slot' = [slot EXCEPT ![index[t]] = @ + 1]
      /\ slot' \in [SlotIds -> Nat]
      /\ pc' \in [Threads -> Labels]
      /\ sheld' \in [Threads -> Nat]
  BY <1>1 DEF Labels
<1>3. \A u \in Threads : Wanting(u)' <=> Wanting(u)
  BY DEF Wanting
<1>4. \A u \in Threads : FallbackHolds(u)' = FallbackHolds(u)
  BY DEF FallbackHolds
<1>5. WantInv'
  BY <1>3 DEF WantInv
<1>6. \A u \in Threads \ {t} : index[u] = 0 \/ index[u] # index[t]
  BY <1>1 DEF SlotOwnership
<1>7. SlotOwnership'
  BY <1>1, <1>2 DEF SlotOwnership
<1>8. CASE slot[index[t]] > 1
  <2>1. /\ sheld[t] > FallbackHolds(t)
        /\ FallbackHolds(t) = 0
        /\ pc' = [pc EXCEPT ![t] = "rest"]
        /\ sheld' = [sheld EXCEPT ![t] = @ + 1]
    BY <1>1, <1>8 DEF SlotCount, FallbackInv, FallbackHolds, WantInv
  <2>2. SlotCount'
    BY <1>1, <1>2, <1>4, <1>6, <2>1 DEF SlotCount
  <2>3. FallbackInv'
    BY <1>1, <1>4, <2>1 DEF FallbackInv
  <2>4. ScanInv'
    BY <2>1 DEF ScanInv
  <2>5. QED
    BY <1>2, <1>5, <1>7, <2>2, <2>3, <2>4
<1>9. CASE slot[index[t]] <= 1
  <2>1. /\ sheld[t] = FallbackHolds(t)
        /\ pc' = [pc EXCEPT ![t] = "check"]
        /\ sheld' = sheld
    BY <1>1, <1>9 DEF SlotCount, FallbackInv, FallbackHolds, WantInv
  <2>2. SlotCount'
    BY <1>1, <1>2, <1>4, <1>6, <2>1 DEF SlotCount
  <2>3. FallbackInv'
    BY <1>1, <1>4, <2>1 DEF FallbackInv
  <2>4. ScanInv'
    BY <2>1 DEF ScanInv
  <2>5. QED
    BY <1>2, <1>5, <1>7, <2>2, <2>3, <2>4
<1>10. QED
  BY <1>1, <1>8, <1>9

\* The reader looks at want_x_lock.
LEMMA CheckStep == ASSUME IInv, NEW t \in Threads, Check(t) PROVE IInv'
<1> USE CFAssumption DEF IInv, TypeOK, Inv, Check, Goto
<1>1. index[t] # 0 /\ index[t] \in SlotIds /\ sheld[t] = FallbackHolds(t)
  BY DEF FallbackInv, SlotIds
<1>2. pc' \in [Threads -> Labels] /\ sheld' \in [Threads -> Nat]
  BY DEF Labels
<1>3. \A u \in Threads : Wanting(u)' <=> Wanting(u)
  BY DEF Wanting
<1>4. \A u \in Threads : FallbackHolds(u)' = FallbackHolds(u)
  BY DEF FallbackHolds
<1>5. WantInv' /\ SlotOwnership'
  BY <1>3 DEF WantInv, SlotOwnership
<1>6. CASE want
  <2>1. SlotCount' /\ FallbackInv'
    BY <1>1, <1>4, <1>6 DEF SlotCount, FallbackInv
  <2>2. ScanInv'
    BY <1>6 DEF ScanInv
  <2>3. QED
    BY <1>2, <1>5, <1>6, <2>1, <2>2
<1>7. CASE ~want
  <2>1. \A u \in Threads : ~Wanting(u)
    BY <1>7 DEF WantInv
  <2>2. /\ FallbackHolds(t) = 0
        /\ pc' = [pc EXCEPT ![t] = "rest"]
        /\ sheld' = [sheld EXCEPT ![t] = @ + 1]
    BY <1>7, <2>1 DEF FallbackHolds, Wanting
  <2>3. SlotCount' /\ FallbackInv'
    BY <1>1, <1>4, <2>2 DEF SlotCount, FallbackInv
  <2>4. ScanInv'
    BY <2>1, <2>2 DEF ScanInv, WantInv, Wanting
  <2>5. QED
    BY <1>2, <1>5, <1>7, <2>3, <2>4
<1>8. QED
  BY <1>6, <1>7

\* The reader takes its slot back.
LEMMA RetreatStep == ASSUME IInv, NEW t \in Threads, Retreat(t) PROVE IInv'
<1> USE CFAssumption DEF IInv, TypeOK, Inv, Retreat, Goto
<1>1. index[t] \in SlotIds /\ slot[index[t]] > 1
  BY FallbackNat DEF SlotCount, FallbackInv, SlotIds
<1>2. slot' \in [SlotIds -> Nat] /\ pc' \in [Threads -> Labels]
  BY <1>1 DEF Labels
<1>3. \A u \in Threads : Wanting(u)' <=> Wanting(u)
  BY DEF Wanting
<1>4. \A u \in Threads : FallbackHolds(u)' = FallbackHolds(u)
  BY DEF FallbackHolds
<1>5. WantInv' /\ FallbackInv' /\ ScanInv'
  BY <1>3, <1>4 DEF WantInv, FallbackInv, ScanInv
<1>6. SlotOwnership'
  BY <1>1 DEF SlotOwnership
<1>7. \A u \in Threads \ {t} : index[u] = 0 \/ index[u] # index[t]
  BY <1>1 DEF SlotOwnership, SlotIds
<1>8. SlotCount'
  <2> SUFFICES ASSUME NEW u \in Threads, index[u] # 0
               PROVE  slot'[index[u]] = 1 + (sheld'[u] - FallbackHolds(u))
                                          + (IF pc'[u] \in {"check", "retreat"} THEN 1 ELSE 0)
    BY <1>4 DEF SlotCount
  <2>1. slot[index[u]] = 1 + (sheld[u] - FallbackHolds(u))
                            + (IF pc[u] \in {"check", "retreat"} THEN 1 ELSE 0)
    BY DEF SlotCount
  <2>2. CASE u = t
    BY <2>1, <2>2, FallbackNat, <1>1
  <2>3. CASE u # t
    BY <2>1, <2>3, <1>1, <1>7
  <2>4. QED
    BY <2>2, <2>3
<1>9. QED
  BY <1>2, <1>5, <1>6, <1>8

\* The reader sees want_x_lock down and tries again.
LEMMA SpinStep == ASSUME IInv, NEW t \in Threads, Spin(t) PROVE IInv'
<1> USE CFAssumption DEF IInv, TypeOK, Inv, Spin, Goto
<1>1. pc' \in [Threads -> Labels]
  BY DEF Labels
<1>2. \A u \in Threads : Wanting(u)' <=> Wanting(u)
  BY DEF Wanting
<1>3. \A u \in Threads : FallbackHolds(u)' = FallbackHolds(u)
  BY DEF FallbackHolds
<1>4. WantInv' /\ SlotOwnership' /\ ScanInv'
  BY <1>2 DEF WantInv, SlotOwnership, ScanInv
<1>5. SlotCount' /\ FallbackInv'
  BY <1>3 DEF SlotCount, FallbackInv
<1>6. QED
  BY <1>1, <1>4, <1>5

\* Behind want_x_lock nobody else is the owner, so nothing is counted yet.
LEMMA NoOwner == ASSUME IInv, NEW t \in Threads, pc[t] \in {"own_s", "own_x"}
                 PROVE  /\ owner = NoThread
                        /\ xcount = 0
                        /\ \A u \in Threads : FallbackHolds(u) = 0 /\ xheld[u] = 0
                        /\ \A u \in Threads \ {t} : ~Wanting(u)
<1> USE CFAssumption DEF IInv, TypeOK, Inv
<1>1. \A u \in Threads \ {t} : ~Wanting(u)
  BY DEF WantInv, Wanting
<1>2. owner = NoThread
  BY <1>1 DEF WantInv, Wanting
<1>3. QED
  BY <1>1, <1>2 DEF WantInv, FallbackHolds

\* A reader without a slot tries want_x_lock.
LEMMA ClaimSharedStep == ASSUME IInv, NEW t \in Threads, ClaimShared(t) PROVE IInv'
<1> USE CFAssumption DEF IInv, TypeOK, Inv
<1>1. /\ pc[t] = "claim_s"
      /\ UNCHANGED <<owner, slot, index, scan, xheld>>
  BY DEF ClaimShared
<1>2. CASE owner = t
  <2>1. /\ xcount' = xcount + 1
        /\ sheld' = [sheld EXCEPT ![t] = @ + 1]
        /\ pc' = [pc EXCEPT ![t] = "rest"]
        /\ UNCHANGED want
    BY <1>2 DEF ClaimShared, Goto
  <2>2. xcount' \in Nat /\ sheld' \in [Threads -> Nat] /\ pc' \in [Threads -> Labels]
    BY <2>1 DEF Labels
  <2>3. \A u \in Threads : Wanting(u)' <=> Wanting(u)
    BY <1>1, <2>1 DEF Wanting
  <2>4. FallbackHolds(t)' = FallbackHolds(t) + 1
    BY <1>1, <1>2, <2>1 DEF FallbackHolds
  <2>5. \A u \in Threads \ {t} : FallbackHolds(u)' = FallbackHolds(u)
    BY <1>1, <1>2 DEF FallbackHolds
  <2>6. WantInv'
    BY <1>1, <1>2, <2>1, <2>3 DEF WantInv
  <2>7. SlotOwnership' /\ SlotCount'
    BY <1>1, <2>1, <2>4, <2>5 DEF SlotOwnership, SlotCount, FallbackInv
  <2>8. FallbackInv'
    BY <1>1, <2>1, <2>4, <2>5 DEF FallbackInv
  <2>9. ScanInv'
    BY <1>1, <1>2, <2>1 DEF ScanInv, WantInv
  <2>10. QED
    BY <1>1, <2>1, <2>2, <2>6, <2>7, <2>8, <2>9
<1>3. CASE owner # t
  <2>1. /\ ~want
        /\ want' = TRUE
        /\ pc' = [pc EXCEPT ![t] = "own_s"]
        /\ UNCHANGED <<xcount, sheld>>
    BY <1>3 DEF ClaimShared, Goto
  <2>2. pc' \in [Threads -> Labels]
    BY <2>1 DEF Labels
  <2>3. \A u \in Threads : ~Wanting(u) /\ (Wanting(u)' <=> u = t)
    BY <1>1, <2>1 DEF WantInv, Wanting
  <2>4. \A u \in Threads : FallbackHolds(u)' = FallbackHolds(u)
    BY <1>1, <2>1 DEF FallbackHolds
  <2>5. WantInv'
    BY <1>1, <1>3, <2>1, <2>3 DEF WantInv
  <2>6. SlotOwnership' /\ SlotCount' /\ FallbackInv' /\ ScanInv'
    BY <1>1, <2>1, <2>4 DEF SlotOwnership, SlotCount, FallbackInv, ScanInv
  <2>7. QED
    BY <1>1, <2>1, <2>2, <2>5, <2>6
<1>4. QED
  BY <1>2, <1>3

\* A reader without a slot becomes the owner.
LEMMA OwnSharedStep == ASSUME IInv, NEW t \in Threads, OwnShared(t) PROVE IInv'
<1> USE CFAssumption DEF IInv, TypeOK, Inv, OwnShared, Goto
<1>1. /\ xcount' \in Nat
      /\ sheld' \in [Threads -> Nat]
      /\ pc' \in [Threads -> Labels]
  BY DEF Labels
<1>2. /\ owner = NoThread
      /\ xcount = 0
      /\ \A u \in Threads : FallbackHolds(u) = 0 /\ xheld[u] = 0
      /\ \A u \in Threads \ {t} : ~Wanting(u)
  BY NoOwner
<1>3. \A u \in Threads : Wanting(u)' <=> u = t
  BY <1>2 DEF Wanting
<1>4. /\ FallbackHolds(t)' = FallbackHolds(t) + 1
      /\ \A u \in Threads \ {t} : FallbackHolds(u)' = FallbackHolds(u)
  BY <1>2 DEF FallbackHolds
<1>5. WantInv'
  BY <1>2, <1>3 DEF WantInv, Wanting
<1>6. SlotOwnership' /\ SlotCount'
  BY <1>4 DEF SlotOwnership, SlotCount, FallbackInv
<1>7. FallbackInv'
  BY <1>4 DEF FallbackInv
<1>8. ScanInv'
  BY <1>2 DEF ScanInv, Wanting
<1>9. QED
  BY <1>1, <1>5, <1>6, <1>7, <1>8

\* want_x_lock comes down.
LEMMA DropStep == ASSUME IInv, NEW t \in Threads, Drop(t) PROVE IInv'
<1> USE CFAssumption DEF IInv, TypeOK, Inv, Drop, Goto
<1>1. pc' \in [Threads -> Labels]
  BY DEF Labels
<1>2. \A u \in Threads : ~Wanting(u)'
  BY DEF WantInv, Wanting
<1>3. \A u \in Threads : FallbackHolds(u)' = FallbackHolds(u)
  BY DEF FallbackHolds
<1>4. WantInv'
  BY <1>2 DEF WantInv, Wanting
<1>5. SlotOwnership' /\ SlotCount' /\ ScanInv'
  BY <1>3 DEF SlotOwnership, SlotCount, ScanInv
<1>6. FallbackInv'
  BY <1>3 DEF FallbackInv, WantInv, FallbackHolds
<1>7. QED
  BY <1>1, <1>4, <1>5, <1>6

\* A writer raises want_x_lock.
LEMMA ClaimStep == ASSUME IInv, NEW t \in Threads, Claim(t) PROVE IInv'
<1> USE CFAssumption DEF IInv, TypeOK, Inv, Claim, Goto
<1>1. pc' \in [Threads -> Labels]
  BY DEF Labels
<1>2. \A u \in Threads : ~Wanting(u)
  BY DEF WantInv
<1>3. \A u \in Threads : Wanting(u)' <=> u = t
  BY <1>2 DEF Wanting
<1>4. \A u \in Threads : FallbackHolds(u)' = FallbackHolds(u)
  BY DEF FallbackHolds
<1>5. WantInv'
  BY <1>2, <1>3 DEF WantInv, Wanting
<1>6. SlotOwnership' /\ SlotCount' /\ FallbackInv' /\ ScanInv'
  BY <1>4 DEF SlotOwnership, SlotCount, FallbackInv, ScanInv
<1>7. QED
  BY <1>1, <1>5, <1>6

\* A writer becomes the owner.
LEMMA OwnStep == ASSUME IInv, NEW t \in Threads, Own(t) PROVE IInv'
<1> USE CFAssumption DEF IInv, TypeOK, Inv, Own, Goto
<1>1. pc' \in [Threads -> Labels] /\ scan' \in [Threads -> 1..Slots + 1]
  BY DEF Labels
<1>2. /\ owner = NoThread
      /\ xcount = 0
      /\ \A u \in Threads : FallbackHolds(u) = 0 /\ xheld[u] = 0
      /\ \A u \in Threads \ {t} : ~Wanting(u)
  BY NoOwner
<1>3. \A u \in Threads : Wanting(u)' <=> u = t
  BY <1>2 DEF Wanting
<1>4. \A u \in Threads : FallbackHolds(u)' = FallbackHolds(u)
  BY <1>2 DEF FallbackHolds
<1>5. WantInv'
  BY <1>2, <1>3 DEF WantInv, Wanting
<1>6. SlotOwnership' /\ SlotCount' /\ FallbackInv'
  BY <1>4 DEF SlotOwnership, SlotCount, FallbackInv
<1>7. ScanInv'
  <2>1. \A u \in Threads : pc'[u] = "scan" => u = t
    BY <1>3 DEF Wanting
  <2>2. \A u \in Threads : index[u] < 1 => sheld[u] = 0
    BY <1>2 DEF FallbackInv
  <2>3. QED
    BY <1>2, <2>1, <2>2 DEF ScanInv
<1>8. QED
  BY <1>1, <1>5, <1>6, <1>7

\* A writer sees a slot free.
LEMMA ScanSlotStep == ASSUME IInv, NEW t \in Threads, ScanSlot(t) PROVE IInv'
<1> USE CFAssumption DEF IInv, TypeOK, Inv, ScanSlot
<1>1. scan' \in [Threads -> 1..Slots + 1]
  OBVIOUS
<1>2. \A u \in Threads : Wanting(u)' <=> Wanting(u)
  BY DEF Wanting
<1>3. \A u \in Threads : FallbackHolds(u)' = FallbackHolds(u)
  BY DEF FallbackHolds
<1>4. WantInv' /\ SlotOwnership' /\ SlotCount' /\ FallbackInv'
  BY <1>2, <1>3 DEF WantInv, SlotOwnership, SlotCount, FallbackInv
<1>5. \A u \in Threads \ {t} : index[u] = scan[t] => sheld[u] = 0
  BY DEF SlotCount, FallbackInv, FallbackHolds, WantInv
<1>6. ScanInv'
  BY <1>5 DEF ScanInv
<1>7. QED
  BY <1>1, <1>4, <1>6

\* A writer has seen every slot free.
LEMMA EndScanStep == ASSUME IInv, NEW t \in Threads, EndScan(t) PROVE IInv'
<1> USE CFAssumption DEF IInv, TypeOK, Inv, EndScan, Goto
<1>1. /\ xcount' \in Nat
      /\ xheld' \in [Threads -> Nat]
      /\ pc' \in [Threads -> Labels]
  BY DEF Labels
<1>2. owner = t /\ xcount = 0 /\ xheld[t] = 0 /\ sheld[t] = 0
  BY DEF WantInv, FallbackInv
<1>3. \A u \in Threads : Wanting(u)' <=> Wanting(u)
  BY <1>2 DEF Wanting
<1>4. \A u \in Threads : FallbackHolds(u)' = FallbackHolds(u)
  BY <1>2 DEF FallbackHolds
<1>5. WantInv'
  BY <1>2, <1>3 DEF WantInv, Wanting
<1>6. SlotOwnership' /\ SlotCount' /\ FallbackInv'
  BY <1>2, <1>4 DEF SlotOwnership, SlotCount, FallbackInv, FallbackHolds
<1>7. ScanInv'
  BY <1>2 DEF ScanInv
<1>8. QED
  BY <1>1, <1>5, <1>6, <1>7

\* lock, recursive or not.
LEMMA LockStep == ASSUME IInv, NEW t \in Threads, Lock(t) PROVE IInv'
<1> USE CFAssumption DEF IInv, TypeOK, Inv
<1>1. /\ pc[t] = "rest" /\ sheld[t] = 0
      /\ UNCHANGED <<want, owner, slot, index, scan, sheld>>
  BY DEF Lock, MayLock
<1>2. CASE owner = t
  <2>1. /\ xcount' = xcount + 1
        /\ xheld' = [xheld EXCEPT ![t] = @ + 1]
        /\ UNCHANGED pc
    BY <1>2 DEF Lock
  <2>2. xcount' \in Nat /\ xheld' \in [Threads -> Nat]
    BY <2>1
  <2>3. \A u \in Threads : Wanting(u)' <=> Wanting(u)
    BY <1>1, <2>1 DEF Wanting
  <2>4. \A u \in Threads : FallbackHolds(u)' = FallbackHolds(u)
    BY <1>1, <1>2, <2>1 DEF FallbackHolds
  <2>5. WantInv'
    BY <1>1, <1>2, <2>1, <2>3 DEF WantInv
  <2>6. SlotOwnership' /\ SlotCount' /\ FallbackInv'
    BY <1>1, <2>1, <2>4 DEF SlotOwnership, SlotCount, FallbackInv
  <2>7. xheld[t] > 0
    BY <1>1, <1>2 DEF FallbackInv, FallbackHolds, WantInv
  <2>8. ScanInv'
    BY <1>1, <2>1, <2>7 DEF ScanInv
  <2>9. QED
    BY <1>1, <2>1, <2>2, <2>5, <2>6, <2>8
<1>3. CASE owner # t
  <2>1. /\ pc' = [pc EXCEPT ![t] = "claim_x"]
        /\ UNCHANGED <<xcount, xheld>>
    BY <1>3 DEF Lock, Goto
  <2>2. pc' \in [Threads -> Labels]
    BY <2>1 DEF Labels
  <2>3. \A u \in Threads : Wanting(u)' <=> Wanting(u)
    BY <1>1, <2>1 DEF Wanting
  <2>4. \A u \in Threads : FallbackHolds(u)' = FallbackHolds(u)
    BY <1>1, <2>1 DEF FallbackHolds
  <2>5. FallbackHolds(t) = 0
    BY <1>3 DEF FallbackHolds
  <2>6. WantInv' /\ SlotOwnership' /\ SlotCount' /\ ScanInv'
    BY <1>1, <2>1, <2>3, <2>4 DEF WantInv, SlotOwnership, SlotCount, ScanInv
  <2>7. FallbackInv'
    BY <1>1, <2>1, <2>4, <2>5 DEF FallbackInv
  <2>8. QED
    BY <1>1, <2>1, <2>2, <2>6, <2>7
<1>4. QED
  BY <1>2, <1>3

\* The owner that gives one of its recursive holds up.
LEMMA GiveUpFacts == ASSUME IInv, NEW t \in Threads, pc[t] = "rest", owner = t, GiveUpCount(t)
                     PROVE  /\ xcount \in Nat \ {0} /\ xcount' = xcount - 1
                            /\ xcount' \in Nat /\ pc' \in [Threads -> Labels]
                            /\ xcount = 1 => owner' = NoThread /\ pc' = [pc EXCEPT ![t] = "drop"]
                            /\ xcount # 1 => UNCHANGED <<owner, pc>>
                            /\ \A u \in Threads : Wanting(u)' <=> u = t
                            /\ \A u \in Threads : Wanting(u) <=> u = t
                            /\ \A u \in Threads \ {t} : xheld[u] = 0
<1> USE CFAssumption DEF IInv, TypeOK, Inv
<1>1. xcount \in Nat \ {0} /\ xcount' = xcount - 1 /\ xcount' \in Nat
  BY DEF WantInv, GiveUpCount
<1>2. /\ xcount = 1 => owner' = NoThread /\ pc' = [pc EXCEPT ![t] = "drop"]
      /\ xcount # 1 => UNCHANGED <<owner, pc>>
  BY DEF GiveUpCount, Goto
<1>3. pc' \in [Threads -> Labels]
  BY <1>2 DEF Labels
<1>4. \A u \in Threads : Wanting(u) <=> u = t
  BY DEF WantInv, Wanting
<1>5. \A u \in Threads : Wanting(u)' <=> u = t
  BY <1>2, <1>4 DEF Wanting
<1>6. \A u \in Threads \ {t} : xheld[u] = 0
  BY DEF WantInv
<1>7. QED
  BY <1>1, <1>2, <1>3, <1>4, <1>5, <1>6

\* unlock of an exclusive hold.
LEMMA UnlockStep == ASSUME IInv, NEW t \in Threads, Unlock(t) PROVE IInv'
<1> USE CFAssumption DEF IInv, TypeOK, Inv
<1>1. /\ pc[t] = "rest" /\ xheld[t] > 0 /\ owner = t
      /\ xheld' = [xheld EXCEPT ![t] = @ - 1]
      /\ GiveUpCount(t)
      /\ UNCHANGED <<want, slot, index, scan, sheld>>
  BY DEF Unlock, WantInv
<1>2. /\ xcount \in Nat \ {0} /\ xcount' = xcount - 1
      /\ xcount' \in Nat /\ pc' \in [Threads -> Labels]
      /\ xcount = 1 => owner' = NoThread /\ pc' = [pc EXCEPT ![t] = "drop"]
      /\ xcount # 1 => UNCHANGED <<owner, pc>>
      /\ \A u \in Threads : Wanting(u)' <=> u = t
      /\ \A u \in Threads : Wanting(u) <=> u = t
      /\ \A u \in Threads \ {t} : xheld[u] = 0
  BY <1>1, GiveUpFacts
<1>3. xheld' \in [Threads -> Nat] /\ owner' \in Threads \cup {NoThread}
  BY <1>1, <1>2
<1>4. xcount >= xheld[t]
  BY <1>1 DEF WantInv
<1>5. \A u \in Threads : FallbackHolds(u)' = FallbackHolds(u)
  BY <1>1, <1>2, <1>4 DEF FallbackHolds
<1>6. WantInv'
  <2>1. CASE xcount = 1
    BY <2>1, <1>1, <1>2, <1>4 DEF WantInv
  <2>2. CASE xcount # 1
    <3>1. xcount' > 0 /\ xcount' >= xheld'[t]
      BY <2>2, <1>1, <1>2, <1>4
    <3>2. QED
      BY <2>2, <3>1, <1>1, <1>2 DEF WantInv
  <2>3. QED
    BY <2>1, <2>2
<1>7. SlotOwnership' /\ SlotCount' /\ FallbackInv'
  <2>1. \A u \in Threads : pc'[u] = pc[u] \/ (u = t /\ pc'[u] = "drop")
    BY <1>2
  <2>2. index[t] # 0 => FallbackHolds(t) = 0
    BY <1>1, FallbackNat DEF FallbackInv
  <2>3. SlotOwnership' /\ SlotCount'
    BY <1>1, <1>5, <2>1 DEF SlotOwnership, SlotCount
  <2>4. FallbackInv'
    BY <1>1, <1>5, <2>1, <2>2 DEF FallbackInv
  <2>5. QED
    BY <2>3, <2>4
<1>8. ScanInv'
  <2>1. \A u \in Threads : pc'[u] = "scan" => FALSE
    BY <1>1, <1>2 DEF Wanting
  <2>2. \A u \in Threads : xheld'[u] > 0 => u = t
    BY <1>1, <1>2
  <2>3. QED
    BY <1>1, <2>1, <2>2 DEF ScanInv
<1>9. QED
  BY <1>1, <1>2, <1>3, <1>6, <1>7, <1>8

\* unlock_shared, with and without a slot.
LEMMA UnlockSharedStep == ASSUME IInv, NEW t \in Threads, UnlockShared(t) PROVE IInv'
<1> USE CFAssumption DEF IInv, TypeOK, Inv
<1>1. /\ pc[t] = "rest" /\ sheld[t] > 0
      /\ sheld' = [sheld EXCEPT ![t] = @ - 1]
      /\ sheld' \in [Threads -> Nat]
      /\ UNCHANGED <<want, index, scan, xheld>>
  BY DEF UnlockShared
<1>2. CASE index[t] # 0
  <2>1. /\ slot' = [slot EXCEPT ![index[t]] = @ - 1]
        /\ UNCHANGED <<owner, xcount, pc>>
    BY <1>2 DEF UnlockShared
  <2>2. /\ index[t] \in SlotIds
        /\ FallbackHolds(t) = 0
        /\ slot[index[t]] > 1
    <3>1. index[t] \in SlotIds /\ FallbackHolds(t) \in Nat
      BY <1>2, FallbackNat DEF SlotIds
    <3>2. FallbackHolds(t) = 0
      BY <1>1, <1>2, <3>1 DEF FallbackInv
    <3>3. QED
      BY <1>1, <1>2, <3>1, <3>2 DEF SlotCount
  <2>3. slot' \in [SlotIds -> Nat]
    BY <2>1, <2>2
  <2>4. \A u \in Threads : Wanting(u)' <=> Wanting(u)
    BY <2>1 DEF Wanting
  <2>5. \A u \in Threads : FallbackHolds(u)' = FallbackHolds(u)
    BY <1>1, <2>1 DEF FallbackHolds
  <2>6. WantInv' /\ SlotOwnership' /\ ScanInv'
    BY <1>1, <2>1, <2>2, <2>4 DEF WantInv, SlotOwnership, ScanInv
  <2>7. SlotCount'
    <3>1. \A u \in Threads \ {t} : index[u] = 0 \/ index[u] # index[t]
      BY <1>2, <2>2 DEF SlotOwnership
    <3>2. QED
      <4> SUFFICES ASSUME NEW u \in Threads, index[u] # 0
                   PROVE  slot'[index[u]] = 1 + (sheld'[u] - FallbackHolds(u))
                                              + (IF pc'[u] \in {"check", "retreat"} THEN 1 ELSE 0)
        BY <1>1, <2>5 DEF SlotCount
      <4>1. slot[index[u]] = 1 + (sheld[u] - FallbackHolds(u))
                                + (IF pc[u] \in {"check", "retreat"} THEN 1 ELSE 0)
        BY DEF SlotCount
      <4>2. CASE u = t
        BY <4>1, <4>2, FallbackNat, <1>1, <2>1, <2>2
      <4>3. CASE u # t
        BY <4>1, <4>3, <1>1, <2>1, <2>2, <3>1
      <4>4. QED
        BY <4>2, <4>3
  <2>8. FallbackInv'
    BY <1>1, <2>1, <2>2, <2>5 DEF FallbackInv
  <2>9. QED
    BY <1>1, <2>1, <2>3, <2>6, <2>7, <2>8
<1>3. CASE index[t] = 0
  <2>1. GiveUpCount(t) /\ UNCHANGED slot
    BY <1>3 DEF UnlockShared
  <2>2. sheld[t] = FallbackHolds(t) /\ owner = t
    BY <1>1, <1>3 DEF FallbackInv, FallbackHolds
  <2>3. /\ xcount \in Nat \ {0} /\ xcount' = xcount - 1
        /\ xcount' \in Nat /\ pc' \in [Threads -> Labels]
        /\ xcount = 1 => owner' = NoThread /\ pc' = [pc EXCEPT ![t] = "drop"]
        /\ xcount # 1 => UNCHANGED <<owner, pc>>
        /\ \A u \in Threads : Wanting(u)' <=> u = t
        /\ \A u \in Threads : Wanting(u) <=> u = t
        /\ \A u \in Threads \ {t} : xheld[u] = 0
    BY <1>1, <2>1, <2>2, GiveUpFacts
  <2>4. owner' \in Threads \cup {NoThread}
    BY <2>3
  <2>5. xcount > xheld[t]
    BY <1>1, <2>2 DEF FallbackHolds
  <2>6. /\ FallbackHolds(t)' = FallbackHolds(t) - 1
        /\ \A u \in Threads \ {t} : FallbackHolds(u)' = FallbackHolds(u)
    BY <1>1, <2>2, <2>3, <2>5 DEF FallbackHolds
  <2>7. WantInv'
    <3>1. CASE xcount = 1
      BY <3>1, <1>1, <2>2, <2>3, <2>5 DEF WantInv
    <3>2. CASE xcount # 1
      <4>1. xcount' > 0 /\ xcount' >= xheld'[t]
        BY <3>2, <1>1, <2>3, <2>5
      <4>2. QED
        BY <3>2, <4>1, <1>1, <2>2, <2>3 DEF WantInv
    <3>3. QED
      BY <3>1, <3>2
  <2>8. \A u \in Threads : pc'[u] = pc[u] \/ (u = t /\ pc'[u] = "drop")
    BY <2>3
  <2>9. SlotOwnership' /\ SlotCount'
    BY <1>1, <1>3, <2>1, <2>6, <2>8 DEF SlotOwnership, SlotCount
  <2>10. ScanInv'
    <3>1. \A u \in Threads : sheld[u] = 0 => sheld'[u] = 0
      BY <1>1
    <3>2. QED
      BY <1>1, <2>8, <3>1 DEF ScanInv
  <2>11. FallbackInv'
    BY <1>1, <1>3, <2>2, <2>6, <2>8 DEF FallbackInv
  <2>12. QED
    BY <1>1, <2>1, <2>3, <2>4, <2>7, <2>9, <2>10, <2>11
<1>4. QED
  BY <1>2, <1>3

\* The registration of a thread ends with the thread.
LEMMA ExitThreadStep == ASSUME IInv, NEW t \in Threads, ExitThread(t) PROVE IInv'
<1> USE CFAssumption DEF IInv, TypeOK, Inv, ExitThread
<1>1. index[t] \in SlotIds /\ FallbackHolds(t) = 0 /\ slot[index[t]] = 1
  <2>1. index[t] \in SlotIds /\ FallbackHolds(t) \in Nat
    BY FallbackNat DEF SlotIds
  <2>2. FallbackHolds(t) = 0
    BY <2>1 DEF FallbackInv
  <2>3. QED
    BY <2>1, <2>2 DEF SlotCount
<1>2. slot' \in [SlotIds -> Nat] /\ index' \in [Threads -> 0..Slots]
  BY <1>1
<1>3. \A u \in Threads : Wanting(u)' <=> Wanting(u)
  BY DEF Wanting
<1>4. \A u \in Threads : FallbackHolds(u)' = FallbackHolds(u)
  BY DEF FallbackHolds
<1>5. WantInv' /\ ScanInv'
  BY <1>3 DEF WantInv, ScanInv
<1>6. SlotOwnership'
  BY <1>1 DEF SlotOwnership
<1>7. SlotCount'
  <2>1. \A u \in Threads \ {t} : index[u] = 0 \/ index[u] # index[t]
    BY <1>1 DEF SlotOwnership
  <2>2. QED
    BY <1>1, <1>4, <2>1 DEF SlotCount, SlotIds
<1>8. FallbackInv'
  BY <1>1, <1>4 DEF FallbackInv
<1>9. QED
  BY <1>2, <1>5, <1>6, <1>7, <1>8

\* A mutex nobody has used yet: want_x_lock down and every slot unregistered.
LEMMA InitIInv == Init => IInv
<1> SUFFICES ASSUME Init PROVE IInv
  OBVIOUS
<1> USE CFAssumption
<1>1. TypeOK
  <2>1. want \in BOOLEAN /\ owner \in Threads \cup {NoThread} /\ xcount \in Nat
    BY DEF Init
  <2>2. slot \in [SlotIds -> Nat] /\ pc \in [Threads -> Labels]
    BY DEF Init, Labels
  <2>3. index \in [Threads -> 0..Slots] /\ scan \in [Threads -> 1..Slots + 1]
    BY DEF Init
  <2>4. sheld \in [Threads -> Nat] /\ xheld \in [Threads -> Nat]
    BY DEF Init
  <2>5. QED
    BY <2>1, <2>2, <2>3, <2>4 DEF TypeOK
<1>2. \A u \in Threads : ~Wanting(u) /\ FallbackHolds(u) = 0
  BY DEF Init, Wanting, FallbackHolds
<1>3. WantInv
  BY <1>2 DEF Init, WantInv
<1>4. SlotOwnership /\ SlotCount
  BY <1>2 DEF Init, SlotOwnership, SlotCount
<1>5. FallbackInv /\ ScanInv
  BY <1>2 DEF Init, FallbackInv, ScanInv
<1>6. QED
  BY <1>1, <1>3, <1>4, <1>5 DEF IInv, Inv

\* Every call, every access to want_x_lock, owner_thread_id or a slot, and the
\* end of a thread preserve the invariant.
LEMMA NextIInv == IInv /\ [Next]_vars => IInv'
<1> SUFFICES ASSUME IInv, [Next]_vars PROVE IInv'
  OBVIOUS
<1>1. CASE UNCHANGED vars
  BY <1>1 DEF vars, IInv, TypeOK, Inv, WantInv, SlotOwnership, SlotCount,
              FallbackInv, ScanInv, Wanting, FallbackHolds
<1>2. CASE Next
  <2>1. PICK t \in Threads : \/ LockShared(t) \/ UnlockShared(t)
                             \/ Lock(t) \/ Unlock(t)
                             \/ ExitThread(t)
                             \/ Step(t)
    BY <1>2 DEF Next
  <2>2. CASE LockShared(t)
    BY <2>2, LockSharedStep
  <2>3. CASE UnlockShared(t)
    BY <2>3, UnlockSharedStep
  <2>4. CASE Lock(t)
    BY <2>4, LockStep
  <2>5. CASE Unlock(t)
    BY <2>5, UnlockStep
  <2>6. CASE ExitThread(t)
    BY <2>6, ExitThreadStep
  <2>7. CASE Step(t)
    BY <2>7, AnnounceStep, CheckStep, RetreatStep, SpinStep, ClaimSharedStep,
       OwnSharedStep, DropStep, ClaimStep, OwnStep, ScanSlotStep, EndScanStep DEF Step
  <2>8. QED
    BY <2>1, <2>2, <2>3, <2>4, <2>5, <2>6, <2>7
<1>3. QED
  BY <1>1, <1>2

\* The inductive invariant holds in every reachable state, for every set of
\* threads, number of slots, depth and kind of nesting.
THEOREM Invariance == Spec => []IInv
<1>1. QED
  BY InitIInv, NextIInv, PTL DEF Spec

\* Every variable of the mutex keeps its type: no slot and no
\* recursive_xlock_count goes below zero.
THEOREM TypeCorrect == Spec => []TypeOK
<1>1. IInv => TypeOK
  BY DEF IInv
<1>2. QED
  BY <1>1, Invariance, PTL

\* want_x_lock, owner_thread_id, recursive_xlock_count and the slots agree with
\* the holds of the threads: none leaks, and none is given back twice.
THEOREM HoldsAreCounted == Spec => []Inv
<1>1. IInv => Inv
  BY DEF IInv
<1>2. QED
  BY <1>1, Invariance, PTL

\* A thread that has the mutex alone excludes every other writer, every reader
\* with a slot, and every reader that found none.
THEOREM MutualExclusion == Spec => []Exclusion
<1>1. IInv => Exclusion
  BY DEF IInv, Inv, TypeOK, WantInv, ScanInv, Exclusion, RW!Exclusion
<1>2. QED
  BY <1>1, Invariance, PTL

\* One step of a thread is one step of the abstract lock or invisible to it.
LEMMA AbstractStep == ASSUME IInv, NEW t \in Threads,
                             \/ LockShared(t) \/ UnlockShared(t)
                             \/ Lock(t) \/ Unlock(t)
                             \/ ExitThread(t)
                             \/ Step(t)
                      PROVE  [RW!RWNext]_RW!rwvars
<1> DEFINE Stutter == UNCHANGED <<sheld, xheld>>
           Shares == RW!AcquireShared(t)
           Excludes == RW!AcquireExclusive(t)
<1>1. Stutter \/ Shares \/ Excludes \/ RW!ReleaseShared(t) \/ RW!ReleaseExclusive(t)
         => [RW!RWNext]_RW!rwvars
  BY DEF RW!RWNext, RW!rwvars
<1>2. CASE LockShared(t) \/ ExitThread(t) \/ Retreat(t) \/ Spin(t) \/ Drop(t)
           \/ Claim(t) \/ Own(t) \/ ScanSlot(t)
  BY <1>1, <1>2 DEF LockShared, ExitThread, Retreat, Spin, Drop, Claim, Own, ScanSlot
<1>3. CASE UnlockShared(t)
  BY <1>1, <1>3 DEF UnlockShared, RW!ReleaseShared
<1>4. CASE Unlock(t)
  BY <1>1, <1>4 DEF Unlock, RW!ReleaseExclusive
<1>5. CASE Announce(t)
  <2>1. CASE slot[index[t]] > 1
    <3>1. index[t] # 0 /\ pc[t] = "announce"
      BY <1>5 DEF Announce, IInv, Inv, FallbackInv
    <3>2. slot[index[t]] = 1 + (sheld[t] - FallbackHolds(t))
      BY <3>1, FallbackNat DEF IInv, Inv, TypeOK, SlotCount
    <3>3. sheld[t] > 0
      BY <2>1, <3>2, FallbackNat DEF IInv, TypeOK
    <3>4. \A u \in Threads \ {t} : xheld[u] = 0
      BY <3>3 DEF IInv, Inv, TypeOK, ScanInv
    <3>5. ~(slot[index[t]] <= 1)
      BY <2>1, <3>1 DEF IInv, TypeOK, SlotIds
    <3>6. QED
      BY <1>1, <1>5, <3>4, <3>5 DEF Announce, RW!AcquireShared, RW!Others
  <2>2. CASE ~(slot[index[t]] > 1)
    BY <1>1, <1>5, <2>2 DEF Announce
  <2>3. QED
    BY <2>1, <2>2
<1>6. CASE Check(t)
  <2>1. CASE want
    BY <1>1, <1>6, <2>1 DEF Check
  <2>2. CASE ~want
    <3>1. \A u \in Threads : xheld[u] = 0
      BY <2>2 DEF IInv, Inv, TypeOK, WantInv, Wanting
    <3>2. QED
      BY <1>1, <1>6, <2>2, <3>1 DEF Check, RW!AcquireShared, RW!Others
  <2>3. QED
    BY <2>1, <2>2
<1>7. CASE ClaimShared(t)
  <2>1. CASE owner = t
    <3>1. \A u \in Threads \ {t} : xheld[u] = 0
      BY <2>1 DEF IInv, Inv, TypeOK, WantInv
    <3>2. QED
      BY <1>1, <1>7, <2>1, <3>1 DEF ClaimShared, RW!AcquireShared, RW!Others
  <2>2. CASE owner # t
    BY <1>1, <1>7, <2>2 DEF ClaimShared
  <2>3. QED
    BY <2>1, <2>2
<1>8. CASE OwnShared(t)
  <2>1. \A u \in Threads : xheld[u] = 0
    BY <1>8, NoOwner DEF OwnShared
  <2>2. QED
    BY <1>1, <1>8, <2>1 DEF OwnShared, RW!AcquireShared, RW!Others
<1>9. CASE EndScan(t)
  <2>1. owner = t /\ pc[t] = "scan" /\ scan[t] > Slots
    BY <1>9 DEF EndScan, IInv, Inv, WantInv
  <2>2. \A u \in Threads \ {t} : xheld[u] = 0
    BY <2>1 DEF IInv, Inv, TypeOK, WantInv
  <2>3. \A u \in Threads \ {t} : index[u] < scan[t]
    BY <2>1, CFAssumption DEF IInv, TypeOK
  <2>4. \A u \in Threads \ {t} : sheld[u] = 0
    BY <2>1, <2>3 DEF IInv, Inv, ScanInv
  <2>5. QED
    BY <1>1, <1>9, <2>2, <2>4 DEF EndScan, RW!AcquireExclusive, RW!Others
<1>10. CASE Lock(t)
  <2>1. CASE owner = t
    <3>1. pc[t] = "rest" /\ sheld[t] = 0
      BY <1>10 DEF Lock, MayLock
    <3>2. xheld[t] > 0
      BY <2>1, <3>1 DEF IInv, Inv, TypeOK, WantInv, FallbackInv, FallbackHolds
    <3>3. \A u \in Threads \ {t} : xheld[u] = 0 /\ sheld[u] = 0
      BY <2>1, <3>2 DEF IInv, Inv, TypeOK, WantInv, ScanInv
    <3>4. QED
      BY <1>1, <1>10, <2>1, <3>3 DEF Lock, RW!AcquireExclusive, RW!Others
  <2>2. CASE owner # t
    BY <1>1, <1>10, <2>2 DEF Lock
  <2>3. QED
    BY <2>1, <2>2
<1>11. QED
  BY <1>2, <1>3, <1>4, <1>5, <1>6, <1>7, <1>8, <1>9, <1>10 DEF Step

\* The mutex implements the reader/writer lock: whatever the accesses of its
\* threads interleave to, the holds change as the holds of the abstract lock do.
THEOREM Refinement == Spec => ImplementsRWLock
<1>1. Init => RW!RWInit
  BY DEF Init, RW!RWInit
<1>2. IInv /\ [Next]_vars => [RW!RWNext]_RW!rwvars
  BY AbstractStep DEF Next, vars, RW!rwvars
<1>3. QED
  BY <1>1, <1>2, Invariance, PTL DEF Spec, ImplementsRWLock, RW!RWSpec
\* What the abstract lock promises follows from when it grants: a thread that has
\* it alone excludes all others, also after an upgrade and its release.
THEOREM TheLockExcludes == RW!RWSpec => [](RW!RWTypeOK /\ RW!Exclusion)
<1>1. RW!RWInit => RW!RWTypeOK /\ RW!Exclusion
  BY DEF RW!RWInit, RW!RWTypeOK, RW!Exclusion
<1>2. RW!RWTypeOK /\ RW!Exclusion /\ [RW!RWNext]_RW!rwvars => (RW!RWTypeOK /\ RW!Exclusion)'
  <2> SUFFICES ASSUME RW!RWTypeOK, RW!Exclusion, [RW!RWNext]_RW!rwvars
               PROVE  RW!RWTypeOK' /\ RW!Exclusion'
    OBVIOUS
  <2> USE DEF RW!RWTypeOK, RW!Exclusion, RW!Others
  <2>1. CASE UNCHANGED RW!rwvars
    BY <2>1 DEF RW!rwvars
  <2>2. ASSUME NEW t \in Threads, RW!AcquireShared(t) PROVE RW!RWTypeOK' /\ RW!Exclusion'
    BY <2>2 DEF RW!AcquireShared
  <2>3. ASSUME NEW t \in Threads, RW!ReleaseShared(t) PROVE RW!RWTypeOK' /\ RW!Exclusion'
    BY <2>3 DEF RW!ReleaseShared
  <2>4. ASSUME NEW t \in Threads, RW!AcquireExclusive(t) PROVE RW!RWTypeOK' /\ RW!Exclusion'
    BY <2>4 DEF RW!AcquireExclusive
  <2>5. ASSUME NEW t \in Threads, RW!ReleaseExclusive(t) PROVE RW!RWTypeOK' /\ RW!Exclusion'
    BY <2>5 DEF RW!ReleaseExclusive
  <2>6. ASSUME NEW t \in Threads, RW!ReleaseBoth(t) PROVE RW!RWTypeOK' /\ RW!Exclusion'
    BY <2>6 DEF RW!ReleaseBoth
  <2>7. QED
    BY <2>1, <2>2, <2>3, <2>4, <2>5, <2>6 DEF RW!RWNext
<1>3. QED
  BY <1>1, <1>2, PTL DEF RW!RWSpec

-----------------------------------------------------------------------------
(***************************************************************************)
(* Waiting.  The rest is about the nestings that are safe: shared in       *)
(* shared by a thread with a slot, exclusive in exclusive.                 *)
(***************************************************************************)
SafeNesting == Nesting \subseteq {"S_in_S", "X_in_X"}

\* A thread that may come to wait for want_x_lock does not own it.
NestInv == \A t \in Threads :
              pc[t] \in {"announce", "check", "retreat", "spin", "claim_x"} => owner # t

\* A thread that shares the mutex and begins to share it again is not the owner.
LEMMA SharersOwnNothing == ASSUME SafeNesting, IInv, NEW t \in Threads, MayShare(t)
                           PROVE  index[t] # 0 \/ FreeSlots # {} => owner # t
<1> SUFFICES ASSUME owner = t PROVE ~(index[t] # 0 \/ FreeSlots # {})
  OBVIOUS
<1> USE DEF IInv, Inv, TypeOK
<1>1. pc[t] = "rest" /\ xheld[t] = 0
  BY DEF MayShare, SafeNesting
<1>2. FallbackHolds(t) = xcount /\ xcount > 0
  BY <1>1 DEF FallbackHolds, WantInv
<1>3. index[t] = 0 /\ sheld[t] = xcount
  BY <1>1, <1>2 DEF FallbackInv
<1>4. FALSE
  BY <1>1, <1>2, <1>3 DEF MayShare, SafeNesting
<1>5. QED
  BY <1>4

\* No step makes a thread wait for what it owns.
LEMMA NestStep == ASSUME SafeNesting, IInv, NestInv, [Next]_vars PROVE NestInv'
<1> USE DEF NestInv
<1>1. CASE UNCHANGED vars
  BY <1>1 DEF vars
<1>2. CASE Next
  <2>1. PICK t \in Threads : \/ LockShared(t) \/ UnlockShared(t)
                             \/ Lock(t) \/ Unlock(t)
                             \/ ExitThread(t)
                             \/ Step(t)
    BY <1>2 DEF Next
  <2> DEFINE Waiting == {"announce", "check", "retreat", "spin", "claim_x"}
  <2> USE DEF IInv, TypeOK
  <2>2. CASE LockShared(t)
    <3>1. MayShare(t) /\ UNCHANGED owner
      BY <2>2 DEF LockShared
    <3>2. \/ pc' = [pc EXCEPT ![t] = "announce"] /\ (index[t] # 0 \/ FreeSlots # {})
          \/ pc' = [pc EXCEPT ![t] = "claim_s"]
      BY <2>2 DEF LockShared, RegisterThread, Goto
    <3>3. QED
      BY <3>1, <3>2, SharersOwnNothing
  <2>3. CASE Lock(t)
    BY <2>3 DEF Lock, Goto
  <2>4. CASE OwnShared(t) \/ Own(t)
    <3>1. /\ owner' = t
          /\ \A u \in Threads \ {t} : pc'[u] = pc[u]
          /\ pc'[t] \notin Waiting
      BY <2>4 DEF OwnShared, Own, Goto
    <3>2. QED
      BY <3>1
  <2>5. CASE UnlockShared(t) \/ Unlock(t)
    <3>1. /\ owner' \in {owner, NoThread}
          /\ \A u \in Threads : pc'[u] = pc[u] \/ pc'[u] = "drop"
      BY <2>5 DEF UnlockShared, Unlock, GiveUpCount, Goto
    <3>2. QED
      BY <3>1, CFAssumption
  <2>6. CASE \/ ExitThread(t) \/ Announce(t) \/ Check(t) \/ Retreat(t) \/ Spin(t)
             \/ ClaimShared(t) \/ Drop(t) \/ Claim(t) \/ ScanSlot(t) \/ EndScan(t)
    <3>1. /\ UNCHANGED owner
          /\ \A u \in Threads : pc'[u] = pc[u] \/ pc'[u] \notin Waiting \/ pc[u] \in Waiting
      BY <2>6 DEF ExitThread, Announce, Check, Retreat, Spin, ClaimShared, Drop,
                  Claim, ScanSlot, EndScan, Goto
    <3>2. QED
      BY <3>1
  <2>7. QED
    BY <2>1, <2>2, <2>3, <2>4, <2>5, <2>6 DEF Step
<1>3. QED
  BY <1>1, <1>2

\* With the safe nestings, NestInv holds in every reachable state.
LEMMA NestInvariance == SafeNesting => (Spec => [](IInv /\ NestInv))
<1> SUFFICES ASSUME SafeNesting PROVE Spec => [](IInv /\ NestInv)
  OBVIOUS
<1>1. Init => NestInv
  BY CFAssumption DEF Init, NestInv
<1>2. IInv /\ NestInv /\ [Next]_vars => NestInv'
  BY NestStep
<1>3. QED
  BY <1>1, <1>2, Invariance, PTL DEF Spec

\* With the safe nestings no thread waits for a want_x_lock that it holds up
\* itself: a nested lock_shared or lock is granted.
THEOREM NestedHoldsAreGranted == SafeNesting => (Spec => []NeverWaitsForItself)
<1> SUFFICES ASSUME SafeNesting PROVE Spec => []NeverWaitsForItself
  OBVIOUS
<1>1. NestInv => NeverWaitsForItself
  BY DEF NestInv, NeverWaitsForItself
<1>2. QED
  BY <1>1, NestInvariance, PTL

\* The loops of lock_shared and lock that a thread cannot leave by itself.
Waits(t) == \/ pc[t] \in {"spin", "claim_x"} /\ want
            \/ pc[t] = "claim_s" /\ owner # t /\ want
            \/ pc[t] = "scan" /\ scan[t] <= Slots /\ slot[scan[t]] > 1

\* A thread inside a call, or with a hold that it is going to give up.
Busy(t) == pc[t] # "rest" \/ sheld[t] + xheld[t] > 0

\* Every thread that waits, waits for another one that does not: no ring of
\* threads waits for one another.
NoCircularWait ==
  \A t \in Threads : Waits(t) => \E u \in Threads \ {t} : Busy(u) /\ ~Waits(u)

\* A writer in its loop over the slots waits for a reader that does not wait:
\* the reader has the lock or is about to take its slot back.
LEMMA ScanWaitsForReader ==
  ASSUME IInv, NEW v \in Threads, pc[v] = "scan", Waits(v)
  PROVE  \E u \in Threads \ {v} : Busy(u) /\ ~Waits(u) /\ pc[u] \notin {"spin", "scan"}
<1> USE DEF IInv, Inv, TypeOK
<1>1. scan[v] \in SlotIds /\ slot[scan[v]] > 1
  BY CFAssumption DEF Waits, SlotIds
<1>2. PICK u \in Threads : index[u] = scan[v]
  BY <1>1 DEF SlotOwnership
<1>3. index[u] # 0 /\ slot[index[u]] > 1
  BY <1>1, <1>2, CFAssumption DEF SlotIds
<1>4. sheld[u] > FallbackHolds(u) \/ pc[u] \in {"check", "retreat"}
  BY <1>3, FallbackNat DEF SlotCount
<1>5. u # v
  BY <1>4, FallbackNat DEF FallbackInv
<1>6. owner = v
  BY DEF WantInv
<1>7. owner # u /\ FallbackHolds(u) = 0
  BY <1>5, <1>6 DEF FallbackHolds
<1>8. pc[u] \notin {"spin", "claim_s", "claim_x", "scan"}
  BY <1>3, <1>4, <1>7 DEF FallbackInv
<1>9. Busy(u) /\ ~Waits(u)
  BY <1>4, <1>7, <1>8 DEF Busy, Waits
<1>10. QED
  BY <1>5, <1>8, <1>9

\* Behind want_x_lock there is a thread that runs, or a writer that waits for a
\* reader that runs.
LEMMA BehindWant ==
  ASSUME IInv, NestInv, want, NEW t \in Threads, owner # t,
         pc[t] \in {"spin", "claim_s", "claim_x"}
  PROVE  \E u \in Threads \ {t} : Busy(u) /\ ~Waits(u)
<1> USE DEF IInv, Inv, TypeOK
<1>1. PICK v \in Threads : Wanting(v)
  BY DEF WantInv
<1>2. v # t
  BY <1>1 DEF Wanting
<1>3. CASE Waits(v) /\ pc[v] = "scan"
  <2>1. PICK u \in Threads \ {v} : Busy(u) /\ ~Waits(u) /\ pc[u] \notin {"spin", "scan"}
    BY <1>3, ScanWaitsForReader
  <2>2. CASE u = t
    BY <2>1, <2>2 DEF Waits
  <2>3. QED
    BY <2>1, <2>2
<1>4. CASE ~(Waits(v) /\ pc[v] = "scan")
  <2>1. ~Waits(v)
    BY <1>1, <1>4 DEF Waits, Wanting, NestInv
  <2>2. owner = v /\ pc[v] = "rest" => sheld[v] + xheld[v] > 0
    BY DEF WantInv, FallbackInv, FallbackHolds
  <2>3. Busy(v)
    BY <1>1, <2>2 DEF Busy, Wanting
  <2>4. QED
    BY <1>2, <2>1, <2>3
<1>5. QED
  BY <1>3, <1>4

\* With the safe nestings, readers with a slot, readers without one and writers
\* never end up waiting for each other in a ring.
THEOREM NoRingOfWaiters == SafeNesting => (Spec => []NoCircularWait)
<1> SUFFICES ASSUME SafeNesting PROVE Spec => []NoCircularWait
  OBVIOUS
<1>1. IInv /\ NestInv => NoCircularWait
  <2> SUFFICES ASSUME IInv, NestInv, NEW t \in Threads, Waits(t)
               PROVE  \E u \in Threads \ {t} : Busy(u) /\ ~Waits(u)
    BY DEF NoCircularWait
  <2>1. CASE pc[t] = "scan"
    BY <2>1, ScanWaitsForReader
  <2>2. CASE pc[t] # "scan"
    BY <2>2, BehindWant DEF Waits, NestInv
  <2>3. QED
    BY <2>1, <2>2
<1>2. QED
  BY <1>1, NestInvariance, PTL

\* While a writer is behind want_x_lock, no thread that shares nothing comes to
\* share: a writer is not overtaken, whatever the nestings.
NotOvertaken ==
  [][\A w, t \in Threads : pc[w] \in {"own_x", "scan"} /\ sheld[t] = 0 => sheld'[t] = 0]_vars

\* A writer that raised want_x_lock waits for the readers it found, and for no
\* reader that came later.
THEOREM WritersAreNotOvertaken == Spec => NotOvertaken
<1> DEFINE A == \A w, t \in Threads :
                   pc[w] \in {"own_x", "scan"} /\ sheld[t] = 0 => sheld'[t] = 0
<1>1. ASSUME IInv, Next PROVE A
  <2> USE <1>1 DEF IInv, Inv, TypeOK
  <2> SUFFICES ASSUME NEW w \in Threads, NEW t \in Threads,
                      pc[w] \in {"own_x", "scan"}, sheld[t] = 0
               PROVE  sheld'[t] = 0
    OBVIOUS
  <2>1. Wanting(w) /\ want
    BY DEF WantInv, Wanting
  <2>2. PICK u \in Threads : \/ LockShared(u) \/ UnlockShared(u)
                             \/ Lock(u) \/ Unlock(u)
                             \/ ExitThread(u)
                             \/ Step(u)
    BY <1>1 DEF Next
  <2>3. CASE \/ LockShared(u) \/ Lock(u) \/ Unlock(u) \/ ExitThread(u)
             \/ Retreat(u) \/ Spin(u) \/ Drop(u) \/ Claim(u) \/ Own(u)
             \/ ScanSlot(u) \/ EndScan(u)
    BY <2>3 DEF LockShared, Lock, Unlock, ExitThread, Retreat, Spin, Drop, Claim, Own,
                ScanSlot, EndScan
  <2>4. CASE UnlockShared(u)
    BY <2>4 DEF UnlockShared
  <2>5. CASE Announce(u)
    <3>1. CASE u = t
      <4>1. pc[t] = "announce" /\ index[t] # 0
        BY <2>5, <3>1 DEF Announce, FallbackInv
      <4>2. slot[index[t]] = 1 + (sheld[t] - FallbackHolds(t))
        BY <4>1, FallbackNat DEF SlotCount
      <4>3. ~(slot[index[t]] > 1)
        BY <4>2, FallbackNat
      <4>4. QED
        BY <2>5, <3>1, <4>3 DEF Announce
    <3>2. CASE u # t
      BY <2>5, <3>2 DEF Announce
    <3>3. QED
      BY <3>1, <3>2
  <2>6. CASE Check(u)
    BY <2>1, <2>6 DEF Check
  <2>7. CASE ClaimShared(u)
    <3>1. CASE u = t
      <4>1. pc[t] = "claim_s" /\ w # t
        BY <2>7, <3>1 DEF ClaimShared
      <4>2. owner # t
        BY <2>1, <4>1 DEF WantInv, Wanting
      <4>3. QED
        BY <2>1, <2>7, <3>1, <4>2 DEF ClaimShared
    <3>2. CASE u # t
      BY <2>7, <3>2 DEF ClaimShared
    <3>3. QED
      BY <3>1, <3>2
  <2>8. CASE OwnShared(u)
    <3>1. u # w /\ Wanting(u)
      BY <2>8 DEF OwnShared, Wanting
    <3>2. QED
      BY <2>1, <3>1 DEF WantInv
  <2>9. QED
    BY <2>2, <2>3, <2>4, <2>5, <2>6, <2>7, <2>8 DEF Step
<1> HIDE DEF A
<1>2. IInv /\ [Next]_vars => [A]_vars
  BY <1>1
<1>3. Spec => [][A]_vars
  BY <1>2, Invariance, PTL DEF Spec
<1>4. QED
  BY <1>3 DEF A, NotOvertaken
=============================================================================
