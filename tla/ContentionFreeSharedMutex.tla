---------------------- MODULE ContentionFreeSharedMutex ----------------------
(***************************************************************************)
(* sf::contention_free_shared_mutex, the lock behind mp::SharedMutex: it   *)
(* guards every package and the global tables of the Lisp image.           *)
(*                                                                         *)
(* A thread registers a slot of the mutex the first time it shares it; the *)
(* slot holds 0 (unregistered), 1 (registered and free) or 1 + the number  *)
(* of shared holds.  A writer raises want_x_lock and then waits for each   *)
(* slot in turn to be free.  A reader raises its slot and then looks at    *)
(* want_x_lock, and takes its slot back while the flag is up.  A thread    *)
(* that finds no free slot shares the lock by taking want_x_lock itself.   *)
(*                                                                         *)
(* Each access to want_x_lock, owner_thread_id or a slot is a step of its  *)
(* own: the accesses that decide are sequentially consistent in the code.  *)
(* Slots are abstracted to 1..Slots (36 in the code), a thread that exits  *)
(* may come back as a new one, and the destruction of a mutex in use is    *)
(* left out.                                                               *)
(***************************************************************************)
EXTENDS Naturals

CONSTANTS Threads,   \* the threads that use the mutex
          NoThread,  \* owner_thread_id when nobody is the owner
          Slots,     \* contention_free_count
          MaxDepth,  \* bound of the model: holds of one thread at a time
          Nesting    \* the nestings of holds the clients are allowed

(***************************************************************************)
(* Shared in shared and exclusive in exclusive are what the comment above  *)
(* the class and its first line promise; S_in_fallback_S is shared in      *)
(* shared by a thread whose outer hold found no free slot.  A thread that  *)
(* holds shared never locks exclusively: lock() asserts it.                *)
(***************************************************************************)
Nestings == {"S_in_S", "S_in_fallback_S", "X_in_X", "S_in_X"}

ASSUME CFAssumption == /\ NoThread \notin Threads
                       /\ Slots \in Nat
                       /\ MaxDepth \in Nat
                       /\ Nesting \subseteq Nestings

VARIABLES want,    \* want_x_lock
          owner,   \* owner_thread_id
          xcount,  \* recursive_xlock_count
          slot,    \* shared_locks_array
          index,   \* thread_local_index_hashmap: a thread's slot, 0 if it has none
          pc,      \* where each thread is in its call, "rest" outside of one
          scan,    \* the slot the loop of lock() looks at
          sheld,   \* shared holds of each thread: what its calls add up to
          xheld    \* exclusive holds of each thread

vars == <<want, owner, xcount, slot, index, pc, scan, sheld, xheld>>

SlotIds == 1..Slots

Labels == {"rest", "announce", "check", "retreat", "spin", "claim_s", "own_s",
           "claim_x", "own_x", "scan", "drop"}

Init == /\ want = FALSE
        /\ owner = NoThread
        /\ xcount = 0
        /\ slot = [i \in SlotIds |-> 0]
        /\ index = [t \in Threads |-> 0]
        /\ pc = [t \in Threads |-> "rest"]
        /\ scan = [t \in Threads |-> 1]
        /\ sheld = [t \in Threads |-> 0]
        /\ xheld = [t \in Threads |-> 0]

Goto(t, l) == pc' = [pc EXCEPT ![t] = l]

\* The client of the lock: which call a thread may make given what it holds.
MayShare(t) == /\ pc[t] = "rest"
               /\ sheld[t] + xheld[t] < MaxDepth
               /\ xheld[t] > 0 => "S_in_X" \in Nesting
               /\ sheld[t] > 0 /\ xheld[t] = 0 =>
                     (IF index[t] = 0 THEN "S_in_fallback_S" ELSE "S_in_S") \in Nesting

MayLock(t) == /\ pc[t] = "rest"
              /\ sheld[t] + xheld[t] < MaxDepth
              /\ sheld[t] = 0
              /\ xheld[t] > 0 => "X_in_X" \in Nesting

-----------------------------------------------------------------------------
\* lock_shared: register_thread, which keeps a slot once it has one.  Slots
\* and references to the slot array are in step, so the use_count test is the
\* test for a free slot.
FreeSlots == {i \in SlotIds : slot[i] = 0}

RegisterThread(t) ==
  \/ /\ index[t] # 0
     /\ Goto(t, "announce")
     /\ UNCHANGED <<slot, index>>
  \/ /\ index[t] = 0
     /\ \E i \in FreeSlots : /\ slot' = [slot EXCEPT ![i] = 1]
                             /\ index' = [index EXCEPT ![t] = i]
     /\ Goto(t, "announce")
  \/ /\ index[t] = 0
     /\ FreeSlots = {}
     /\ Goto(t, "claim_s")
     /\ UNCHANGED <<slot, index>>

LockShared(t) == /\ MayShare(t)
                 /\ RegisterThread(t)
                 /\ UNCHANGED <<want, owner, xcount, scan, sheld, xheld>>

\* A recursive hold is only counted; a first one must look at want_x_lock.
Announce(t) ==
  /\ pc[t] = "announce"
  /\ slot' = [slot EXCEPT ![index[t]] = @ + 1]
  /\ \/ /\ slot[index[t]] > 1
        /\ Goto(t, "rest")
        /\ sheld' = [sheld EXCEPT ![t] = @ + 1]
     \/ /\ slot[index[t]] <= 1
        /\ Goto(t, "check")
        /\ UNCHANGED sheld
  /\ UNCHANGED <<want, owner, xcount, index, scan, xheld>>

Check(t) ==
  /\ pc[t] = "check"
  /\ \/ /\ want
        /\ Goto(t, "retreat")
        /\ UNCHANGED sheld
     \/ /\ ~want
        /\ Goto(t, "rest")
        /\ sheld' = [sheld EXCEPT ![t] = @ + 1]
  /\ UNCHANGED <<want, owner, xcount, slot, index, scan, xheld>>

\* Faulty: the reader waits with its slot still raised.
RetreatKeepingSlot(t) == /\ pc[t] = "retreat"
                         /\ Goto(t, "spin")
                         /\ UNCHANGED <<want, owner, xcount, slot, index, scan, sheld, xheld>>

Retreat(t) == /\ pc[t] = "retreat"
              /\ slot' = [slot EXCEPT ![index[t]] = @ - 1]
              /\ Goto(t, "spin")
              /\ UNCHANGED <<want, owner, xcount, index, scan, sheld, xheld>>

Spin(t) == /\ pc[t] = "spin"
           /\ ~want
           /\ Goto(t, "announce")
           /\ UNCHANGED <<want, owner, xcount, slot, index, scan, sheld, xheld>>

\* Faulty: want_x_lock is stored, not exchanged.
ClaimSharedBlindly(t) ==
  /\ pc[t] = "claim_s"
  /\ want' = TRUE
  /\ Goto(t, "own_s")
  /\ UNCHANGED <<owner, xcount, slot, index, scan, sheld, xheld>>

\* The fallback of a thread without a slot: it owns want_x_lock, and does not
\* wait for the readers.
ClaimShared(t) ==
  /\ pc[t] = "claim_s"
  /\ \/ /\ owner = t
        /\ xcount' = xcount + 1
        /\ sheld' = [sheld EXCEPT ![t] = @ + 1]
        /\ Goto(t, "rest")
        /\ UNCHANGED want
     \/ /\ owner # t
        /\ ~want
        /\ want' = TRUE
        /\ Goto(t, "own_s")
        /\ UNCHANGED <<xcount, sheld>>
  /\ UNCHANGED <<owner, slot, index, scan, xheld>>

\* Faulty: the hold is not counted.
OwnSharedUncounted(t) == /\ pc[t] = "own_s"
                         /\ owner' = t
                         /\ sheld' = [sheld EXCEPT ![t] = @ + 1]
                         /\ Goto(t, "rest")
                         /\ UNCHANGED <<want, xcount, slot, index, scan, xheld>>

OwnShared(t) == /\ pc[t] = "own_s"
                /\ owner' = t
                /\ xcount' = xcount + 1
                /\ sheld' = [sheld EXCEPT ![t] = @ + 1]
                /\ Goto(t, "rest")
                /\ UNCHANGED <<want, slot, index, scan, xheld>>

-----------------------------------------------------------------------------
\* Faulty: owner_thread_id is left behind.
GiveUpCountOnly(t) == /\ xcount' = xcount - 1
                      /\ IF xcount = 1 THEN Goto(t, "drop") ELSE UNCHANGED pc
                      /\ UNCHANGED owner

\* The last recursive hold gives owner_thread_id up, and then want_x_lock.
GiveUpCount(t) ==
  /\ xcount' = xcount - 1
  /\ IF xcount = 1
     THEN owner' = NoThread /\ Goto(t, "drop")
     ELSE UNCHANGED <<owner, pc>>

UnlockShared(t) ==
  /\ pc[t] = "rest"
  /\ sheld[t] > 0
  /\ sheld' = [sheld EXCEPT ![t] = @ - 1]
  /\ \/ /\ index[t] # 0
        /\ slot' = [slot EXCEPT ![index[t]] = @ - 1]
        /\ UNCHANGED <<owner, xcount, pc>>
     \/ /\ index[t] = 0
        /\ GiveUpCount(t)
        /\ UNCHANGED slot
  /\ UNCHANGED <<want, index, scan, xheld>>

\* Faulty: want_x_lock stays up.
DropNothing(t) == /\ pc[t] = "drop"
                  /\ Goto(t, "rest")
                  /\ UNCHANGED <<want, owner, xcount, slot, index, scan, sheld, xheld>>

Drop(t) == /\ pc[t] = "drop"
           /\ want' = FALSE
           /\ Goto(t, "rest")
           /\ UNCHANGED <<owner, xcount, slot, index, scan, sheld, xheld>>

-----------------------------------------------------------------------------
Lock(t) ==
  /\ MayLock(t)
  /\ \/ /\ owner = t
        /\ xcount' = xcount + 1
        /\ xheld' = [xheld EXCEPT ![t] = @ + 1]
        /\ UNCHANGED pc
     \/ /\ owner # t
        /\ Goto(t, "claim_x")
        /\ UNCHANGED <<xcount, xheld>>
  /\ UNCHANGED <<want, owner, slot, index, scan, sheld>>

Claim(t) == /\ pc[t] = "claim_x"
            /\ ~want
            /\ want' = TRUE
            /\ Goto(t, "own_x")
            /\ UNCHANGED <<owner, xcount, slot, index, scan, sheld, xheld>>

Own(t) == /\ pc[t] = "own_x"
          /\ owner' = t
          /\ scan' = [scan EXCEPT ![t] = 1]
          /\ Goto(t, "scan")
          /\ UNCHANGED <<want, xcount, slot, index, sheld, xheld>>

\* One slot seen free is not looked at again.
ScanSlot(t) == /\ pc[t] = "scan"
               /\ scan[t] <= Slots
               /\ slot[scan[t]] <= 1
               /\ scan' = [scan EXCEPT ![t] = @ + 1]
               /\ UNCHANGED <<want, owner, xcount, slot, index, pc, sheld, xheld>>

\* Faulty: the last slot is not looked at.
EndScanEarly(t) == /\ pc[t] = "scan"
                   /\ scan[t] >= Slots
                   /\ xcount' = xcount + 1
                   /\ xheld' = [xheld EXCEPT ![t] = @ + 1]
                   /\ Goto(t, "rest")
                   /\ UNCHANGED <<want, owner, slot, index, scan, sheld>>

EndScan(t) == /\ pc[t] = "scan"
              /\ scan[t] > Slots
              /\ xcount' = xcount + 1
              /\ xheld' = [xheld EXCEPT ![t] = @ + 1]
              /\ Goto(t, "rest")
              /\ UNCHANGED <<want, owner, slot, index, scan, sheld>>

Unlock(t) == /\ pc[t] = "rest"
             /\ xheld[t] > 0
             /\ xheld' = [xheld EXCEPT ![t] = @ - 1]
             /\ GiveUpCount(t)
             /\ UNCHANGED <<want, slot, index, scan, sheld>>

\* Faulty: the slot stays registered after its thread.
ExitThreadKeepingSlot(t) == /\ pc[t] = "rest"
                            /\ sheld[t] = 0 /\ xheld[t] = 0
                            /\ index[t] # 0
                            /\ index' = [index EXCEPT ![t] = 0]
                            /\ UNCHANGED <<want, owner, xcount, slot, pc, scan, sheld, xheld>>

\* A thread that ends destroys its table of indices, and with it its
\* registration; a thread started later begins without one.
ExitThread(t) == /\ pc[t] = "rest"
                 /\ sheld[t] = 0 /\ xheld[t] = 0
                 /\ index[t] # 0
                 /\ slot' = [slot EXCEPT ![index[t]] = @ - 1]
                 /\ index' = [index EXCEPT ![t] = 0]
                 /\ UNCHANGED <<want, owner, xcount, pc, scan, sheld, xheld>>

-----------------------------------------------------------------------------
\* What a thread does by itself once it is inside a call.
Step(t) == \/ Announce(t) \/ Check(t) \/ Retreat(t) \/ Spin(t)
           \/ ClaimShared(t) \/ OwnShared(t) \/ Drop(t)
           \/ Claim(t) \/ Own(t) \/ ScanSlot(t) \/ EndScan(t)

Next == \E t \in Threads : \/ LockShared(t) \/ UnlockShared(t)
                           \/ Lock(t) \/ Unlock(t)
                           \/ ExitThread(t)
                           \/ Step(t)

Spec == Init /\ [][Next]_vars

(***************************************************************************)
(* A thread inside a call keeps running, and every guard object            *)
(* (RAIIReadLock, RAIIReadWriteLock) is destroyed: a thread that again and *)
(* again holds its last hold at last gives it up.                          *)
(***************************************************************************)
ReleaseLast(t) == /\ sheld[t] + xheld[t] = 1
                  /\ UnlockShared(t) \/ Unlock(t)

Fairness == \A t \in Threads : /\ WF_vars(Step(t))
                               /\ WF_vars(UnlockShared(t) \/ Unlock(t))
                               /\ SF_vars(ReleaseLast(t))

FairSpec == Spec /\ Fairness

-----------------------------------------------------------------------------
TypeOK == /\ want \in BOOLEAN
          /\ owner \in Threads \cup {NoThread}
          /\ xcount \in Nat
          /\ slot \in [SlotIds -> Nat]
          /\ index \in [Threads -> 0..Slots]
          /\ pc \in [Threads -> Labels]
          /\ scan \in [Threads -> 1..Slots + 1]
          /\ sheld \in [Threads -> Nat]
          /\ xheld \in [Threads -> Nat]

\* Shared holds of a thread that are counted in recursive_xlock_count.
FallbackHolds(t) == IF owner = t THEN xcount - xheld[t] ELSE 0

\* The threads want_x_lock is up for.
Wanting(t) == pc[t] \in {"own_s", "own_x", "scan", "drop"} \/ owner = t

\* want_x_lock has at most one thread behind it, and is up exactly then; the
\* owner is behind it, and a thread that holds it alone is the owner.
WantInv == /\ \A t, u \in Threads : Wanting(t) /\ Wanting(u) => t = u
           /\ want <=> \E t \in Threads : Wanting(t)
           /\ \A t \in Threads : /\ pc[t] \in {"own_s", "own_x", "drop"} => owner # t
                                 /\ pc[t] = "scan" => owner = t
                                 /\ xheld[t] > 0 => owner = t /\ pc[t] # "scan"
                                 /\ owner = t => xcount >= xheld[t]
                                 /\ owner = t /\ pc[t] # "scan" => xcount > 0
                                 /\ pc[t] = "scan" => xcount = 0
           /\ owner = NoThread => xcount = 0

\* A slot in use belongs to one thread.
SlotOwnership ==
  /\ \A t, u \in Threads : index[t] = index[u] /\ index[t] # 0 => t = u
  /\ \A i \in SlotIds : slot[i] > 0 => \E t \in Threads : index[t] = i

\* It counts that thread's holds and the one it is trying to get: no hold
\* leaks, and none is given back twice.
SlotCount ==
  \A t \in Threads :
     index[t] # 0 =>
        slot[index[t]] = 1 + (sheld[t] - FallbackHolds(t))
                           + (IF pc[t] \in {"check", "retreat"} THEN 1 ELSE 0)

\* A thread without a slot is counted in recursive_xlock_count, and one that
\* finds a slot while it is counted there never gets past want_x_lock.
FallbackInv ==
  \A t \in Threads :
     /\ sheld[t] >= FallbackHolds(t)
     /\ index[t] = 0 => sheld[t] = FallbackHolds(t)
     /\ index[t] # 0 /\ FallbackHolds(t) > 0 =>
          pc[t] \in {"announce", "check", "retreat", "spin"} /\ sheld[t] = FallbackHolds(t)
     /\ pc[t] \in {"announce", "check", "retreat", "spin"} => index[t] # 0
     /\ pc[t] \in {"claim_s", "own_s"} => index[t] = 0
     /\ pc[t] \in {"check", "retreat", "spin"} => sheld[t] = FallbackHolds(t)
     /\ pc[t] \in {"claim_x", "own_x", "scan"} => sheld[t] = 0

\* A writer that has passed a slot has seen its thread out, and one that has
\* the lock has seen every other thread out.
ScanInv == /\ \A t, u \in Threads :
                t # u /\ pc[t] = "scan" /\ index[u] < scan[t] => sheld[u] = 0
           /\ \A t, u \in Threads : t # u /\ xheld[t] > 0 => sheld[u] = 0

\* The invariant the proof of mutual exclusion goes by induction on.
Inv == /\ WantInv
       /\ SlotOwnership
       /\ SlotCount
       /\ FallbackInv
       /\ ScanInv

RW == INSTANCE RWLock

\* A thread that locked exclusively excludes every other thread, readers with
\* and without a slot and readers that raced with the writer included.
Exclusion == RW!Exclusion

\* Every step of the mutex is a step of the abstract lock, or one that the
\* abstract lock does not see.
ImplementsRWLock == RW!RWSpec

\* No thread waits for a want_x_lock that it holds up itself: a nested hold
\* of a kind the class says is recursive is always granted.
NeverWaitsForItself == \A t \in Threads : pc[t] \in {"retreat", "spin"} => owner # t

\* The readers cannot starve a writer that raised want_x_lock: they retreat.
WriterProgress == \A t \in Threads : pc[t] = "scan" ~> xheld[t] > 0

\* want_x_lock comes down again: whoever raised it is served and leaves.
WantComesDown == want ~> ~want
=============================================================================
