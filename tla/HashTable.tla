------------------------------ MODULE HashTable ------------------------------
(***************************************************************************)
(* core::HashTable_O: a vector of keys and values with linear probing and  *)
(* marks for removed entries, its rehash, and maphash.                     *)
(*                                                                         *)
(* A call on a thread-safe table runs under its mutex, so it is one step,  *)
(* or the steps of a rehash, with the write lock held from first to last.  *)
(* maphash takes the lock again for every entry it reads.  clrhash empties *)
(* the vector before it takes the lock: its callers keep everybody out.    *)
(***************************************************************************)
EXTENDS Integers, Sequences, FiniteSets

CONSTANTS Keys, Values,
          Hash,             \* the hash of each key, before it is bounded
          NoKey, Deleted,   \* the marks of an entry never used, and of one removed
          Absent,           \* the answer when there is no value
          Mappers,          \* the threads that call maphash
          MinSize,          \* the least size of a table: 16
          GrowNum, GrowDen, \* _RehashSize is GrowNum / GrowDen when it is a float,
          GrowBy,           \* and GrowBy when it is an integer (then 1 and 1)
          Num, Den          \* _RehashThreshold is Num / Den

ASSUME HTAssumption ==
  /\ Hash \in [Keys -> Nat]
  /\ NoKey \notin Keys /\ Deleted \notin Keys /\ NoKey # Deleted
  /\ Absent \notin Values
  /\ MinSize \in Nat \ {0}
  /\ GrowNum \in Nat /\ GrowDen \in Nat \ {0} /\ GrowBy \in Nat
  /\ Num \in Nat \ {0} /\ Den \in Nat \ {0} /\ Num < Den

VARIABLES slot,      \* the keys of _Table
          value,     \* its values
          size,      \* _Table.size()
          count,     \* _HashTableCount
          moving,    \* the rehashes under way: the old vector, and how far it is read
          iter,      \* the loop of each maphash: the vector it has, how far it is, where it ends
          visits,    \* how often maphash called its function for a key
          stayed,    \* the keys that were in the table all the time since maphash began
          answer     \* what the last call gave

tablevars == <<slot, value, size, count>>
mapvars == <<iter, visits, stayed>>
vars == <<slot, value, size, count, moving, iter, visits, stayed, answer>>

Indices(n) == 0..(n - 1)
Marks == {NoKey, Deleted}
Blank(n) == [i \in Indices(n) |-> NoKey]
NoValues(n) == [i \in Indices(n) |-> Absent]
Idle == [at |-> 0, end |-> 0, old |-> FALSE, slot |-> <<>>]

Unlocked == moving = <<>>
Reply(op, x) == answer' = [op |-> op, gave |-> x]
Done == Reply("done", Absent)

Home(k, n) == Hash[k] % n

\* The size after an expansion, a product with a float cut to an integer; no table
\* is smaller than the least.  The code takes a :rehash-size of 1.05, too, which
\* leaves 16 entries at 16.
Grown(n) == LET m == (n * GrowNum) \div GrowDen + GrowBy
            IN IF m < MinSize THEN MinSize ELSE m

\* One more key is more than the threshold allows.
Full == (count + 1) * Den > Num * size

\* The entries a search from h passes before it comes to i: upwards, and from
\* the end of the vector on to its start.
Way(h, i, n) == {j \in Indices(n) : IF h <= i THEN h <= j /\ j < i
                                              ELSE h <= j \/ j < i}

\* Where searchTable_no_read_lock finds k: nowhere when it meets NoKey before.
Found(k) == {i \in Indices(size) :
               /\ slot[i] = k
               /\ \A j \in Way(Home(k, size), i, size) : slot[j] \notin {NoKey, k}}

\* The first entry from the home of k on that is free.
FirstFree(k) == {i \in Indices(size) :
                   /\ slot[i] \in Marks
                   /\ \A j \in Way(Home(k, size), i, size) : slot[j] \notin Marks}

Init == /\ size = MinSize /\ count = 0
        /\ slot = Blank(MinSize) /\ value = NoValues(MinSize)
        /\ moving = <<>>
        /\ iter = [t \in Mappers |-> Idle]
        /\ visits = [t \in Mappers |-> [k \in Keys |-> 0]]
        /\ stayed = [t \in Mappers |-> {}]
        /\ answer = [op |-> "done", gave |-> Absent]

\* rehash_no_lock takes the vector s, w away and starts with an empty one of n
\* entries.  A maphash under way keeps the old one.
StartRehash(s, w, n, rest) ==
  /\ slot' = Blank(n) /\ value' = NoValues(n) /\ size' = n /\ count' = 0
  /\ moving' = Append(rest, [slot |-> s, value |-> w, at |-> 0, end |-> size])
  /\ iter' = [t \in Mappers |-> IF iter[t].old \/ iter[t] = Idle THEN iter[t]
                                ELSE [at |-> iter[t].at, end |-> iter[t].end, old |-> TRUE, slot |-> s]]

\* setf_gethash_no_write_lock, with the rehashes that are under way.
Put(k, v, rest) ==
  \/ /\ \E i \in Found(k) : value' = [value EXCEPT ![i] = v]
     /\ moving' = rest
     /\ UNCHANGED <<slot, size, count, iter>>
  \/ /\ Found(k) = {}
     /\ \E i \in FirstFree(k) :
          LET s == [slot EXCEPT ![i] = k]
              w == [value EXCEPT ![i] = v]
          IN IF Full
             THEN StartRehash(s, w, Grown(size), rest)
             ELSE /\ slot' = s /\ value' = w /\ count' = count + 1
                  /\ moving' = rest
                  /\ UNCHANGED <<size, iter>>

SetfGethash(k, v) == /\ Unlocked
                     /\ Put(k, v, <<>>)
                     /\ Done
                     /\ UNCHANGED <<visits, stayed>>

Gethash(k) == /\ Unlocked
              /\ IF Found(k) = {} THEN Reply("get", Absent)
                                  ELSE \E i \in Found(k) : Reply("get", value[i])
              /\ UNCHANGED <<tablevars, moving, mapvars>>

\* Faulty: the entry is made one that was never used.
RemhashUnused(k) == /\ Unlocked
                    /\ IF Found(k) = {}
                       THEN UNCHANGED <<slot, count>>
                       ELSE /\ \E i \in Found(k) : slot' = [slot EXCEPT ![i] = NoKey]
                            /\ count' = count - 1
                    /\ Reply("remove", Found(k) # {})
                    /\ stayed' = [t \in Mappers |-> stayed[t] \ {k}]
                    /\ UNCHANGED <<value, size, moving, iter, visits>>

\* Faulty: the count goes down for a key that is not there, too.
RemhashMiscount(k) == /\ Unlocked
                      /\ IF Found(k) = {}
                         THEN UNCHANGED slot
                         ELSE \E i \in Found(k) : slot' = [slot EXCEPT ![i] = Deleted]
                      /\ count' = count - 1
                      /\ Reply("remove", Found(k) # {})
                      /\ stayed' = [t \in Mappers |-> stayed[t] \ {k}]
                      /\ UNCHANGED <<value, size, moving, iter, visits>>

\* The key is overwritten by the mark; the value stays.
Remhash(k) == /\ Unlocked
              /\ IF Found(k) = {}
                 THEN UNCHANGED <<slot, count>>
                 ELSE /\ \E i \in Found(k) : slot' = [slot EXCEPT ![i] = Deleted]
                      /\ count' = count - 1
              /\ Reply("remove", Found(k) # {})
              /\ stayed' = [t \in Mappers |-> stayed[t] \ {k}]
              /\ UNCHANGED <<value, size, moving, iter, visits>>

HashTableCount == /\ Unlocked
                  /\ Reply("count", count)
                  /\ UNCHANGED <<tablevars, moving, mapvars>>

\* with-hash-table-iterator goes through what hash_table_pairs gives.
HashTablePairs ==
  /\ Unlocked
  /\ Reply("pairs", {<<slot[i], value[i]>> : i \in {j \in Indices(size) : slot[j] \notin Marks}})
  /\ UNCHANGED <<tablevars, moving, mapvars>>

\* No maphash goes through the vector that is emptied.
Clrhash == /\ Unlocked
           /\ \A t \in Mappers : iter[t] = Idle \/ iter[t].old
           /\ size' = MinSize /\ count' = 0
           /\ slot' = Blank(MinSize) /\ value' = NoValues(MinSize)
           /\ stayed' = [t \in Mappers |-> {}]
           /\ Done
           /\ UNCHANGED <<moving, iter, visits>>

\* core__hash_table_force_rehash does not expand.
ForceRehash == /\ Unlocked
               /\ StartRehash(slot, value, size, <<>>)
               /\ Done
               /\ UNCHANGED <<visits, stayed>>

-----------------------------------------------------------------------------
\* The loop of rehash_no_lock over the old vector.

Last == moving[Len(moving)]
Outer == SubSeq(moving, 1, Len(moving) - 1)
Further == Append(Outer, [Last EXCEPT !.at = @ + 1])

\* Faulty: the loop starts over after an entry.
MoveEntryAgain == /\ ~Unlocked
                  /\ Last.at < Last.end
                  /\ Last.slot[Last.at] \notin Marks
                  /\ Put(Last.slot[Last.at], Last.value[Last.at],
                         Append(Outer, [Last EXCEPT !.at = 0]))
                  /\ UNCHANGED <<answer, visits, stayed>>

MoveEntry == /\ ~Unlocked
             /\ Last.at < Last.end
             /\ Last.slot[Last.at] \notin Marks
             /\ Put(Last.slot[Last.at], Last.value[Last.at], Further)
             /\ UNCHANGED <<answer, visits, stayed>>

SkipEntry == /\ ~Unlocked
             /\ Last.at < Last.end
             /\ Last.slot[Last.at] \in Marks
             /\ moving' = Further
             /\ UNCHANGED <<tablevars, mapvars, answer>>

EndRehash == /\ ~Unlocked
             /\ Last.at = Last.end
             /\ moving' = Outer
             /\ UNCHANGED <<tablevars, mapvars, answer>>

-----------------------------------------------------------------------------
\* maphash (HASH_TABLE_ITER).  Between two entries its function and the other
\* threads may do anything.

LiveKeys(s) == {s[i] : i \in DOMAIN s} \ Marks

BeginMap(t) == /\ Unlocked
               /\ iter[t] = Idle
               /\ iter' = [iter EXCEPT ![t].end = size]
               /\ visits' = [visits EXCEPT ![t] = [k \in Keys |-> 0]]
               /\ stayed' = [stayed EXCEPT ![t] = LiveKeys(slot)]
               /\ Done
               /\ UNCHANGED <<tablevars, moving>>

\* Faulty: the loop goes on in the vector the table has now.
EntryNow(t) == IF iter[t].at < size THEN slot[iter[t].at] ELSE NoKey

\* The key of the entry the loop is at, in the vector it has.
Entry(t) == IF iter[t].old THEN iter[t].slot[iter[t].at] ELSE slot[iter[t].at]

MapStep(t) == /\ Unlocked
              /\ iter[t].at < iter[t].end
              /\ LET k == Entry(t)
                 IN visits' = IF k \in Marks THEN visits ELSE [visits EXCEPT ![t][k] = @ + 1]
              /\ iter' = [iter EXCEPT ![t].at = @ + 1]
              /\ Done
              /\ UNCHANGED <<tablevars, moving, stayed>>

EndMap(t) == /\ iter[t].end > 0 /\ iter[t].at = iter[t].end
             /\ iter' = [iter EXCEPT ![t] = Idle]
             /\ stayed' = [stayed EXCEPT ![t] = {}]
             /\ visits' = [visits EXCEPT ![t] = [k \in Keys |-> 0]]
             /\ Done
             /\ UNCHANGED <<tablevars, moving>>

-----------------------------------------------------------------------------
Rehash == MoveEntry \/ SkipEntry \/ EndRehash

Next == \/ \E k \in Keys : \/ \E v \in Values : SetfGethash(k, v)
                           \/ Gethash(k)
                           \/ Remhash(k)
        \/ HashTableCount \/ HashTablePairs \/ Clrhash \/ ForceRehash
        \/ Rehash
        \/ \E t \in Mappers : BeginMap(t) \/ MapStep(t) \/ EndMap(t)

Spec == Init /\ [][Next]_vars

\* A thread in a rehash goes on: it waits for nobody.
FairSpec == Spec /\ WF_vars(Rehash)

-----------------------------------------------------------------------------
Vector(n, S) == [Indices(n) -> S]
AnyKey == Keys \cup Marks
AnyValue == Values \cup {Absent}

IterOK(it) == /\ it.old \in BOOLEAN
              /\ it.end \in Nat /\ it.at \in 0..it.end
              /\ it.old => it.slot \in [DOMAIN it.slot -> AnyKey]

TypeOK == /\ size \in Nat \ {0} /\ count \in Nat
          /\ slot \in Vector(size, AnyKey) /\ value \in Vector(size, AnyValue)
          /\ \A f \in {moving[d] : d \in 1..Len(moving)} :
               /\ f.end \in Nat /\ f.at \in 0..f.end
               /\ f.slot \in Vector(f.end, AnyKey) /\ f.value \in Vector(f.end, AnyValue)
          /\ \A t \in Mappers : IterOK(iter[t])

\* The places where an entry may be: in the table, or in an old vector and not
\* yet read by its rehash.
Places == {<<0, i>> : i \in Indices(size)}
            \cup UNION {{<<d, i>> : i \in moving[d].at..(moving[d].end - 1)} : d \in 1..Len(moving)}
KeyAt(p) == IF p[1] = 0 THEN slot[p[2]] ELSE moving[p[1]].slot[p[2]]
ValueAt(p) == IF p[1] = 0 THEN value[p[2]] ELSE moving[p[1]].value[p[2]]

\* A key is in one place: never twice in the table, nor both moved and still to move.
OnePlace == \A p, q \in Places : KeyAt(p) = KeyAt(q) /\ KeyAt(p) \in Keys => p = q

\* Every key in the table is found: no entry on its way from home was never used.
Reachable == \A i \in Indices(size) :
               slot[i] \in Keys =>
                 \A j \in Way(Home(slot[i], size), i, size) : slot[j] # NoKey

\* _HashTableCount counts the entries with a key.
CountInv == count = Cardinality({i \in Indices(size) : slot[i] \in Keys})

\* "There should always be room" (setf_gethash_no_write_lock): the threshold was
\* met before the vector was full.
HasRoom == \E i \in Indices(size) : slot[i] \notin Keys

\* With removed entries among the others, and between the steps of a rehash too:
\* a probe finds each key, in its one place, the count is right, and a new key
\* finds a free entry.
TableInv == OnePlace /\ Reachable /\ CountInv /\ HasRoom

\* maphash calls its function once for each key that stays in the table, though
\* the table is written and rehashed under it.
MaphashOnce == \A t \in Mappers : \A k \in stayed[t] :
                 /\ visits[t][k] <= 1
                 /\ iter[t].end > 0 /\ iter[t].at = iter[t].end => visits[t][k] = 1

\* What the table holds.
Contents == [k \in Keys |-> IF \E p \in Places : KeyAt(p) = k
                            THEN ValueAt(CHOOSE p \in Places : KeyAt(p) = k)
                            ELSE Absent]

Dict == INSTANCE Dictionary WITH dict <- Contents

\* Probing, marks and rehashes do not show: a call sees the table as a function
\* from keys to values, and an answer is the value set last.
ImplementsDictionary == Dict!Spec

\* A rehash ends, also when moving an entry starts another, if expansions make
\* tables larger.
RehashEnds == ~Unlocked ~> Unlocked
=============================================================================
