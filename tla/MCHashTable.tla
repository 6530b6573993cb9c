---------------------------- MODULE MCHashTable ----------------------------
(***************************************************************************)
(* Two keys with one home in vectors of two, three and four entries, the   *)
(* last one in two and in four, so that a probe goes on at the start.  The *)
(* table grows by one entry (an integer :rehash-size) when it is more than *)
(* half full, so that moving an entry starts another rehash.               *)
(***************************************************************************)
EXTENDS HashTable

CONSTANTS k1, k2, v1, v2, mapper

TwoKeys == {k1, k2}
TwoValues == {v1, v2}
OneMapper == {mapper}
Colliding == [k \in TwoKeys |-> IF k = k1 THEN 3 ELSE 15]
=============================================================================
