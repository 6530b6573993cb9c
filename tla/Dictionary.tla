----------------------------- MODULE Dictionary -----------------------------
(***************************************************************************)
(* What a hash table promises: a function from the keys it has to values.  *)
(* Each call takes effect at once, and answers what the function says.     *)
(***************************************************************************)
EXTENDS FiniteSets

CONSTANTS Keys, Values, Absent

VARIABLES dict,    \* the value of each key, Absent where it has none
          answer   \* what the last call gave

vars == <<dict, answer>>

Present == {k \in Keys : dict[k] # Absent}

Reply(op, x) == answer' = [op |-> op, gave |-> x]
Done == Reply("done", Absent)

Init == /\ dict = [k \in Keys |-> Absent]
        /\ answer = [op |-> "done", gave |-> Absent]

Set(k, v) == /\ dict' = [dict EXCEPT ![k] = v]
             /\ Done

Get(k) == Reply("get", dict[k]) /\ UNCHANGED dict

Remove(k) == /\ dict' = [dict EXCEPT ![k] = Absent]
             /\ Reply("remove", k \in Present)

Clear == /\ dict' = [k \in Keys |-> Absent]
         /\ Done

Count == Reply("count", Cardinality(Present)) /\ UNCHANGED dict

Pairs == Reply("pairs", {<<k, dict[k]>> : k \in Present}) /\ UNCHANGED dict

\* A call that only rearranges or visits the entries.
Rearrange == Done /\ UNCHANGED dict

Next == \/ \E k \in Keys : \/ \E v \in Values : Set(k, v)
                           \/ Get(k)
                           \/ Remove(k)
        \/ Clear
        \/ Count
        \/ Pairs
        \/ Rearrange

Spec == Init /\ [][Next]_vars
=============================================================================
