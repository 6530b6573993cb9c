----------------------------- MODULE MCPackage -----------------------------
(***************************************************************************)
(* Three packages, two of which may use each other and the third, and one  *)
(* name, for which two symbols can be made: names do not meet but in       *)
(* UseConflicts.  One package is locked.                                   *)
(***************************************************************************)
EXTENDS Package

CONSTANTS p1, p2, p3, n1, s1, s2

ThreePackages == {p1, p2, p3}
FourLinks == {<<p1, p2>>, <<p2, p1>>, <<p1, p3>>, <<p2, p3>>}
OneLocked == {p3}
OneName == {n1}
TwoSymbols == {s1, s2}
AllNamed == [s \in TwoSymbols |-> n1]
=============================================================================
