--------------------- MODULE MCContentionFreeSharedMutex ---------------------
(***************************************************************************)
(* Three threads on a mutex with two slots, so that one of them may find   *)
(* no slot, with the nestings of holds that are safe.                      *)
(***************************************************************************)
EXTENDS ContentionFreeSharedMutex

CONSTANTS t1, t2, t3

ThreeThreads == {t1, t2, t3}
SafeNesting == {"S_in_S", "X_in_X"}
DocumentedNesting == {"S_in_S", "X_in_X", "S_in_X"}
=============================================================================
