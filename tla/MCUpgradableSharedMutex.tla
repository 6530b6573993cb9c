----------------------- MODULE MCUpgradableSharedMutex -----------------------
(***************************************************************************)
(* Three threads on a mutex that admits two readers, so that a reader may  *)
(* find it full.  A reader that is denied an upgrade tries again and in    *)
(* the end backs off, or tries again for ever.                             *)
(***************************************************************************)
EXTENDS UpgradableSharedMutex

CONSTANTS t1, t2, t3

TwoThreads == {t1, t2}
ThreeThreads == {t1, t2, t3}
RetryThenBackOff == {"retry", "back_off"}
RetryForever == {"retry"}
=============================================================================
