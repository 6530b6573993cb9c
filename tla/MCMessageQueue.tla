--------------------------- MODULE MCMessageQueue ---------------------------
(***************************************************************************)
(* Three threads, each of which may enqueue and dequeue, so that a thread  *)
(* may take the message another one was woken up for.                      *)
(***************************************************************************)
EXTENDS MessageQueue

CONSTANTS t1, t2, t3

ThreeThreads == {t1, t2, t3}
=============================================================================
