------------------------------ MODULE FifoQueue ------------------------------
(***************************************************************************)
(* What core::queue promises: a message is dequeued once, after the ones   *)
(* enqueued before it, however many threads enqueue and dequeue.           *)
(***************************************************************************)
EXTENDS Sequences

CONSTANT Messages

VARIABLES queue,  \* the messages in the queue, the oldest first
          got     \* the messages handed out, the first one first

FifoInit == queue = <<>> /\ got = <<>>

Put(m) == queue' = Append(queue, m) /\ UNCHANGED got

Get == /\ queue # <<>>
       /\ got' = Append(got, Head(queue))
       /\ queue' = Tail(queue)

FifoNext == Get \/ \E m \in Messages : Put(m)

FifoSpec == FifoInit /\ [][FifoNext]_<<queue, got>>
=============================================================================
