------------------------------ MODULE MPMCQueue ------------------------------
(***************************************************************************)
(* dbms/src/Common/LooseBoundedMPMCQueue.h as operators on a queue record: *)
(* the elements, oldest first, the status, and the pipeline tasks that     *)
(* registered to be notified (PipeConditionVariable keeps them in order).  *)
(* A task is parked exactly while it is in one of the two lists.  An       *)
(* element is a record with a field "bytes", limits are CapacityLimits.    *)
(* Every operator is one critical section of the queue's mutex, followed   *)
(* by the notifications the code sends when it has released the mutex.     *)
(***************************************************************************)
EXTENDS Naturals, SequencesExt

EmptyQueue == [items |-> <<>>, status |-> "NORMAL", readers |-> <<>>, writers |-> <<>>]

usage(q) == FoldLeft(LAMBDA n, x : n + x.bytes, 0, q.items)

isFull(q, limits) == Len(q.items) >= limits.max_size \/ usage(q) >= limits.max_bytes

notifyOneReader(q) == [q EXCEPT !.readers = IF @ = <<>> THEN @ ELSE Tail(@)]

notifyOneWriter(q) == [q EXCEPT !.writers = IF @ = <<>> THEN @ ELSE Tail(@)]

\* What tryPop finds before it takes anything.
popResult(q) ==
  CASE q.status = "CANCELLED" -> "CANCELLED"
    [] q.status # "CANCELLED" /\ q.items # <<>> -> "OK"
    [] q.status = "NORMAL" /\ q.items = <<>> -> "EMPTY"
    [] q.status = "FINISHED" /\ q.items = <<>> -> "FINISHED"

\* tryPop with result OK: the oldest element leaves and one writer is notified.
popBack(q) == notifyOneWriter([q EXCEPT !.items = Tail(@)])

pushResult(q, limits) ==
  CASE q.status # "NORMAL" -> q.status
    [] q.status = "NORMAL" /\ isFull(q, limits) -> "FULL"
    [] q.status = "NORMAL" /\ ~isFull(q, limits) -> "OK"

\* A push that succeeds, forced or not.  While the queue has room left another
\* writer is notified too, so that the notification of a pop is passed on.
pushFront(q, limits, x) ==
  LET p == [q EXCEPT !.items = Append(@, x)]
  IN  notifyOneReader(IF isFull(p, limits) THEN p ELSE notifyOneWriter(p))

isWritable(q, limits) == q.status # "NORMAL" \/ ~isFull(q, limits)

\* A task that registers is parked only if it would still have to wait.
registerPipeReadTask(q, t) ==
  IF q.items = <<>> /\ q.status = "NORMAL" THEN [q EXCEPT !.readers = Append(@, t)] ELSE q

\* Mutant of registerPipeWriteTask: a writer is parked even if there is room by now.
registerPipeWriteTaskAlways(q, limits, t) == [q EXCEPT !.writers = Append(@, t)]

registerPipeWriteTask(q, limits, t) ==
  IF isFull(q, limits) /\ q.status = "NORMAL" THEN [q EXCEPT !.writers = Append(@, t)] ELSE q

\* cancelWith and finish: only a NORMAL queue changes, and then everyone is notified.
changeStatus(q, status) ==
  IF q.status = "NORMAL"
  THEN [q EXCEPT !.status = status, !.readers = <<>>, !.writers = <<>>]
  ELSE q
==============================================================================
