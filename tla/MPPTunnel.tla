------------------------------ MODULE MPPTunnel ------------------------------
(***************************************************************************)
(* The sending half of an MPP exchange: the MPPTunnel of every source      *)
(* task, the pipeline tasks that write into it, and what consumes it.  A   *)
(* remote source has an AsyncTunnelSender, a queue that EstablishCallData  *)
(* drains into a gRPC stream (GRPCSendQueue).  A local source has a        *)
(* LocalTunnelSenderV2, which writes into the receiver's own queue.        *)
(*                                                                         *)
(* A writer (one pipeline task of a source) flushes the packets of its     *)
(* plan.  A packet is the part of one flush that is for this receiver; its *)
(* rows may all have been for others, and then it has 0 bytes.             *)
(***************************************************************************)
EXTENDS MPMCQueue, FiniteSets

CONSTANTS
  Sources, Writers,   \* the tasks that send to the receiver, the pipeline tasks of all of them
  From,               \* the source of every writer
  Readers,            \* the pipeline tasks that read what the receiver gets
  Workloads,          \* records [remote, local, plan, readers, kinds, faults]: the sources in use, the packets
                      \* of every writer, the readers, the kinds of fault that may happen and how many
  SendLimits, RecvLimits,   \* CapacityLimits of a tunnel's queue and of the receiver's queue
  MaxTries            \* the connections a remote source is asked for at most (max_retry_times)

ASSUME ExchangeAssumption ==
  /\ From \in [Writers -> Sources]
  /\ \A x \in Workloads :
       /\ x.remote \subseteq Sources /\ x.local \subseteq Sources \ x.remote
       /\ x.plan \in [Writers -> Seq(Nat)]
       /\ \A w \in Writers : From[w] \notin x.remote \cup x.local => x.plan[w] = <<>>
       /\ x.readers \subseteq Readers
       /\ x.kinds \subseteq {"abort", "break", "timeout", "connect", "cancel", "limit"} /\ x.faults \in Nat
  /\ MaxTries \in Nat \ {0}

VARIABLES
  work,     \* the workload
  tunnel,   \* MPPTunnel: status, whether it has a tunnel_sender, its ConsumerState, its is_done (local)
  sendq,    \* the queue of a remote source's GRPCSendQueue
  tag,      \* the call whose tag GRPCSendQueue holds, 0 for none
  wr,       \* a writer: where it is and how many packets it has flushed
  task,     \* the thread of the source's MPPTask, after its pipelines
  abort,    \* the thread that aborts the source's MPPTask
  call,     \* EstablishCallData, one per connection a remote source was asked for
  link,     \* the gRPC stream of each of them
  recvq,    \* the queue of the receiver (GRPCRecvQueue::recv_queue)
  done,     \* the call of connectionDone each connection makes when it ends
  faults    \* faults left

sendVars == <<work, tunnel, sendq, tag, wr, task, abort, call, link, recvq, done, faults>>

Remote == work.remote
Local == work.local
InUse == Remote \cup Local
Calls == Sources \X (1 .. MaxTries)
Fault(kind) == kind \in work.kinds /\ faults > 0 /\ faults' = faults - 1
ErrorPacket == [from |-> "error", no |-> 0, bytes |-> 0]

Packets(w) == Len(work.plan[w])
Packet(w) == [from |-> w, no |-> wr[w].sent + 1, bytes |-> work.plan[w][wr[w].sent + 1]]
WritersOf(s) == {w \in Writers : From[w] = s}
Ended(w) == wr[w].pc \in {"done", "failed"}
Parked(w) == \E q \in {sendq[From[w]], recvq} : Contains(q.writers, w)

SendInit ==
  /\ work \in Workloads
  /\ tunnel = [s \in Sources |-> [status |-> "Unconnected", sender |-> FALSE,
                                  consumer |-> "unset", is_done |-> FALSE]]
  /\ sendq = [s \in Sources |-> EmptyQueue]
  /\ tag = [s \in Sources |-> 0]
  /\ wr = [w \in Writers |-> [pc |-> IF Packets(w) = 0 THEN "done" ELSE "ready", sent |-> 0]]
  /\ task = [s \in Sources |-> IF s \in InUse THEN "init" ELSE "gone"]
  /\ abort = [s \in Sources |-> "none"]
  /\ call = [c \in Calls |-> [pc |-> "none", connected |-> FALSE]]
  /\ link = [c \in Calls |-> [msgs |-> <<>>, end |-> "none"]]
  /\ recvq = EmptyQueue
  /\ done = [s \in Sources |-> [pc |-> "none", meet_error |-> FALSE]]
  /\ faults = work.faults

----------------------------------------------------------------------------
(* The writers: AsyncMPPTunnelSetWriter over MPPTunnel.                     *)

\* MPPTunnel::waitForWritable.  An unconnected tunnel is polled: no step.
waitForWritable(w) ==
  LET s == From[w]
      q == IF s \in Remote THEN sendq[s] ELSE recvq
      limits == IF s \in Remote THEN SendLimits ELSE RecvLimits
  IN  /\ wr[w].pc = "ready" /\ ~Parked(w) /\ task[s] = "run"
      /\ tunnel[s].status # "Unconnected"
      /\ wr' = [wr EXCEPT ![w].pc = IF ~tunnel[s].sender \/ tunnel[s].status = "Finished" THEN "failed"
                                    ELSE IF isWritable(q, limits) THEN "push"
                                    ELSE "register"]
      /\ UNCHANGED <<work, tunnel, sendq, tag, task, abort, call, link, recvq, done, faults>>

\* TunnelSender::registerTask, when the pipeline task gives up its thread.
registerTask(w) ==
  LET s == From[w] IN
  /\ wr[w].pc = "register"
  /\ wr' = [wr EXCEPT ![w].pc = "ready"]
  /\ IF s \in Remote
     THEN /\ sendq' = [sendq EXCEPT ![s] = registerPipeWriteTask(@, SendLimits, w)]
          /\ UNCHANGED recvq
     ELSE /\ recvq' = registerPipeWriteTask(recvq, RecvLimits, w)
          /\ UNCHANGED sendq
  /\ UNCHANGED <<work, tunnel, tag, task, abort, call, link, done, faults>>

\* The flush of the packet is over; the next one starts with waitForWritable.
Flushed(w) == [pc |-> IF wr[w].sent + 1 = Packets(w) THEN "done" ELSE "ready", sent |-> wr[w].sent + 1]

\* MPPTunnel::forceWrite of a remote tunnel: GRPCSendQueue::forcePush.
forceWriteRemote(w) ==
  LET s == From[w] IN
  /\ wr[w].pc = "push" /\ s \in Remote
  /\ IF sendq[s].status = "NORMAL"
     THEN /\ sendq' = [sendq EXCEPT ![s] = pushFront(@, SendLimits, Packet(w))]
          /\ wr' = [wr EXCEPT ![w].pc = "kick"]
     ELSE /\ wr' = [wr EXCEPT ![w].pc = "failed"]
          /\ UNCHANGED sendq
  /\ UNCHANGED <<work, tunnel, tag, task, abort, call, link, recvq, done, faults>>

\* The kick that follows the push, under the mutex of the tag.
kickAfterPush(w) ==
  LET s == From[w] IN
  /\ wr[w].pc = "kick"
  /\ wr' = [wr EXCEPT ![w] = Flushed(w)]
  /\ tag' = [tag EXCEPT ![s] = 0]
  /\ call' = [c \in Calls |-> IF c = <<s, tag[s]>> THEN [call[c] EXCEPT !.pc = "pop"] ELSE call[c]]
  /\ UNCHANGED <<work, tunnel, sendq, task, abort, link, recvq, done, faults>>

\* MPPTunnel::forceWrite of a local tunnel: LocalTunnelSenderV2::pushImpl looks at
\* is_done first ...
forceWriteLocal(w) ==
  /\ wr[w].pc = "push" /\ From[w] \in Local
  /\ wr' = [wr EXCEPT ![w].pc = IF tunnel[From[w]].is_done THEN "failed" ELSE "put"]
  /\ UNCHANGED <<work, tunnel, sendq, tag, task, abort, call, link, recvq, done, faults>>

\* ... and then ReceivedMessageQueue::pushPacket writes, or skips a packet that
\* contains no useful message.
pushPacket(w) ==
  /\ wr[w].pc = "put"
  /\ IF Packet(w).bytes = 0
     THEN /\ wr' = [wr EXCEPT ![w] = Flushed(w)]
          /\ UNCHANGED recvq
     ELSE IF recvq.status = "NORMAL"
     THEN /\ recvq' = pushFront(recvq, RecvLimits, Packet(w))
          /\ wr' = [wr EXCEPT ![w] = Flushed(w)]
     ELSE /\ wr' = [wr EXCEPT ![w].pc = "failed"]
          /\ UNCHANGED recvq
  /\ UNCHANGED <<work, tunnel, sendq, tag, task, abort, call, link, done, faults>>

\* The timeout of waitForWritable and of waitUntilConnectedOrFinished.
TimeoutOf(s) ==
  /\ tunnel[s].status = "Unconnected" /\ task[s] = "run"
  /\ \/ \E w \in WritersOf(s) : /\ wr[w].pc = "ready"
                                /\ wr' = [wr EXCEPT ![w].pc = "failed"]
                                /\ UNCHANGED task
     \/ /\ \A w \in WritersOf(s) : wr[w].pc = "done"
        /\ task' = [task EXCEPT ![s] = "failed"]
        /\ UNCHANGED wr
  /\ UNCHANGED <<work, tunnel, sendq, tag, abort, call, link, recvq, done>>

----------------------------------------------------------------------------
(* EstablishCallData: the gRPC thread that drains the queue of a tunnel.    *)

Write(c, packet) == [link EXCEPT ![c].msgs = Append(@, packet)]

\* EstablishCallData::tryConnectTunnel with MPPTunnel::connectAsync.  A tunnel
\* that is not Unconnected any more makes it throw, and the error is written.
tryConnectTunnel(c) ==
  LET s == c[1] IN
  /\ call[c].pc = "tunnel"
  /\ IF tunnel[s].status = "Unconnected"
     THEN /\ tunnel' = [tunnel EXCEPT ![s].status = "Connected", ![s].sender = TRUE]
          /\ call' = [call EXCEPT ![c] = [pc |-> "pop", connected |-> TRUE]]
          /\ UNCHANGED link
     ELSE /\ call' = [call EXCEPT ![c].pc = "writeErr"]
          /\ link' = Write(c, ErrorPacket)
          /\ UNCHANGED tunnel
  /\ UNCHANGED <<work, sendq, tag, wr, task, abort, recvq, done, faults>>

\* Mutant of writeDone: the consumer finishes without an error message.
writeDoneSilently(c, msg, status) ==
  LET s == c[1] IN
  /\ call' = [call EXCEPT ![c].pc = "gone"]
  /\ link' = [link EXCEPT ![c].end = IF @ = "none" THEN status ELSE @]
  /\ IF call[c].connected
     THEN /\ sendq' = [sendq EXCEPT ![s] = changeStatus(@, "FINISHED")]
          /\ tunnel' = [tunnel EXCEPT ![s].consumer = IF @ = "unset" THEN "ok" ELSE @]
     ELSE UNCHANGED <<sendq, tunnel>>

\* EstablishCallData::writeDone: TunnelSender::consumerFinish, then the status of the call.
writeDone(c, msg, status) ==
  LET s == c[1] IN
  /\ call' = [call EXCEPT ![c].pc = "gone"]
  /\ link' = [link EXCEPT ![c].end = IF @ = "none" THEN status ELSE @]
  /\ IF call[c].connected
     THEN /\ sendq' = [sendq EXCEPT ![s] = changeStatus(@, "FINISHED")]
          /\ tunnel' = [tunnel EXCEPT ![s].consumer = IF @ = "unset" THEN msg ELSE @]
     ELSE UNCHANGED <<sendq, tunnel>>

\* EstablishCallData::trySendOneMsg for every result of popWithTag but EMPTY.
popped(c) ==
  LET s == c[1] IN
  \/ /\ popResult(sendq[s]) = "OK"
     /\ sendq' = [sendq EXCEPT ![s] = popBack(@)]
     /\ link' = Write(c, Head(sendq[s].items))
     /\ call' = [call EXCEPT ![c].pc = "write"]
     /\ UNCHANGED tunnel
  \/ /\ popResult(sendq[s]) = "FINISHED"
     /\ writeDone(c, "ok", "ok")
  \/ /\ popResult(sendq[s]) = "CANCELLED"
     /\ call' = [call EXCEPT ![c].pc = "writeErr"]
     /\ link' = Write(c, ErrorPacket)
     /\ UNCHANGED <<sendq, tunnel>>

\* GRPCSendQueue::popWithTag: the first try, without the mutex of the tag.
popWithTag(c) ==
  /\ call[c].pc = "pop"
  /\ \/ popped(c)
     \/ /\ popResult(sendq[c[1]]) = "EMPTY"
        /\ call' = [call EXCEPT ![c].pc = "popAgain"]
        /\ UNCHANGED <<sendq, link, tunnel>>
  /\ UNCHANGED <<work, tag, wr, task, abort, recvq, done, faults>>

\* Mutant of popAgain: the tag is left without a second try.
popAgainNot(c) ==
  /\ call[c].pc = "popAgain"
  /\ tag' = [tag EXCEPT ![c[1]] = c[2]]
  /\ call' = [call EXCEPT ![c].pc = "parked"]
  /\ UNCHANGED <<work, tunnel, sendq, wr, task, abort, link, recvq, done, faults>>

\* GRPCSendQueue::popWithTag: the second try, and the tag is left if that is in vain.
popAgain(c) ==
  /\ call[c].pc = "popAgain"
  /\ \/ /\ popped(c)
        /\ UNCHANGED tag
     \/ /\ popResult(sendq[c[1]]) = "EMPTY"
        /\ tag' = [tag EXCEPT ![c[1]] = c[2]]
        /\ call' = [call EXCEPT ![c].pc = "parked"]
        /\ UNCHANGED <<sendq, link, tunnel>>
  /\ UNCHANGED <<work, wr, task, abort, recvq, done, faults>>

\* EstablishCallData::execute in WAIT_WRITE: the stream took the packet, or broke.
writeCompletes(c) ==
  /\ call[c].pc = "write"
  /\ IF link[c].end = "broken"
     THEN writeDone(c, "error", "error")
     ELSE /\ call' = [call EXCEPT ![c].pc = "pop"]
          /\ UNCHANGED <<sendq, link, tunnel>>
  /\ UNCHANGED <<work, tag, wr, task, abort, recvq, done, faults>>

\* EstablishCallData::execute in WAIT_WRITE_ERR.
writeErrCompletes(c) ==
  /\ call[c].pc = "writeErr"
  /\ writeDone(c, "error", "ok")
  /\ UNCHANGED <<work, tag, wr, task, abort, recvq, done, faults>>

----------------------------------------------------------------------------
(* The task of a source: what it does after its pipelines, and its abort.   *)

\* LocalTunnelSenderV2::finishWrite: the first caller tells the tunnel and the receiver.
finishWriteLocal(s, msg) ==
  /\ tunnel' = [tunnel EXCEPT ![s].is_done = TRUE, ![s].consumer = msg]
  /\ done' = [done EXCEPT ![s] = [pc |-> "count", meet_error |-> msg = "error"]]

\* MPPTask::runImpl starts the pipelines (INITIALIZING -> RUNNING).
RunTask(s) ==
  /\ task[s] = "init" /\ abort[s] = "none"
  /\ task' = [task EXCEPT ![s] = "run"]
  /\ UNCHANGED <<work, tunnel, sendq, tag, wr, abort, call, link, recvq, done, faults>>

\* MPPTask::finishWrite, MPPTunnel::writeDone: finish the sender ...
FinishWrite(s) ==
  /\ task[s] = "run" /\ \A w \in WritersOf(s) : wr[w].pc = "done"
  /\ tunnel[s].status # "Unconnected"
  /\ CASE ~tunnel[s].sender ->
            /\ task' = [task EXCEPT ![s] = "failed"]
            /\ UNCHANGED <<sendq, tunnel, done>>
       [] tunnel[s].sender /\ s \in Remote ->
            /\ task' = [task EXCEPT ![s] = IF sendq[s].status = "NORMAL" THEN "kick" ELSE "finished"]
            /\ sendq' = [sendq EXCEPT ![s] = changeStatus(@, "FINISHED")]
            /\ UNCHANGED <<tunnel, done>>
       [] tunnel[s].sender /\ s \in Local /\ ~tunnel[s].is_done ->
            /\ finishWriteLocal(s, "ok")
            /\ task' = [task EXCEPT ![s] = "closing"]
            /\ UNCHANGED sendq
       [] tunnel[s].sender /\ s \in Local /\ tunnel[s].is_done ->
            /\ task' = [task EXCEPT ![s] = "finished"]
            /\ UNCHANGED <<sendq, tunnel, done>>
  /\ UNCHANGED <<work, tag, wr, abort, call, link, recvq, faults>>

\* The kick of the tag after finish or cancelWith, by the task or by its abort.
kickAfterClose(s) ==
  /\ \/ /\ task[s] = "kick"
        /\ task' = [task EXCEPT ![s] = "finished"]
        /\ UNCHANGED abort
     \/ /\ abort[s] = "kick"
        /\ abort' = [abort EXCEPT ![s] = "done"]
        /\ UNCHANGED task
  /\ tag' = [tag EXCEPT ![s] = 0]
  /\ call' = [c \in Calls |-> IF c = <<s, tag[s]>> THEN [call[c] EXCEPT !.pc = "pop"] ELSE call[c]]
  /\ UNCHANGED <<work, tunnel, sendq, wr, link, recvq, done, faults>>

\* LocalTunnelSenderV2::finishWrite returns when connectionDone has returned.
LocalClosed(s) ==
  /\ done[s].pc = "over" /\ s \in Local
  /\ \/ /\ task[s] = "closing"
        /\ task' = [task EXCEPT ![s] = "finished"]
        /\ UNCHANGED abort
     \/ /\ abort[s] = "closing"
        /\ abort' = [abort EXCEPT ![s] = "done"]
        /\ UNCHANGED task
  /\ UNCHANGED <<work, tunnel, sendq, tag, wr, call, link, recvq, done, faults>>

\* ... and MPPTunnel::waitForSenderFinish: the status ...
waitForSenderFinish(s) ==
  /\ task[s] = "finished"
  /\ IF tunnel[s].status = "Finished"
     THEN /\ task' = [task EXCEPT ![s] = "returned"]
          /\ UNCHANGED tunnel
     ELSE /\ task' = [task EXCEPT ![s] = "wait"]
          /\ tunnel' = [tunnel EXCEPT ![s].status = "WaitingForSenderFinish"]
  /\ UNCHANGED <<work, sendq, tag, wr, abort, call, link, recvq, done, faults>>

\* ... and the message of the consumer, which is thrown if it is an error.
SenderFinished(s) ==
  /\ task[s] = "wait" /\ tunnel[s].consumer # "unset"
  /\ tunnel' = [tunnel EXCEPT ![s].status = "Finished"]
  /\ task' = [task EXCEPT ![s] = IF tunnel[s].consumer = "ok" THEN "returned" ELSE "failed"]
  /\ UNCHANGED <<work, sendq, tag, wr, abort, call, link, recvq, done, faults>>

\* MPPTunnel::close(reason, false).  A task that is still initializing is closed
\* without a reason: the coordinator learns of it from the dispatch itself.
close(s) ==
  LET reason == IF task[s] = "init" THEN "ok" ELSE "error" IN
  /\ CASE tunnel[s].status = "Unconnected" ->
            /\ tunnel' = [tunnel EXCEPT ![s].status = "Finished"]
            /\ abort' = [abort EXCEPT ![s] = "done"]
            /\ UNCHANGED <<sendq, done>>
       [] tunnel[s].status \in {"Connected", "WaitingForSenderFinish"} /\ s \in Remote ->
            /\ abort' = [abort EXCEPT ![s] = IF sendq[s].status = "NORMAL" THEN "kick" ELSE "done"]
            /\ sendq' = [sendq EXCEPT ![s] = changeStatus(@, IF reason = "ok" THEN "FINISHED" ELSE "CANCELLED")]
            /\ UNCHANGED <<tunnel, done>>
       [] tunnel[s].status \in {"Connected", "WaitingForSenderFinish"} /\ s \in Local /\ ~tunnel[s].is_done ->
            /\ finishWriteLocal(s, reason)
            /\ abort' = [abort EXCEPT ![s] = "closing"]
            /\ UNCHANGED sendq
       [] OTHER ->
            /\ abort' = [abort EXCEPT ![s] = "done"]
            /\ UNCHANGED <<sendq, tunnel, done>>
  /\ task' = [task EXCEPT ![s] = IF @ = "init" THEN "undispatched" ELSE @]
  /\ UNCHANGED <<work, tag, wr, call, link, recvq>>

\* PipelineExecutorContext::cancel and MPPTask::handleError after an exception.
AbortOnError(s) ==
  /\ abort[s] = "none"
  /\ \/ task[s] = "failed"
     \/ task[s] = "run" /\ \E w \in WritersOf(s) : wr[w].pc = "failed"
  /\ close(s) /\ UNCHANGED faults

\* MPPTask::abort because the query is cancelled.
AbortTask(s) ==
  /\ Fault("abort")
  /\ abort[s] = "none" /\ task[s] \in {"init", "run", "kick", "closing", "finished", "wait"}
  /\ close(s)

\* runImpl: the pipelines have all stopped, and one of them with an exception.
TaskFails(s) ==
  /\ task[s] = "run" /\ abort[s] = "done"
  /\ \A w \in WritersOf(s) : Ended(w)
  /\ \E w \in WritersOf(s) : wr[w].pc = "failed"
  /\ task' = [task EXCEPT ![s] = "failed"]
  /\ UNCHANGED <<work, tunnel, sendq, tag, wr, abort, call, link, recvq, done, faults>>

\* ~MPPTunnel: close("", true) finishes nothing that was not finished, and waits
\* for the consumer.
DestroyTunnel(s) ==
  /\ task[s] \in {"returned", "failed", "undispatched"}
  /\ abort[s] = "done" \/ (abort[s] = "none" /\ task[s] = "returned")
  /\ tunnel[s].sender => tunnel[s].consumer # "unset"
  /\ task' = [task EXCEPT ![s] = IF @ = "undispatched" THEN "dropped" ELSE "gone"]
  /\ tunnel' = [tunnel EXCEPT ![s].status = "Finished"]
  /\ UNCHANGED <<work, sendq, tag, wr, abort, call, link, recvq, done, faults>>

\* A stream breaks.
Break(c) ==
  /\ Fault("break")
  /\ call[c].pc # "none" /\ link[c].end = "none"
  /\ link' = [link EXCEPT ![c].end = "broken"]
  /\ UNCHANGED <<work, tunnel, sendq, tag, wr, task, abort, call, recvq, done>>
==============================================================================
