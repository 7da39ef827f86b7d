--------------------------- MODULE ExchangeReceiver ---------------------------
(***************************************************************************)
(* The receiving half of an MPP exchange, composed with the sending half:  *)
(* ExchangeReceiver, its queue with the parked tags of GRPCRecvQueue, one  *)
(* AsyncRequestHandler per remote source, and the pipeline tasks that read *)
(* (ExchangeReceiverSourceOp).                                             *)
(***************************************************************************)
EXTENDS MPPTunnel

VARIABLES
  recv,     \* ExchangeReceiver: its thread, the sources without a connection yet, its state, its counters
  tags,     \* GRPCRecvQueue::data_tags: packets that found the queue full, with their handler
  hnd,      \* AsyncRequestHandler: its stage, the current try, has_data, the packet in its hands
  rd,       \* the readers
  cancel,   \* the thread that cancels the receiver
  limit,    \* the readers have all they want (a LIMIT above them)
  got       \* the packets the readers took, in order

recvVars == <<recv, tags, hnd, rd, cancel, limit, got>>
vars == <<sendVars, recvVars>>

Idle == [pc |-> "none", try |-> 1, has_data |-> FALSE, packet |-> ErrorPacket]
ReaderEnded(r) == rd[r] \in {"eof", "error", "stopped"}
ReaderParked(r) == Contains(recvq.readers, r)

Init ==
  /\ SendInit
  /\ recv = [pc |-> "setup", todo |-> InUse, state |-> "NORMAL",
             live_connections |-> Cardinality(InUse), live_local_connections |-> 0]
  /\ tags = <<>>
  /\ hnd = [s \in Sources |-> Idle]
  /\ rd = [r \in Readers |-> IF r \in work.readers THEN "recv" ELSE "stopped"]
  /\ cancel = "none"
  /\ limit = FALSE
  /\ got = <<>>

----------------------------------------------------------------------------
(* The sending half, whose steps leave the receiver alone.                  *)

WriterStep(w) ==
  /\ \/ waitForWritable(w) \/ registerTask(w) \/ forceWriteRemote(w) \/ kickAfterPush(w)
     \/ forceWriteLocal(w) \/ pushPacket(w)
  /\ UNCHANGED recvVars

CallStep(c) ==
  /\ \/ tryConnectTunnel(c) \/ popWithTag(c) \/ popAgain(c) \/ writeCompletes(c) \/ writeErrCompletes(c)
  /\ UNCHANGED recvVars

TaskStep(s) ==
  /\ \/ RunTask(s) \/ FinishWrite(s) \/ kickAfterClose(s) \/ LocalClosed(s) \/ waitForSenderFinish(s)
     \/ SenderFinished(s) \/ AbortOnError(s) \/ TaskFails(s)
  /\ UNCHANGED recvVars

\* The receiver is gone and nobody will connect any more: the timeout comes.
TimeoutCertain(s) == recv.pc = "gone" /\ TimeoutOf(s) /\ UNCHANGED <<faults, recvVars>>

\* Mutant of Destroy: every local tunnel counts, connected or not.
DestroyUnconnected(s) ==
  /\ DestroyTunnel(s)
  /\ recv' = [recv EXCEPT !.live_local_connections = IF s \in Local THEN @ - 1 ELSE @]
  /\ UNCHANGED <<tags, hnd, rd, cancel, limit, got>>

\* ~LocalTunnelSenderV2 calls connectionLocalDone.
Destroy(s) ==
  /\ DestroyTunnel(s)
  /\ recv' = [recv EXCEPT !.live_local_connections = IF s \in Local /\ tunnel[s].sender THEN @ - 1 ELSE @]
  /\ UNCHANGED <<tags, hnd, rd, cancel, limit, got>>

SenderFault ==
  /\ \/ \E s \in Sources : AbortTask(s)
     \/ \E c \in Calls : Break(c)
     \/ \E s \in Sources : /\ Fault("timeout")
                           /\ TimeoutOf(s)
  /\ UNCHANGED recvVars

----------------------------------------------------------------------------
(* The set-up: local connections first, then the handlers.                  *)

Created(s) ==
  LET todo == recv.todo \ {s}
  IN  [recv EXCEPT !.todo = todo, !.pc = IF todo = {} THEN "up" ELSE @]

\* establishMPPConnectionLocalV2 and MPPTunnel::connectLocalV2.
setUpLocalConnection(s) ==
  /\ recv.pc = "setup" /\ s \in recv.todo \cap Local
  /\ tunnel[s].status = "Unconnected"
  /\ tunnel' = [tunnel EXCEPT ![s].status = "Connected", ![s].sender = TRUE]
  /\ recv' = [Created(s) EXCEPT !.live_local_connections = @ + 1]
  /\ UNCHANGED <<work, sendq, tag, wr, task, abort, call, link, recvq, done, faults>>
  /\ UNCHANGED <<tags, hnd, rd, cancel, limit, got>>

\* The tunnel is gone or closed, and the constructor throws: handleConnectionAfterException,
\* the state of cancel(); the readers never start.
setUpConnectionThrows(s) ==
  /\ recv.pc = "setup" /\ s \in recv.todo \cap Local
  /\ tunnel[s].status # "Unconnected"
  /\ recv' = [recv EXCEPT !.pc = "cancel", !.state = "CANCELED",
                          !.live_connections = @ - Cardinality(recv.todo)]
  /\ rd' = [r \in Readers |-> IF r \in work.readers THEN "error" ELSE "stopped"]
  /\ UNCHANGED <<sendVars, tags, hnd, cancel, limit, got>>

createAsyncRequestHandler(s) ==
  /\ recv.pc = "setup" /\ s \in recv.todo \cap Remote /\ recv.todo \cap Local = {}
  /\ hnd' = [hnd EXCEPT ![s].pc = "make"]
  /\ recv' = Created(s)
  /\ UNCHANGED <<sendVars, tags, rd, cancel, limit, got>>

----------------------------------------------------------------------------
(* AsyncRequestHandler.                                                     *)

closeConnection(s, meet_error) ==
  /\ hnd' = [hnd EXCEPT ![s].pc = "closing"]
  /\ done' = [done EXCEPT ![s] = [pc |-> "count", meet_error |-> meet_error]]

\* retryOrDone: a connection that has carried nothing yet is made again.
retryOrDone(s) ==
  IF ~hnd[s].has_data /\ hnd[s].try < MaxTries
  THEN /\ hnd' = [hnd EXCEPT ![s].pc = "make", ![s].try = @ + 1]
       /\ UNCHANGED done
  ELSE closeConnection(s, TRUE)

\* makeAsyncReader sends the request, and processWaitMakeReader starts to read.
makeReader(s) ==
  /\ hnd[s].pc = "make"
  /\ hnd' = [hnd EXCEPT ![s].pc = "read"]
  /\ call' = [call EXCEPT ![<<s, hnd[s].try>>].pc = "tunnel"]
  /\ UNCHANGED <<work, tunnel, sendq, tag, wr, task, abort, link, recvq, done, faults>>
  /\ UNCHANGED <<recv, tags, rd, cancel, limit, got>>

makeReaderFails(s) ==
  /\ Fault("connect")
  /\ hnd[s].pc = "make"
  /\ retryOrDone(s)
  /\ UNCHANGED <<work, tunnel, sendq, tag, wr, task, abort, call, link, recvq>>
  /\ UNCHANGED <<recv, tags, rd, cancel, limit, got>>

\* The next packet of the stream is in the handler's hands.
Arrived(s, packet) == [hnd EXCEPT ![s].has_data = TRUE, ![s].packet = packet]

\* processWaitRead(true) with GRPCRecvQueue::pushWithTag up to its first tryPush.
processWaitRead(s) ==
  LET c == <<s, hnd[s].try>>
      packet == Head(link[c].msgs)
      result == pushResult(recvq, RecvLimits)
  IN  /\ hnd[s].pc = "read" /\ link[c].msgs # <<>>
      /\ link' = [link EXCEPT ![c].msgs = Tail(@)]
      /\ CASE packet = ErrorPacket \/ (packet.bytes > 0 /\ result \notin {"OK", "FULL"}) ->
                closeConnection(s, TRUE) /\ UNCHANGED recvq
           [] packet # ErrorPacket /\ packet.bytes = 0 ->
                hnd' = Arrived(s, ErrorPacket) /\ UNCHANGED <<done, recvq>>
           [] packet.bytes > 0 /\ result = "OK" ->
                /\ recvq' = pushFront(recvq, RecvLimits, packet)
                /\ hnd' = Arrived(s, ErrorPacket)
                /\ UNCHANGED done
           [] packet.bytes > 0 /\ result = "FULL" ->
                /\ hnd' = [Arrived(s, packet) EXCEPT ![s].pc = "push"]
                /\ UNCHANGED <<done, recvq>>
      /\ UNCHANGED <<work, tunnel, sendq, tag, wr, task, abort, call, faults>>
      /\ UNCHANGED <<recv, tags, rd, cancel, limit, got>>

\* Mutant of pushAgain: a packet that finds the queue full is not kept.
pushAgainDrops(s) ==
  /\ hnd[s].pc = "push"
  /\ CASE pushResult(recvq, RecvLimits) = "OK" ->
            /\ recvq' = pushFront(recvq, RecvLimits, hnd[s].packet)
            /\ hnd' = [hnd EXCEPT ![s].pc = "read", ![s].packet = ErrorPacket]
            /\ UNCHANGED done
       [] pushResult(recvq, RecvLimits) = "FULL" ->
            /\ hnd' = [hnd EXCEPT ![s].pc = "read", ![s].packet = ErrorPacket]
            /\ UNCHANGED <<recvq, done>>
       [] OTHER -> closeConnection(s, TRUE) /\ UNCHANGED recvq
  /\ UNCHANGED <<work, tunnel, sendq, tag, wr, task, abort, call, link, faults>>
  /\ UNCHANGED <<recv, tags, rd, cancel, limit, got>>

\* pushWithTag: the second tryPush, under the mutex of the tags, which keep the
\* packet if that is in vain.
pushAgain(s) ==
  /\ hnd[s].pc = "push"
  /\ CASE pushResult(recvq, RecvLimits) = "OK" ->
            /\ recvq' = pushFront(recvq, RecvLimits, hnd[s].packet)
            /\ hnd' = [hnd EXCEPT ![s].pc = "read", ![s].packet = ErrorPacket]
            /\ UNCHANGED <<tags, done>>
       [] pushResult(recvq, RecvLimits) = "FULL" ->
            /\ tags' = Append(tags, [packet |-> hnd[s].packet, source |-> s])
            /\ hnd' = [hnd EXCEPT ![s].pc = "parked", ![s].packet = ErrorPacket]
            /\ UNCHANGED <<recvq, done>>
       [] OTHER -> closeConnection(s, TRUE) /\ UNCHANGED <<recvq, tags>>
  /\ UNCHANGED <<work, tunnel, sendq, tag, wr, task, abort, call, link, faults>>
  /\ UNCHANGED <<recv, rd, cancel, limit, got>>

\* processWaitPushToQueue(false).
pushFailed(s) ==
  /\ hnd[s].pc = "failed"
  /\ closeConnection(s, TRUE)
  /\ UNCHANGED <<work, tunnel, sendq, tag, wr, task, abort, call, link, recvq, faults>>
  /\ UNCHANGED <<recv, tags, rd, cancel, limit, got>>

\* processWaitRead(false) and processWaitFinish: the stream has ended.
processWaitFinish(s) ==
  LET c == <<s, hnd[s].try>> IN
  /\ hnd[s].pc = "read"
  /\ link[c].end = "broken" \/ (link[c].end # "none" /\ link[c].msgs = <<>>)
  /\ IF link[c].end = "ok" THEN closeConnection(s, FALSE) ELSE retryOrDone(s)
  /\ UNCHANGED <<work, tunnel, sendq, tag, wr, task, abort, call, link, recvq, faults>>
  /\ UNCHANGED <<recv, tags, rd, cancel, limit, got>>

\* closeConnection after connectionDone: the reader goes, and with it the stream.
connectionClosed(s) ==
  LET c == <<s, hnd[s].try>> IN
  /\ hnd[s].pc = "closing" /\ done[s].pc = "over"
  /\ hnd' = [hnd EXCEPT ![s].pc = "closed"]
  /\ link' = [link EXCEPT ![c].end = IF @ = "none" THEN "broken" ELSE @]
  /\ UNCHANGED <<work, tunnel, sendq, tag, wr, task, abort, call, recvq, done, faults>>
  /\ UNCHANGED <<recv, tags, rd, cancel, limit, got>>

----------------------------------------------------------------------------
(* The end of a connection, and the end of the receiver.                    *)

\* kickAllTagsWithFailure, under the mutex of the tags.
kickAllTags ==
  /\ tags' = <<>>
  /\ hnd' = [s \in Sources |-> IF hnd[s].pc = "parked" THEN [hnd[s] EXCEPT !.pc = "failed"] ELSE hnd[s]]

\* Mutant of connectionDone: only the last connection reports its error.
connectionDoneLast(s) ==
  LET meet_error == done[s].meet_error
      live == recv.live_connections - 1
  IN  /\ done[s].pc = "count"
      /\ recv' = [recv EXCEPT !.live_connections = live,
                              !.state = IF meet_error /\ live = 0 /\ @ = "NORMAL" THEN "ERROR" ELSE @]
      /\ done' = [done EXCEPT ![s].pc = IF meet_error \/ live = 0 THEN "finish" ELSE "over"]
      /\ UNCHANGED <<work, tunnel, sendq, tag, wr, task, abort, call, link, recvq, faults>>
      /\ UNCHANGED <<tags, hnd, rd, cancel, limit, got>>

\* The critical section of ExchangeReceiver::connectionDone ...
connectionDone(s) ==
  LET meet_error == done[s].meet_error
      live == recv.live_connections - 1
  IN  /\ done[s].pc = "count"
      /\ recv' = [recv EXCEPT !.live_connections = live,
                              !.state = IF meet_error /\ @ = "NORMAL" THEN "ERROR" ELSE @]
      /\ done' = [done EXCEPT ![s].pc = IF meet_error \/ live = 0 THEN "finish" ELSE "over"]
      /\ UNCHANGED <<work, tunnel, sendq, tag, wr, task, abort, call, link, recvq, faults>>
      /\ UNCHANGED <<tags, hnd, rd, cancel, limit, got>>

\* ... then finishReceivedQueue ...
finishReceivedQueue(s) ==
  /\ done[s].pc = "finish"
  /\ recvq' = changeStatus(recvq, "FINISHED")
  /\ done' = [done EXCEPT ![s].pc = IF recvq.status = "NORMAL" THEN "kick" ELSE "over"]
  /\ UNCHANGED <<work, tunnel, sendq, tag, wr, task, abort, call, link, faults, recvVars>>

\* ... and the tags that are parked.
finishKicks(s) ==
  /\ done[s].pc = "kick"
  /\ kickAllTags
  /\ done' = [done EXCEPT ![s].pc = "over"]
  /\ UNCHANGED <<work, tunnel, sendq, tag, wr, task, abort, call, link, recvq, faults>>
  /\ UNCHANGED <<recv, rd, cancel, limit, got>>

\* setEndState.
setEndState(state) == [recv EXCEPT !.state = IF @ \in {"CANCELED", "CLOSED"} THEN @ ELSE state]

\* ExchangeReceiver::cancel, by the abort of the reading task ...
cancelReceiver ==
  /\ cancel = "none" /\ recv.pc = "up"
  /\ recv' = setEndState("CANCELED")
  /\ cancel' = "queue"
  /\ UNCHANGED <<work, tunnel, sendq, tag, wr, task, abort, call, link, recvq, done>>
  /\ UNCHANGED <<tags, hnd, rd, limit, got>>

\* ... after an exception of a reader, or because the query is cancelled.
CancelOnError == (\E r \in Readers : rd[r] = "error") /\ cancelReceiver /\ UNCHANGED faults

CancelQuery == Fault("cancel") /\ cancelReceiver

cancelReceivedQueue ==
  /\ cancel = "queue"
  /\ recvq' = changeStatus(recvq, "CANCELLED")
  /\ cancel' = IF recvq.status = "NORMAL" THEN "kick" ELSE "done"
  /\ UNCHANGED <<work, tunnel, sendq, tag, wr, task, abort, call, link, done, faults>>
  /\ UNCHANGED <<recv, tags, hnd, rd, limit, got>>

cancelKicks ==
  /\ cancel = "kick"
  /\ kickAllTags
  /\ cancel' = "done"
  /\ UNCHANGED <<sendVars, recv, rd, limit, got>>

\* ~ExchangeReceiver, once its readers have ended: close() ...
closeReceiver ==
  /\ recv.pc = "up" /\ \A r \in Readers : ReaderEnded(r)
  /\ recv' = [setEndState("CLOSED") EXCEPT !.pc = "close"]
  /\ UNCHANGED <<sendVars, tags, hnd, rd, cancel, limit, got>>

\* (and in the constructor's exception path the queue is cancelled)
closeQueue ==
  /\ recv.pc \in {"close", "cancel"}
  /\ recvq' = changeStatus(recvq, IF recv.pc = "close" THEN "FINISHED" ELSE "CANCELLED")
  /\ recv' = [recv EXCEPT !.pc = IF recvq.status = "NORMAL" THEN "kick" ELSE "wait"]
  /\ UNCHANGED <<work, tunnel, sendq, tag, wr, task, abort, call, link, done, faults>>
  /\ UNCHANGED <<tags, hnd, rd, cancel, limit, got>>

closeKicks ==
  /\ recv.pc = "kick"
  /\ kickAllTags
  /\ recv' = [recv EXCEPT !.pc = "wait"]
  /\ UNCHANGED <<sendVars, rd, cancel, limit, got>>

\* Mutant of waitAllConnectionDone: the local tunnels are not waited for.
waitAllConnectionDoneButLocal ==
  /\ recv.pc = "wait" /\ cancel \in {"none", "done"}
  /\ recv.live_connections = 0
  /\ \A s \in Sources : hnd[s].pc \in {"none", "closed"}
  /\ recv' = [recv EXCEPT !.pc = "gone"]
  /\ UNCHANGED <<sendVars, tags, hnd, rd, cancel, limit, got>>

\* ... and waitAllConnectionDone: the connections, the local tunnels, the handlers.
waitAllConnectionDone ==
  /\ recv.pc = "wait" /\ cancel \in {"none", "done"}
  /\ recv.live_connections = 0 /\ recv.live_local_connections = 0
  /\ \A s \in Sources : hnd[s].pc \in {"none", "closed"}
  /\ recv' = [recv EXCEPT !.pc = "gone"]
  /\ UNCHANGED <<sendVars, tags, hnd, rd, cancel, limit, got>>

----------------------------------------------------------------------------
(* The readers: ExchangeReceiverSourceOp::readImpl.                         *)

\* GRPCRecvQueue::tryPop.
tryReceive(r) ==
  /\ rd[r] = "recv" /\ recv.pc = "up" /\ ~ReaderParked(r)
  /\ CASE limit ->
            rd' = [rd EXCEPT ![r] = "stopped"] /\ UNCHANGED <<recvq, got>>
       [] ~limit /\ popResult(recvq) = "OK" ->
            /\ recvq' = popBack(recvq)
            /\ got' = Append(got, Head(recvq.items))
            /\ rd' = [rd EXCEPT ![r] = "kick"]
       [] ~limit /\ popResult(recvq) = "EMPTY" ->
            rd' = [rd EXCEPT ![r] = "register"] /\ UNCHANGED <<recvq, got>>
       [] OTHER ->
            rd' = [rd EXCEPT ![r] = "ended"] /\ UNCHANGED <<recvq, got>>
  /\ UNCHANGED <<work, tunnel, sendq, tag, wr, task, abort, call, link, done, faults>>
  /\ UNCHANGED <<recv, tags, hnd, cancel, limit>>

\* kickOneTagWithSuccess: the oldest parked packet moves into the queue, and its
\* handler goes on reading.
kickOneTag(r) ==
  /\ rd[r] = "kick"
  /\ rd' = [rd EXCEPT ![r] = "recv"]
  /\ IF tags # <<>> /\ pushResult(recvq, RecvLimits) = "OK"
     THEN /\ recvq' = pushFront(recvq, RecvLimits, Head(tags).packet)
          /\ tags' = Tail(tags)
          /\ hnd' = [hnd EXCEPT ![Head(tags).source].pc = "read"]
     ELSE UNCHANGED <<recvq, tags, hnd>>
  /\ UNCHANGED <<work, tunnel, sendq, tag, wr, task, abort, call, link, done, faults>>
  /\ UNCHANGED <<recv, cancel, limit, got>>

registerReader(r) ==
  /\ rd[r] = "register"
  /\ rd' = [rd EXCEPT ![r] = "recv"]
  /\ recvq' = registerPipeReadTask(recvq, r)
  /\ UNCHANGED <<work, tunnel, sendq, tag, wr, task, abort, call, link, done, faults>>
  /\ UNCHANGED <<recv, tags, hnd, cancel, limit, got>>

\* handleUnnormalChannel.
handleUnnormalChannel(r) ==
  /\ rd[r] = "ended"
  /\ rd' = [rd EXCEPT ![r] = IF recv.state = "NORMAL" THEN "eof" ELSE "error"]
  /\ UNCHANGED <<sendVars, recv, tags, hnd, cancel, limit, got>>

\* A LIMIT above the readers is reached.
LimitReached ==
  /\ Fault("limit")
  /\ ~limit /\ limit' = TRUE
  /\ UNCHANGED <<work, tunnel, sendq, tag, wr, task, abort, call, link, recvq, done>>
  /\ UNCHANGED <<recv, tags, hnd, rd, cancel, got>>

----------------------------------------------------------------------------

HandlerStep(s) ==
  \/ setUpLocalConnection(s) \/ setUpConnectionThrows(s) \/ createAsyncRequestHandler(s)
  \/ makeReader(s) \/ processWaitRead(s) \/ pushAgain(s) \/ pushFailed(s) \/ processWaitFinish(s)
  \/ connectionClosed(s) \/ connectionDone(s) \/ finishReceivedQueue(s) \/ finishKicks(s)

ReaderStep(r) == tryReceive(r) \/ kickOneTag(r) \/ registerReader(r) \/ handleUnnormalChannel(r)

ReceiverStep ==
  \/ CancelOnError \/ cancelReceivedQueue \/ cancelKicks
  \/ closeReceiver \/ closeQueue \/ closeKicks \/ waitAllConnectionDone

\* The exchange is over: everything is destroyed.
Over == recv.pc = "gone" /\ \A s \in Sources : task[s] \in {"gone", "dropped"}

Next ==
  \/ \E w \in Writers : WriterStep(w)
  \/ \E c \in Calls : CallStep(c)
  \/ \E s \in Sources : TaskStep(s) \/ TimeoutCertain(s) \/ Destroy(s) \/ HandlerStep(s) \/ makeReaderFails(s)
  \/ \E r \in Readers : ReaderStep(r)
  \/ ReceiverStep
  \/ SenderFault
  \/ CancelQuery
  \/ LimitReached

\* Every thread goes on, the gRPC completion queues deliver and a timeout comes in
\* the end; a fault need not happen.  No behaviour takes infinitely many steps, so
\* one condition for all of them is enough.
Fairness ==
  WF_vars(\/ \E w \in Writers : WriterStep(w)
          \/ \E c \in Calls : CallStep(c)
          \/ \E s \in Sources : TaskStep(s) \/ TimeoutCertain(s) \/ Destroy(s) \/ HandlerStep(s)
          \/ \E r \in Readers : ReaderStep(r)
          \/ ReceiverStep)

Spec == Init /\ [][Next]_vars

FairSpec == Spec /\ Fairness

----------------------------------------------------------------------------
(* Properties.                                                              *)

\* The statuses and stages have values the code gives them, and the two connection
\* counters of ExchangeReceiver never go below zero (the assertion in connectionDone).
TypeOK ==
  /\ \A s \in Sources :
       /\ tunnel[s].status \in {"Unconnected", "Connected", "WaitingForSenderFinish", "Finished"}
       /\ tunnel[s].consumer \in {"unset", "ok", "error"}
       /\ tag[s] \in 0 .. MaxTries
       /\ sendq[s].status \in {"NORMAL", "FINISHED", "CANCELLED"}
       /\ hnd[s].pc \in {"none", "make", "read", "push", "parked", "failed", "closing", "closed"}
  /\ recv.state \in {"NORMAL", "ERROR", "CANCELED", "CLOSED"}
  /\ recv.live_connections \in 0 .. Cardinality(Sources)
  /\ recv.live_local_connections \in 0 .. Cardinality(Sources)
  /\ \A w \in Writers : wr[w].sent \in 0 .. Packets(w)

\* The packets of a writer that carry rows for the receiver, in the order of its flushes.
Useful(w) ==
  SelectSeq([n \in 1 .. Packets(w) |-> [from |-> w, no |-> n, bytes |-> work.plan[w][n]]],
            LAMBDA p : p.bytes > 0)

Received(w) == SelectSeq(got, LAMBDA p : p.from = w)

\* The readers see the packets of a writer without a gap, a repetition or a change of
\* order, whether they come through a stream or a local tunnel, and whether they went
\* straight into the queue or were parked with a tag (GRPCRecvQueue) on the way.
ReceivedInOrder == \A w \in Writers : IsPrefix(Received(w), Useful(w))

\* A reader is told EOF (handleUnnormalChannel) only when every packet of every source
\* has been read, or the source was aborted before it ran, which the coordinator knows:
\* no error, cancellation or broken stream is taken for the end of the data.
EofIsComplete ==
  (\E r \in Readers : rd[r] = "eof") =>
     \A s \in InUse : \/ task[s] \in {"undispatched", "dropped"}
                      \/ \A w \in WritersOf(s) : wr[w].pc = "done" /\ Received(w) = Useful(w)

\* MPPTunnel::writeDone returns without an exception only if the consumer has taken
\* everything and finished without an error.
WriteDoneIsDelivered ==
  \A s \in InUse : task[s] = "returned" =>
     /\ tunnel[s].consumer = "ok"
     /\ sendq[s].items = <<>>
     /\ \A w \in WritersOf(s) : wr[w].pc = "done"

\* Nobody waits for a kick that has already been given: the tag that GRPCSendQueue keeps
\* belongs to an empty queue, the tags of GRPCRecvQueue to a queue with something to pop,
\* or somebody who changed that is about to kick.
NoLostKick ==
  /\ \A s \in Sources : tag[s] # 0 =>
       \/ popResult(sendq[s]) = "EMPTY"
       \/ "kick" \in {task[s], abort[s]} \cup {wr[w].pc : w \in WritersOf(s)}
  /\ tags # <<>> =>
       \/ popResult(recvq) = "OK" /\ recvq.status = "NORMAL"
       \/ "kick" \in {recv.pc, cancel} \cup {rd[r] : r \in Readers} \cup {done[s].pc : s \in Sources}

\* When ~ExchangeReceiver returns nobody uses the receiver any more: no connection is
\* inside connectionDone, no handler is alive, and the local tunnels, which write into
\* its queue, are destroyed.
ReceiverOutlivesItsUsers ==
  recv.pc = "gone" =>
     /\ tags = <<>>
     /\ \A s \in Sources :
          /\ done[s].pc \in {"none", "over"}
          /\ hnd[s].pc \in {"none", "closed"}
          /\ s \in Local /\ tunnel[s].sender =>
               /\ task[s] \in {"gone", "dropped"}
               /\ \A w \in WritersOf(s) : wr[w].pc \notin {"register", "put"}

\* A pipeline task parked on the receiver's queue although the queue has room: a pop
\* notified another local writer, whose packet was then skipped by pushPacket because
\* it contained no useful message, and only a push passes the notification on.
LeftParked(w) ==
  /\ From[w] \in Local /\ Contains(recvq.writers, w)
  /\ recvq.status = "NORMAL" /\ ~isFull(recvq, RecvLimits)
  /\ \E v \in Writers : /\ From[v] \in Local
                         /\ \E n \in 1 .. wr[v].sent : work.plan[v][n] = 0

\* The exchange ends: whatever fails, is cancelled or times out, the writers, the readers,
\* the tasks and the destructors that wait for each other all return.  The one way in
\* which it can stop before that is that a local writer is left parked by an empty packet.
EverythingEnds == <>[](Over \/ \E w \in Writers : LeftParked(w))

\* What the comment in LooseBoundedMPMCQueue::pushFront says of a blocked writer: when the
\* queue is not full it is notified and can write. A pipeline task that is parked on the
\* queue of the receiver, in which there is room, does not stay parked.
ParkedWriterGoesOn ==
  \A w \in Writers :
     (Contains(recvq.writers, w) /\ recvq.status = "NORMAL" /\ ~isFull(recvq, RecvLimits))
        ~> ~Contains(recvq.writers, w)
==============================================================================
