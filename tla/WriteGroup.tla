----------------------------- MODULE WriteGroup -----------------------------
(***************************************************************************)
(* The write pipeline of PageDirectory::apply: every call of apply pushes  *)
(* a Writer on the queue `writers`; the head of the queue becomes the      *)
(* owner of a write group, merges the edits of everyone behind it, leaves  *)
(* apply_mutex, writes the WAL, applies the records to the MVCC table,     *)
(* publishes them by advancing `sequence`, and takes apply_mutex again to  *)
(* pop the group and wake its members and the next owner.                  *)
(*                                                                         *)
(* A writer is one call of apply. Its edit is one record, named by the     *)
(* writer; an edit of several records behaves like several consecutive     *)
(* entries of a group. Sections under apply_mutex are one action each.     *)
(***************************************************************************)
EXTENDS Integers, Sequences, FiniteSets, Functions

CONSTANTS
    Writers,    \* the calls of PageDirectory::apply
    WalFaults,  \* TRUE: writing the WAL may fail
    MemFaults   \* TRUE: applying a record to the MVCC table may throw

ASSUME FaultsAssumption == WalFaults \in BOOLEAN /\ MemFaults \in BOOLEAN

VARIABLES
    pc,           \* where each call of apply is
    writers,      \* the queue, protected by apply_mutex
    edit,         \* each writer's edit, in the order of its records
    last_writer,  \* the owner's local: the last writer of its group
    done,         \* Writer::done
    success,      \* Writer::success
    base,         \* the owner's local: `sequence` when it numbered its records
    applied,      \* the owner's local: how many records are in the MVCC table
    sequence,     \* the published sequence
    wal,          \* pairs <<record, version>> in the log
    mem           \* pairs <<record, version>> in the MVCC table

vars == <<pc, writers, edit, last_writer, done, success, base, applied,
          sequence, wal, mem>>

\* "blocked" sleeps in cv.wait, "notified" has been woken and has not yet
\* taken apply_mutex. "owner", "logged", "finishing" and "failing" are the
\* owner's way through apply.
Owning == {"owner", "logged", "finishing", "failing"}
Returned == {"returned", "threw"}
PCs == {"idle", "blocked", "notified"} \cup Owning \cup Returned

Init ==
    /\ pc = [w \in Writers |-> "idle"]
    /\ writers = <<>>
    /\ edit = [w \in Writers |-> <<w>>]
    /\ last_writer = [w \in Writers |-> w]
    /\ done = [w \in Writers |-> FALSE]
    /\ success = [w \in Writers |-> FALSE]
    /\ base = [w \in Writers |-> 0]
    /\ applied = [w \in Writers |-> 0]
    /\ sequence = 0
    /\ wal = {}
    /\ mem = {}

----------------------------------------------------------------------------
\* The edits after the owner w has taken every edit of the queue q into its
\* own, in queue order, and emptied the others. A queued edit is one record.
Merged(e, w, q) ==
    [x \in Writers |->
        IF x = w THEN [i \in 1 .. Len(q) |-> e[q[i]][1]]
        ELSE IF x \in Range(q) THEN <<>>
        ELSE e[x]]

buildWriteGroup(w, q) ==
    /\ edit' = Merged(edit, w, q)
    /\ last_writer' = [last_writer EXCEPT ![w] = q[Len(q)]]
    /\ pc' = [pc EXCEPT ![w] = "owner"]

\* apply: push the writer; an empty queue makes it the owner at once.
EnterAsOwner(w) ==
    /\ pc[w] = "idle"
    /\ writers = <<>>
    /\ writers' = Append(writers, w)
    /\ buildWriteGroup(w, Append(writers, w))
    /\ UNCHANGED <<done, success, base, applied, sequence, wal, mem>>

EnterAndWait(w) ==
    /\ pc[w] = "idle"
    /\ writers # <<>>
    /\ writers' = Append(writers, w)
    /\ pc' = [pc EXCEPT ![w] = "blocked"]
    /\ UNCHANGED <<edit, last_writer, done, success, base, applied, sequence,
                   wal, mem>>

\* A condition variable may wake a thread without a notification.
SpuriousWakeup(w) ==
    /\ pc[w] = "blocked"
    /\ pc' = [pc EXCEPT ![w] = "notified"]
    /\ UNCHANGED <<writers, edit, last_writer, done, success, base, applied,
                   sequence, wal, mem>>

\* The woken writer evaluates the predicate of cv.wait under apply_mutex.
AwakeDone(w) ==
    /\ pc[w] = "notified"
    /\ done[w]
    /\ pc' = [pc EXCEPT ![w] = IF success[w] THEN "returned" ELSE "threw"]
    /\ UNCHANGED <<writers, edit, last_writer, done, success, base, applied,
                   sequence, wal, mem>>

\* Mutant: a woken writer takes the lead without looking at the queue.
AwakeUnchecked(w) ==
    /\ pc[w] = "notified"
    /\ ~done[w]
    /\ buildWriteGroup(w, writers)
    /\ UNCHANGED <<writers, done, success, base, applied, sequence, wal, mem>>

AwakeAsOwner(w) ==
    /\ pc[w] = "notified"
    /\ ~done[w]
    /\ w = Head(writers)
    /\ buildWriteGroup(w, writers)
    /\ UNCHANGED <<writers, done, success, base, applied, sequence, wal, mem>>

AwakeTooEarly(w) ==
    /\ pc[w] = "notified"
    /\ ~done[w]
    /\ w # Head(writers)
    /\ pc' = [pc EXCEPT ![w] = "blocked"]
    /\ UNCHANGED <<writers, edit, last_writer, done, success, base, applied,
                   sequence, wal, mem>>

----------------------------------------------------------------------------
\* The i-th record of the owner's edit with its version.
Numbered(w, seq) == {<<edit[w][i], seq + i>> : i \in DOMAIN edit[w]}

\* Number the records after `sequence` and write them to the WAL.
WalApply(w) ==
    /\ pc[w] = "owner"
    /\ base' = [base EXCEPT ![w] = sequence]
    /\ wal' = wal \cup Numbered(w, sequence)
    /\ pc' = [pc EXCEPT ![w] = "logged"]
    /\ UNCHANGED <<writers, edit, last_writer, done, success, applied,
                   sequence, mem>>

\* wal->apply throws: the records may or may not be on disk.
WalFail(w) ==
    /\ WalFaults
    /\ pc[w] = "owner"
    /\ wal' \in {wal, wal \cup Numbered(w, sequence)}
    /\ pc' = [pc EXCEPT ![w] = "failing"]
    /\ UNCHANGED <<writers, edit, last_writer, done, success, base, applied,
                   sequence, mem>>

\* Mutant: the versions given to the MVCC table are one behind the log's.
CommitRecordOffByOne(w) ==
    /\ pc[w] = "logged"
    /\ applied[w] < Len(edit[w])
    /\ mem' = mem \cup {<<edit[w][applied[w] + 1], base[w] + applied[w]>>}
    /\ applied' = [applied EXCEPT ![w] = @ + 1]
    /\ UNCHANGED <<pc, writers, edit, last_writer, done, success, base,
                   sequence, wal>>

\* One iteration of the loop that applies the records to the MVCC table.
CommitRecord(w) ==
    /\ pc[w] = "logged"
    /\ applied[w] < Len(edit[w])
    /\ LET i == applied[w] + 1
       IN  mem' = mem \cup {<<edit[w][i], base[w] + i>>}
    /\ applied' = [applied EXCEPT ![w] = @ + 1]
    /\ UNCHANGED <<pc, writers, edit, last_writer, done, success, base,
                   sequence, wal>>

\* The record is refused (e.g. a REF to a page that does not exist).
CommitThrow(w) ==
    /\ MemFaults
    /\ pc[w] = "logged"
    /\ applied[w] < Len(edit[w])
    /\ pc' = [pc EXCEPT ![w] = "failing"]
    /\ UNCHANGED <<writers, edit, last_writer, done, success, base, applied,
                   sequence, wal, mem>>

\* Mutant: the sequence moves the wrong way.
PublishBackwards(w) ==
    /\ pc[w] = "logged"
    /\ applied[w] = Len(edit[w])
    /\ sequence' = sequence - Len(edit[w])
    /\ pc' = [pc EXCEPT ![w] = "finishing"]
    /\ UNCHANGED <<writers, edit, last_writer, done, success, base, applied,
                   wal, mem>>

\* sequence.fetch_add(edit_size), still under the exclusive table lock.
Publish(w) ==
    /\ pc[w] = "logged"
    /\ applied[w] = Len(edit[w])
    /\ sequence' = sequence + Len(edit[w])
    /\ pc' = [pc EXCEPT ![w] = "finishing"]
    /\ UNCHANGED <<writers, edit, last_writer, done, success, base, applied,
                   wal, mem>>

\* The SCOPE_EXIT block pops the queue up to last_writer, hands the result
\* to the popped writers and notifies them, then notifies the new head.
GroupLen(w) == CHOOSE k \in DOMAIN writers : writers[k] = last_writer[w]

Members(w) == {writers[i] : i \in 1 .. GroupLen(w)} \ {w}

Remaining(w) == SubSeq(writers, GroupLen(w) + 1, Len(writers))

\* Mutant: the next owner is not woken.
NotifyMembersOnly(w) == Members(w)

Notify(w) ==
    Members(w) \cup (IF Remaining(w) = <<>> THEN {} ELSE {Remaining(w)[1]})

\* Mutant: `success` is not reset by a failure.
AlwaysSuccess(w) == TRUE

Succeeded(w) == pc[w] = "finishing"

Finish(w) ==
    /\ pc[w] \in {"finishing", "failing"}
    /\ writers' = Remaining(w)
    /\ done' = [x \in Writers |-> done[x] \/ x \in Members(w)]
    /\ success' = [x \in Writers |->
          IF x \in Members(w) THEN Succeeded(w) ELSE success[x]]
    /\ pc' = [x \in Writers |->
          IF x = w THEN IF Succeeded(w) THEN "returned" ELSE "threw"
          ELSE IF x \in Notify(w) /\ pc[x] = "blocked" THEN "notified"
          ELSE pc[x]]
    /\ UNCHANGED <<edit, last_writer, base, applied, sequence, wal, mem>>

----------------------------------------------------------------------------
\* What a thread inside apply does next when it is scheduled.
Step(w) ==
    \/ AwakeDone(w) \/ AwakeAsOwner(w) \/ AwakeTooEarly(w)
    \/ WalApply(w) \/ WalFail(w)
    \/ CommitRecord(w) \/ CommitThrow(w) \/ Publish(w)
    \/ Finish(w)

Next ==
    \E w \in Writers :
        \/ EnterAsOwner(w) \/ EnterAndWait(w) \/ SpuriousWakeup(w)
        \/ Step(w)

Spec == Init /\ [][Next]_vars

\* A thread that can run is eventually scheduled.
FairSpec == Spec /\ \A w \in Writers : WF_vars(Step(w))

----------------------------------------------------------------------------
\* The state of the write pipeline is well typed; versions are naturals.
TypeOK ==
    /\ pc \in [Writers -> PCs]
    /\ writers \in Seq(Writers)
    /\ edit \in [Writers -> Seq(Writers)]
    /\ last_writer \in [Writers -> Writers]
    /\ done \in [Writers -> BOOLEAN]
    /\ success \in [Writers -> BOOLEAN]
    /\ base \in [Writers -> Nat]
    /\ applied \in [Writers -> Nat]
    /\ sequence \in Nat
    /\ wal \subseteq Writers \X Nat
    /\ mem \subseteq Writers \X Nat

\* A call of apply that returns without an exception has its record in the
\* WAL and in the MVCC table under one and the same published version,
\* whoever owned its group and whatever failed before or after it.
AckedIsDurableAndVisible ==
    \A w \in Writers :
        pc[w] = "returned" =>
            \E v \in 1 .. sequence : <<w, v>> \in wal /\ <<w, v>> \in mem

\* The merge moves each edit: no record is written twice, neither to the WAL
\* nor to the MVCC table.
EachRecordOnce ==
    \A p, q \in wal \cup mem : p[1] = q[1] => p = q

\* No wakeup is lost: the head of the queue is never left asleep, and neither
\* is a writer whose work is done.
NoLostWakeup ==
    \A w \in Writers :
        pc[w] = "blocked" => /\ ~done[w]
                             /\ w \in Range(writers)
                             /\ w # Head(writers)

\* At most one group is between buildWriteGroup and the pop, although
\* apply_mutex is not held there: the owner is the head of the queue.
OneOwner ==
    \A w \in Writers :
        pc[w] \in Owning => writers # <<>> /\ w = Head(writers)

VisibleAt(s) == {p \in mem : p[2] <= s}

\* What a reader sees at a published sequence never changes afterwards:
\* apply advances `sequence` only after all records are in the MVCC table.
PublishedIsImmutable ==
    [][\A s \in 0 .. sequence : VisibleAt(s)' = VisibleAt(s)]_vars

\* Every call of apply comes back, with success or with an exception.
EveryWriterReturns ==
    \A w \in Writers : pc[w] # "idle" ~> pc[w] \in Returned

============================================================================
