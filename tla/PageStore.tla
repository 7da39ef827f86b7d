------------------------------ MODULE PageStore ------------------------------
(***************************************************************************)
(* What PageStorage promises: a map from page ids to data with atomic      *)
(* write batches, snapshots that do not change while they are held, and    *)
(* restarts that lose no logged batch. There are no versions, reference    *)
(* counts, log files or garbage collection at this level.                  *)
(*                                                                         *)
(* A page that refers to another page shares its data from then on, even   *)
(* when the other page is deleted.                                         *)
(***************************************************************************)
EXTENDS Integers, Sequences, SequencesExt

CONSTANTS
    Pages,     \* the page ids
    Readers,   \* the readers that take snapshots
    Scopes     \* the sets of pages a snapshot may promise to protect

VARIABLES
    db,        \* the data of each page, 0 if there is none
    pending,   \* the batch that is logged and not yet published
    held,      \* the readers that have a snapshot
    view       \* what each reader's snapshot shows; <<>> if it has none

vars == <<db, pending, held, view>>

NoView == <<>>

Init ==
    /\ db = [p \in Pages |-> 0]
    /\ pending = <<>>
    /\ held = {}
    /\ view = [r \in Readers |-> NoView]

\* One record of a batch, in the order of the batch.
ApplyRecord(d, rec) ==
    [d EXCEPT ![rec.page] =
        CASE rec.type = "PUT" -> rec.val
          [] rec.type = "REF" -> d[rec.ori]
          [] rec.type = "DEL" -> 0]

Published(d, batch) == FoldLeft(ApplyRecord, d, batch)

\* From here on the batch survives a restart.
LogBatch ==
    /\ pending = <<>>
    /\ pending' # <<>>
    /\ UNCHANGED <<db, held, view>>

\* From here on new snapshots see the batch, all of it.
Publish ==
    /\ pending # <<>>
    /\ pending' = <<>>
    /\ db' = Published(db, pending)
    /\ UNCHANGED <<held, view>>

TakeSnapshot(r) ==
    /\ r \notin held
    /\ held' = held \cup {r}
    /\ \E S \in Scopes : view' = [view EXCEPT ![r] = [p \in S |-> db[p]]]
    /\ UNCHANGED <<db, pending>>

ReleaseSnapshot(r) ==
    /\ r \in held
    /\ held' = held \ {r}
    /\ view' = [view EXCEPT ![r] = NoView]
    /\ UNCHANGED <<db, pending>>

Restart ==
    /\ pending # <<>> \/ held # {}
    /\ pending' = <<>>
    /\ held' = {}
    /\ view' = [r \in Readers |-> NoView]
    /\ db' = Published(db, pending)

Next ==
    \/ LogBatch \/ Publish \/ Restart
    \/ \E r \in Readers : TakeSnapshot(r) \/ ReleaseSnapshot(r)

Spec == Init /\ [][Next]_vars

==============================================================================
