---------------------------- MODULE S3LockService ----------------------------
(***************************************************************************)
(* The lock service that runs on every write node and answers only on the  *)
(* GC owner (src/dbms/src/Flash/Disaggregated/S3LockService.cpp), and the  *)
(* election of the owner over etcd as the service sees it                  *)
(* (src/dbms/src/TiDB/OwnerManager.cpp).                                   *)
(*                                                                         *)
(* A call is one execution of a handler on a node.  The owner may change   *)
(* between any two steps of it, and the client may have given up waiting   *)
(* (live = FALSE); the handler does not notice that.                       *)
(***************************************************************************)
EXTENDS S3Store

CONSTANTS
    MaxFaults,          \* bound on the number of faults
    Instances,          \* bounds of a behaviour: its GC method, the first owner, its files, its last
                        \* point in time, how many checkpoints each
                        \* store uploads, whether these are manifest_only, how many batches
                        \* ingest pages, the kinds of faults
    Exempt              \* the Windows whose files the properties leave out

VARIABLES
    leader,             \* the node whose key etcd holds, or None
    owner,              \* the nodes where isOwner() is true
    calls,              \* handlers in progress and answers on their way
    exposed,            \* history: the files that have met one of the Windows
    faults,             \* how often a lease, a call, an upload, a write or a process has failed
    instance            \* a member of Instances, never changes

ownerVars == <<leader, owner>>

\* Interleavings in which the locks do not protect a file:
\*   prelock    a checkpoint begins between the creation of a lock and its entry
\*              in pre_lock_keys,
\*   split      two nodes that both take themselves for the owner lock the file
\*              and mark it as deleted at the same time,
\*   vanish     the data file and its delmark go between the two requests by
\*              which tryAddLock looks for them,
\*   lifecycle  S3 expires the delmark before the data file,
\*   local      a store takes its own file back from another store and locks it
\*              without asking the lock service.
Windows == {"prelock", "split", "vanish", "lifecycle", "local"}

ASSUME WindowsAssumption == Exempt \subseteq Windows

Meets(window, f) == exposed' = exposed \cup {<<window, f>>}

Answers == {"success", "conflict", "not_owner"}

Calls == [kind : {"lock", "mark"}, from : Stores, file : Files, seq : 0..MaxSeq + 1, node : Stores,
          live : BOOLEAN,
          pc : {"sent", "delmark", "upload", "confirm"} \cup Answers]

TypeOfService ==
    /\ leader \in Stores \cup {None}
    /\ owner \subseteq Stores
    /\ faults \in 0..MaxFaults
    /\ instance \in Instances
    /\ calls \subseteq Calls
    /\ exposed \subseteq Windows \X (Files \cup LockKeys)

InitService ==
    /\ instance \in Instances
    /\ leader = instance.owner
    /\ owner = {leader}
    /\ faults = 0
    /\ calls = {}
    /\ exposed = {}

-----------------------------------------------------------------------------

Fault(kind) ==
    /\ kind \in instance.faults
    /\ faults < MaxFaults
    /\ faults' = faults + 1

(* Election *)

\* camaignLoop: etcd grants the key, toBeOwner sets the local leader key.  A node
\* that has lost its lease may still take itself for the owner.
toBeOwner(n) ==
    /\ leader = None
    /\ leader' = n
    /\ owner' = owner \cup {n}
    /\ UNCHANGED <<s3vars, clock, calls, exposed, faults>>

\* etcd drops the key of a lease that was not kept alive; or resignOwner deletes it.
LeaseExpires ==
    /\ Fault("lease")
    /\ leader # None
    /\ leader' = None
    /\ UNCHANGED <<s3vars, clock, owner, calls, exposed>>

\* The watch, the keep-alive task, the session check or resignOwner ends the
\* campaign.
retireOwner(n) ==
    /\ n \in owner
    /\ leader # n
    /\ owner' = owner \ {n}
    /\ UNCHANGED <<s3vars, clock, leader, calls, exposed, faults>>

-----------------------------------------------------------------------------
(* Handlers *)

Send(kind, from, f, seq, n) ==
    calls' = calls \cup
        {[kind |-> kind, from |-> from, file |-> f, seq |-> seq, node |-> n, live |-> TRUE, pc |-> "sent"]}

\* What the client of kind waits for.
Waiting(kind, from) == {c \in calls : c.kind = kind /\ c.from = from /\ c.live}

\* The answer reaches the client, or nobody if it has given up.
Reply(c, answer) ==
    calls' = (calls \ {c}) \cup (IF c.live THEN {[c EXCEPT !.pc = answer]} ELSE {})

Goto(c, pc) == calls' = (calls \ {c}) \cup {[c EXCEPT !.pc = pc]}

\* getDataFileLatch: one handler at a time on a node and a data file.
Latched(c) ==
    \E d \in calls : /\ d.node = c.node /\ d.file = c.file
                     /\ d.pc \notin Answers \cup {"sent"}

serviceUnchanged == UNCHANGED <<data, manifests, clock, ownerVars, faults>>

\* A file is marked as deleted whether it is locked or not.
ConflictIgnoresLocks(c) == c.kind = "lock" /\ delmark[c.file] # 0

\* What makes a handler refuse: a delmark keeps locks out, a lock keeps the
\* delmark out.
Conflict(c) ==
    IF c.kind = "lock" THEN delmark[c.file] # 0
                       ELSE \E l \in locks : l.file = c.file

\* "Check whether this node is owner again", which is taken with the read of S3
\* before it.
Checked(c) ==
    IF Conflict(c) THEN Reply(c, "conflict")
    ELSE IF c.node \in owner THEN Goto(c, "upload")
    ELSE Reply(c, "not_owner")

\* tryAddLockImpl and tryMarkDeleteImpl up to their first request to S3: "make
\* sure data file exists", or "make sure data file has not been locked".
Begin(c) ==
    /\ c.pc = "sent"
    /\ IF c.node \notin owner
       THEN Reply(c, "not_owner")
       ELSE /\ ~Latched(c)
            /\ IF c.kind = "mark" THEN Checked(c)
               ELSE IF c.file \in data THEN Goto(c, "delmark")
               ELSE Reply(c, "conflict")
    /\ UNCHANGED <<locks, delmark, exposed>>
    /\ serviceUnchanged

\* "make sure data file is not mark as deleted"
CheckDelmark(c) ==
    /\ c.pc = "delmark"
    /\ Checked(c)
    /\ UNCHANGED <<locks, delmark, exposed>>
    /\ serviceUnchanged

\* uploadEmptyFile of the lock or of the delmark.  A handler of another node may
\* have made its checks for the opposite request.
Upload(c) ==
    /\ c.pc = "upload"
    /\ Goto(c, "confirm")
    /\ IF c.kind = "lock"
       THEN /\ locks' = locks \cup {LockKey(c.file, c.from, c.seq)}
            /\ UNCHANGED delmark
       ELSE /\ delmark' = [delmark EXCEPT ![c.file] = clock]
            /\ UNCHANGED locks
    /\ IF \E d \in calls : d.file = c.file /\ d.kind # c.kind /\ d.pc = "upload"
       THEN Meets("split", c.file)
       ELSE UNCHANGED exposed
    /\ serviceUnchanged

\* A lock without ownership is refused although it is uploaded; a delmark
\* without ownership is only counted in a metric, type_delete_risk.
Confirm(c) ==
    /\ c.pc = "confirm"
    /\ Reply(c, IF c.kind = "lock" /\ c.node \notin owner THEN "not_owner" ELSE "success")
    /\ UNCHANGED <<locks, delmark, exposed>>
    /\ serviceUnchanged

\* The connection breaks: the handler goes on, its client does not wait for it.
RpcError(c) ==
    /\ Fault("rpc")
    /\ c.live
    /\ calls' = (calls \ {c}) \cup (IF c.pc \in Answers THEN {} ELSE {[c EXCEPT !.live = FALSE]})
    /\ UNCHANGED <<s3vars, clock, ownerVars, exposed>>

ServiceStep ==
    \/ \E n \in Stores : toBeOwner(n) \/ retireOwner(n)
    \/ LeaseExpires
    \/ \E c \in calls :
        \/ Begin(c)
        \/ CheckDelmark(c)
        \/ Upload(c)
        \/ Confirm(c)
        \/ RpcError(c)
=============================================================================
