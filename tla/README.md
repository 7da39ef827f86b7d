# A formal model of TiFlash

TLA+ specifications of the concurrent and crash-safe parts of TiFlash, model-checked with TLC
and, where the prover reaches, proved with TLAPS. The models are written from the C++ code under
`src/dbms/src`; `PROJECT.json` maps every definition to the lines it stands for.

Four parts of the system are covered:

- **PageStorage V3**, the page store under DeltaMerge, the KVStore and the raft log: everything
  TiFlash must find again after a restart goes through it.
- **The MPP task manager and its scheduler**, which decide when the tasks of distributed queries may
  run and see to it that every task goes away again, whatever fails.
- **Locks and garbage collection on S3**: write nodes that keep pages in a shared bucket, the lock
  service that protects the files they refer to, and the collector that removes the others.
- **The MPP exchange**: the tunnels and the receiver through which tasks send each other packets.

## Inventory

| Part | State | What is hard | Here |
|---|---|---|---|
| Write groups (`PageDirectory::apply`) | queue of `Writer`s, `sequence` | lost wakeups, two leaders, a failure told to members as success | `WriteGroup` |
| Version lists (`VersionedPageEntries`, `MultiVersionRefCount`) | entries and delete marks by version, reference counts by sequence | cleaning what a snapshot or a ref still reads; counts that drift | `VersionedPages` |
| MVCC table, snapshots, `doGC` | map of version lists, live snapshots | GC page by page against writes and snapshots | `PageDirectory` |
| Log (`WALStore`, `WALStoreReader`) | numbered files, dumps | compaction of what is not in the dump; crash between rename and removal | `WALFiles`, `PageDirectory` |
| Restore (`PageDirectoryFactory`) | version lists from the log | a record replayed twice; a deleted page revived | `PageDirectory` |
| Blob space (`BlobStore`, `BlobStat`) | who owns which space | double release, leak, reuse of live space | `PageDirectory` (owners, not offsets) |
| MPP scheduler | active and waiting queries, thread quotas | a query that waits for ever; nodes that wait for each other | `MinTSOScheduler` |
| MPP task manager | gather task sets, aborted gathers | abort in two lock sections; alarms | `MPPTaskSets`, `MPPTaskManager` |
| Remote pages and checkpoints | locks, manifests, `pre_lock_keys` | lock before visible; upload against GC; restart | `S3Store`, `S3WriteNode` |
| S3 lock service, owner | lock files, delmarks, the owner's lease | lock against delmark; two owners | `S3LockService` |
| S3 GC | manifests, locks, data files | work on what was read before; expiry | `S3GCManager` |
| MPP tunnels, receivers, queues | connections, queues, parked tags and tasks | close races connect; a reader never woken | `MPMCQueue`, `MPPTunnel`, `ExchangeReceiver` |
| External page callbacks | files on disk | need the path pool outside PageStorage | not modelled |
| Pipeline execution | events, task counts, thread-pool queues | seen only through the queues a task parks on | not modelled |
| Resource control | token buckets | real-valued rates over time | not modelled |
| DeltaMerge, KVStore, learner read | segments, regions | bound to block data, or to TiKV's proxy | not modelled |
| Schema sync; function, join and aggregation engines | data | data, not interleavings | not modelled |

Interactions. DeltaMerge and the KVStore write batches to `PageStorageImpl::write`, which puts the
data into blob files and the index into `PageDirectory::apply`; readers hold a snapshot for as long
as a query runs; one background thread at a time runs `doGC`, whose steps (in-memory GC, log dump,
release of blob space, choice of blob files, copy of their live entries, `gcApply`) interleave with
both. A restart replays the log into a new directory and rebuilds the space map from it.

With disaggregated storage the data of a page is in a file on S3. A write node locks the file, through
the lock service of the node that owns GC or directly for a file of its own, before the page
becomes visible; its checkpoints upload a manifest that lists the locks; the owner's `S3GCManager`
removes locks that no preserved manifest lists, marks files without locks as deleted, and removes
them when the mark has expired.

TiDB dispatches the tasks of a query to several nodes (`MPPHandler::execute`); each node registers
its tasks in its `MPPTaskManager`, and a task asks `MinTSOScheduler`, under the manager's mutex, for
its threads before it executes. Receivers look up the tunnels of tasks that may not be there yet.
Once connected, a task's pipelines write into its tunnels, and the receiver's pipelines read what
arrives. TiDB cancels the gathers of a query when one of its tasks fails.

## Modules

### PageStorage

**`WriteGroup`** models `PageDirectory::apply` as a protocol between any number of calls. A call
enqueues itself; the head of the queue merges the edits of everyone behind it, leaves
`apply_mutex`, writes the log, applies the records one by one, advances `sequence`, then takes the
mutex again, pops the group, hands over the result and wakes the members and the next head. One
action is one section under the mutex or one step of the owner outside it. An edit is one record,
named by its writer. `wal` and `mem` are sets of `<<record, version>>`. The log write and each
record may fail (`WalFaults`, `MemFaults`); a failing log write may or may not leave the records on
disk. Spurious wakeups of the condition variable are an external action.

**`VersionedPages`** holds the version list of one page as a record and its methods as operators,
each with a companion `...Ok` that says when the C++ code does not throw. Reference counts are kept
per sequence as in `MultiVersionRefCount`. An entry stands for its blob position: it is named by the
page and version that allocated it and by the sequence of the PUT whose data it holds, so that a
move by full GC gives a new entry with the same data.

**`WALFiles`** is the directory of log files with the operations of `WALStore` and
`WALStoreReader`: which file a batch goes to, which files a dump may replace, under which name the
dump is saved, which file is the checkpoint of a restart. Files with the same number and level are
one key of the ordered set that `listAllFiles` fills, as `LogFilenameCmp` has it.

**`PageDirectory`** composes the two: a writer that logs and commits batches, readers that take,
register and release snapshots, the garbage collector, and crash with restart. One writer is enough,
because `WriteGroup` shows that groups run one after the other; one collector, because `doGC`
returns when `gc_is_running` is set. The collector is a program counter that walks through
`gcInMemEntries` (per page: clean under the list's lock, erase under the table lock; then the
collected derefs), `tryDumpSnapshot` (snapshot, list files, choose files, collapse and save, remove
one by one), release of the removed entries' space, and full GC (choose blobs, scan entries and
refs, log the moves, apply them). `failed` is set when the code would throw a logical error; `live`
is the set of entries that own blob space; `setup` says which pages, readers and features a
behaviour uses.

**`PageStore`** is what PageStorage promises its users: a map with atomic batches, snapshots that do
not change, restarts that lose no logged batch. It has no versions, counts, files or GC.
`PageDirectory!ImplementsPageStore` states that the directory implements it; the refinement mapping
reads every page through `getByID` at the current sequence and at each snapshot.

### MPP tasks

**`MinTSOScheduler`** has the scheduler's methods as operators on its state: the waiting and active
queries, the oldest query and the thread count of each resource group, the thread count of the node,
the queue of waiting tasks of each gather, and the state of each schedule entry. Query ids are
numbers in the order of their start timestamps. The loop of `scheduleWaitingQueries` is a recursive
function whose steps are iterations.

**`MPPTaskSets`** is the state of the managers of all nodes and the helpers of their sections:
finding, adding and removing a gather task set, and the cache of aborted gathers.

**`MPPTaskManager`** has one action per section under the manager's mutex and per step of a task's
thread outside it: `Register`, `MakeTaskActive`, `HandlerError` (`MPPHandler`), `Run`,
`TryToSchedule`, `Awake`, `Start`, `Finish`, `Fail` (`runImpl`), `Unregister`, and `Destroy` (the
destructor that returns the threads). `AbortBegin`, `AbortTask`, `AbortEntry` and `AbortEnd` are
`abortMPPGather`: two sections and, between them, `MPPTask::abort` for one task after the other,
first its status and then its schedule entry. `Lookup` and `LookupAgain` are `findAsyncTunnel` for a
new request and for one whose alarm has fired; `findTunnelWithTimeout` changes nothing. A gather is a
gather on one node. What a task executes is one step, which waits until all tasks of the query on
all nodes have started: no real plan depends on more than that. A workload names the tasks, the
requests, the gathers TiDB may cancel for no reason of ours, and the tasks that may fail.

### S3

**`S3Store`** is the bucket: data files, lock files, delmarks and manifests, with the rules by which
manifests age. Every request to S3 is one step.

**`S3LockService`** has one action per request to S3 of `tryAddLockImpl` and `tryMarkDeleteImpl`, the
latch, the checks of ownership, and the owner's election as far as a node can tell: the key in etcd
may be lost at any time and the node learns of it later, so that two nodes may take themselves for the
owner. The client may stop waiting for a handler, which goes on.

**`S3WriteNode`** is a write node: a batch that writes a DTFile or ingests pages of another store,
locks its files, enters the locks into `pre_lock_keys`, applies the pages and takes the locks out
again (`createS3LockForWriteBatch` to `cleanAppliedS3ExternalFiles`); a checkpoint that allocates its
sequence, dumps, uploads data files, locks and manifest in this order and moves the pages to what it
has written; failures, restart and the removal of the store. Both values of
`remote_checkpoint_only_upload_manifest` are modelled; it does not change while a node runs.

**`S3GCManager`** composes them with the collector: a round for a store or for a tombstone store reads
the manifests, goes through the locks (`cleanOneLock`, then `CheckDelmarkOfLock`), marks files, removes
outdated manifests and expired files, with both methods of removal (scan, or S3's lifecycle rule). A
tick of the clock outlasts every RPC and the step from an uploaded manifest to the pages it moved: delmarks
and manifests expire after hours, and RPCs have deadlines of seconds.

### MPP exchange

**`MPMCQueue`** is `LooseBoundedMPMCQueue` as far as it is not blocking: limits by number and by bytes,
status, and the lists of pipeline tasks to notify.

**`MPPTunnel`** is the sending half: the tunnel of each source with its status and consumer state, the
pipeline tasks that write, the thread of the source task that ends with `writeDone` or with an error,
abort, and `EstablishCallData` with `GRPCSendQueue`. A remote source has an asynchronous gRPC tunnel,
a local one writes into the receiver's own queue (`LocalTunnelSenderV2`).

**`ExchangeReceiver`** is the receiving half: connections with their retries, `GRPCRecvQueue` with its
parked tags, `pushPacket`, the readers, `connectionDone`, cancellation, the destructor. It composes both
halves. `kick` is a step of its own, after the change of the queue that calls for it. A workload says which
sources are remote and local, how many bytes the packets of each writer have (0: no useful message
for this receiver), which readers there are, and which faults may happen how often.

`WriteGroupProofs`, and `ScheduleInvariant`, `ScheduleAdmit`, `ScheduleQueue`, `ScheduleRelease`,
`MPPInvariant`, `MPPSets`, `MPPTaskProofs`, `MPPAbortProofs`, `MPPProofs` hold the invariants and the
proofs. `MCWriteGroup`, `MCPageDirectory`, `MCMPPTaskManager`, `MCS3` and `MCExchange` are the modules
TLC is started with.

### Callers' contract

`PageDirectory` does not accept every batch, and its callers do not send every batch. The page ids
are split into the classes the code uses: data pages are written once, referred to and deleted (DTFile
and column-file data); ref pages are made by REF once and deleted; meta pages are overwritten and
deleted again and again (segment meta, raft log and region data, the latter protected by fewer
snapshots); external pages are registered once, referred to and deleted. A batch is one record, or a
ref with the deletion of its origin, as a segment split or merge writes it. A page is deleted only
while it is there. The directory relies on this: a second DEL of a ref or external page moves
`delete_ver` forward (`createDelete`, `PageDirectory.cpp:313-318`), and snapshots between the two
deletions see the page again, which TLC shows when the contract is dropped.

### Interleavings the code does not handle

**In PageStorage**, `Races` names the interleavings that a guard each keeps out of the passing run.
A violation run allows one of them and shows what happens; `findings` in `PROJECT.json` compares it with
the comments of the code.

| Race | Interleaving | Run |
|---|---|---|
| `snapshot` | a GC round between reading `sequence` and registering the snapshot | `race_snapshot` |
| `reuse` | a PUT of a page between GC's decision to drop its list and the erase | `race_reuse` |
| `stall` | a dump while a logged batch is unpublished and full GC has logged after it | `race_stall` |
| `overlap` | a page deleted between full GC's scan and its upsert, whose record outlives a dump | `race_overlap` |
| `rename` | after a crash before the removals, a dump that gets the name of a dump it replaces | `race_rename` |

**On S3** no guard keeps anything out. The history variable `exposed` records which files and locks have
met one of five `Windows`, and the properties excuse a lock only if it or its file has met a window
in `Exempt`. So the run `s3_locks`, with all of them exempt, shows that a window harms only the
files that meet it and that nothing else does harm.

| Window | Interleaving | Without the exemption |
|---|---|---|
| `prelock` | a checkpoint takes its sequence after a lock with that sequence is created and before it is in `pre_lock_keys` | run `s3_prelock` and its finding: `PagesHaveData` is violated |
| `split` | two nodes that both take themselves for the owner lock a file and mark it as deleted | `PagesHaveData` is violated; the code counts the risk in a metric |
| `vanish` | data file and delmark go between the two requests by which `tryAddLock` looks for them | `PagesHaveData` is violated; no comment speaks of it |
| `lifecycle` | S3 expires the delmark before the data file | `PagesHaveData` is violated; the comment at `S3GCManager.cpp:472-478` names the gap and relies on a day without access |
| `local` | a store takes its own file back from another store and locks it without the lock service | `PagesAreLocked` is violated |

**In the exchange**, a pipeline task that waits for room in the receiver's queue can be left parked
although there is room: a pop notifies one task, a push passes the notification on, and a local writer
whose packet is empty returns without a push. `exchange_parked` shows it. `EverythingEnds` names this
state (`LeftParked`) as the only one in which the exchange may stop.

## Runs

| Run | Instance | Checks | Shows |
|---|---|---|---|
| `write_group` | 4 writers, both kinds of failure | `TypeOK`, `AckedIsDurableAndVisible`, `EachRecordOnce`, `NoLostWakeup`, `OneOwner`, `PublishedIsImmutable`, `EveryWriterReturns` | the group protocol is right, including its liveness |
| `page_store` | six setups, below | `TypeOK`, `NoLogicalError`, `SpaceIsOwned`, `RefCountsAreExact`, `OneRoundFreesGarbage`, `ImplementsPageStore` | snapshots are stable under GC, counts are exact, garbage is freed, compaction, moves and restarts lose and revive nothing |
| `race_snapshot`, `race_reuse`, `race_stall`, `race_overlap`, `race_rename` | one race allowed | `ImplementsPageStore` | violated, one finding each |
| `mpp` | five workloads, below | `TypeOK`, `NoAssertionFails`, `ThreadsAreCounted`, `NoForgottenWaiter`, `MinQueryIsOldest`, `NothingLeftBehind`, `AbortedGathersAreClosed`, `EveryTaskEnds` | registration, scheduling and abort in every order; no deadlock between nodes |
| `s3_locks` | six instances, below, all windows exempt | `TypeOK`, `PagesHaveData`, `PagesAreLocked`, `PreservedManifestsAreLocked` | outside the windows no page loses its lock or its data |
| `s3_prelock` | a store ingests a file, the window `prelock` not exempt | `PagesHaveData` | violated, one finding |
| `exchange` | eleven workloads, below | `TypeOK`, `ReceivedInOrder`, `EofIsComplete`, `WriteDoneIsDelivered`, `NoLostKick`, `ReceiverOutlivesItsUsers`, `EverythingEnds` | packets arrive once and in order, errors are not taken for the end, everybody returns |
| `exchange_parked` | two local sources, an empty packet | `ParkedWriterGoesOn` | violated, one finding |

What the properties say:

- `AckedIsDurableAndVisible`: a call of `apply` that returns has its record in the log and in the
  table under one and the same published version.
- `EachRecordOnce`: merging edits into a group never writes a record twice.
- `NoLostWakeup`, `OneOwner`, `EveryWriterReturns`: the head of the queue is never left asleep, one
  group runs at a time, every call comes back.
- `PublishedIsImmutable`: what is visible at a published sequence never changes.
- `NoLogicalError`: none of the code's logical-error exceptions is reachable by callers that keep
  their contract, including in GC and in a restart.
- `RefCountsAreExact`: outside the collector's pending derefs, the count of a page is one plus the
  number of ref pages that exist and point to it.
- `SpaceIsOwned`: the entries that own blob space are exactly those in version lists and those on
  their way to being released.
- `OneRoundFreesGarbage`: a GC round during which nothing is written and no older snapshot is held
  leaves no space allocated that no page shows.
- `ImplementsPageStore`: refinement of `PageStore`.
- `NoAssertionFails`: the assertions of the task manager and the scheduler hold, among them the one
  in the second section of `abortMPPGather`, which relies on `unregisterTask` waiting.
- `ThreadsAreCounted`: both thread counts are the sums over the tasks that hold threads, and no group
  is above the hard limit. (The node may be: a newer query of another group is only held against the
  soft limit of its group.)
- `NoForgottenWaiter`, `MinQueryIsOldest`: whoever sleeps in `waitForSchedule` will be looked at, and
  the privileged query is the oldest one and still exists.
- `NothingLeftBehind`: no empty gather and no ended query stays in the manager or the scheduler.
- `AbortedGathersAreClosed`: the task map that `abortMPPGather` walks over without the mutex does not
  change, and a remembered gather gets no tasks.
- `EveryTaskEnds`: every task finishes, fails or is cancelled.
- `PagesHaveData`, `PagesAreLocked`: the data file of every remote page of a running store is on S3,
  its lock exists and it is not marked as deleted. A page whose data a checkpoint has just written
  again needs no lock on its old file.
- `PreservedManifestsAreLocked`: the same for the locks that a preserved manifest lists, which is what
  a store that restores or ingests from it needs.
- `ReceivedInOrder`: the readers see the packets of each writer in order, without gap or repetition.
- `EofIsComplete`: a reader is told EOF only after every packet of every source that ran.
- `WriteDoneIsDelivered`: `writeDone` returns without an exception only if the consumer took everything.
- `NoLostKick`: a parked gRPC tag belongs to a queue that has nothing for it, or somebody is about to
  kick it.
- `ReceiverOutlivesItsUsers`: when the destructor of the receiver returns nobody uses it any more.
- `EverythingEnds`: all threads, tasks and destructors of the exchange return, but for `LeftParked`.
- `ParkedWriterGoesOn`: a pipeline task that is parked on a queue with room does not stay parked.

Deadlock is checked in `page_store`, where the collector can always start another round. It is not
checked in the other runs, which end when every call has returned, every task is gone, or the bounds on
checkpoints and on the clock are reached.

### Bounds

**PageStorage.** `MaxSeq` and a setup's `max_seq` bound the number of records ever written (4 to 6):
put, ref, delete of the origin, delete of the ref is the shortest history that leaves a deleted page
alive only through a ref, and two more records let a ref be referred to. `MaxLogFiles = 1` makes a
dump happen as soon as two files are closed; `MaxEpoch = 1` lets an entry be moved once, which is enough
for a move to meet a delete, a ref, a dump or a crash. One reader suffices for safety since GC only uses
the smallest snapshot sequence of each kind. The setups of `page_store` (`MCPageDirectory!AllSetups`)
are: a data page and a ref with a reader; a raft page with a reader; a data page with two refs, one of
which may refer to the other; a data page and a ref with dumps, full GC and crashes; an external page and
a ref, and a meta page, each with dumps, files that roll, and crashes. Not combined, for lack of
time: readers with dumps and full GC, rolled files with full GC, and more than two pages
with crashes.

**MPP tasks.** The soft limit is one thread and the hard limit two, so that a second query has to wait
and a third thread of a node exceeds the hard limit; the task of two threads makes the oldest query fail
there as well. `CacheSize = 1` lets the second aborted gather evict the first. The workloads are: two
gathers of one query, one cancelled and the other with a failing task; two queries with a
cancellation, a failing task and a receiver that asks for a tunnel; three gathers of two queries with a
failing task; two queries with a task on each of two nodes, the smallest cycle of nodes that wait for
each other; three queries in two resource groups with a cancellation. The theorems below hold for every
workload.

**S3.** Two stores, a DTFile and two checkpoint files of store `s1`, two checkpoints, three points in
time (two in the instances without ingestion and in those with a change of owner or a file that
comes back), one fault per behaviour and one preserved manifest. A file that a manifest lists needs three
points in time to be removed: the manifest expires, the file is marked, the mark expires. With two,
only files of a removed store and files that no manifest has listed get that far. The instances of `s3_locks` are: a DTFile with `manifest_only` checkpoints and a failing write; checkpoints
that compact, fail and are cut off by a restart; an ingested file with broken calls, restarts, failing
writes and removed stores; the lifecycle rule; a change of owner; a file that its store takes back.

**Exchange.** One packet fills the queue of a tunnel, and two small packets or a large one that of
the receiver; a connection is tried at most twice. The workloads have one or two sources, remote, local or
one of each, up to three packets per writer, two writers of one source, two readers, a packet of no
bytes, for a single source any one fault or no connection at all, and for two local ones an abort. Within these bounds at most one gRPC tag is parked at the
receiver at a time; the order among several parked tags is not exercised.

### Fairness

`WriteGroup!FairSpec` has weak fairness for each thread inside `apply`: a runnable thread is
eventually scheduled and a mutex held for a bounded time is eventually obtained. Nothing forces a
call to start or a spurious wakeup. `MPPTaskManager!FairSpec` has weak fairness of the tasks' next
steps, from their dispatch on: TiDB dispatches all tasks of a query, and threads run. A gather of a
query in which a task has failed is eventually cancelled, as the comment in
`FlashService::CancelMPPTask` says of TiDB, an abort that has begun goes on, and alarms fire. No failure
and no other cancel is forced. `ExchangeReceiver!FairSpec` has weak fairness of the writers, readers,
tasks, handlers and destructors: threads run, gRPC's completion queues deliver, and the timeout of a
connection that nobody makes comes in the end. No fault is forced. In the last two one condition on all
steps together is enough, since no behaviour takes infinitely many steps: it only says that the system
does not stop while something can go on. The PageStorage and S3 runs check safety, and assume no
fairness.

## Proofs

### Write groups

`WriteGroupProofs` proves for every set of writers and both fault switches, with no assumption but
`FaultsAssumption`:

| Theorem | Statement |
|---|---|
| `TypeCorrect` | `Spec => []TypeOK` |
| `AckedWrites` | `Spec => []AckedIsDurableAndVisible` |
| `RecordsOnce` | `Spec => []EachRecordOnce` |
| `SingleOwner` | `Spec => []OneOwner` |
| `Wakeups` | `Spec => []NoLostWakeup` |
| `Immutability` | `Spec => PublishedIsImmutable` |

None of these is inductive. The invariant `IInv` (theorem `Invariance`) adds what ties the queue,
the edits and the two stores together. `QueueInv`: the queue has no repetition and holds exactly the
calls inside `apply` that no owner has popped. `HeadInv`: only the head owns a group, and the head is
never asleep. `EditInv`: the edit of a writer that is not yet merged is its own record, which nobody
has written, and the owner's edit is the prefix of the queue that ends in `last_writer`.
`ProgressInv`: once logged, the owner's records are in the log at the versions after `sequence`, the
first `applied` of them also in the table, and nowhere else. `AckInv`: whoever has been told of
success is durable. Every action has a lemma of its own; the owner's pop needs facts about sequences
without a prefix (`DropPrefix`). `EachRecordOnce` is part of the invariant: it is why the merge moves
the members' edits; `PublishedIsImmutable` follows since records get versions after `sequence`.

### MPP tasks and scheduler

`MPPProofs` proves, for any finite sets of queries and tasks, any sets of gathers, nodes, resource
groups and requests, any workloads, limits and cache size that satisfy `IdsAssumption`,
`LimitsAssumption` (`MinTSOScheduler`) and `CallsAssumption` (`MPPTaskSets`):

| Theorem | Statement |
|---|---|
| `InvariantHolds` | `Spec => []IInv` |
| `TypeCorrect` | `Spec => []TypeOK` |
| `AssertionsHold` | `Spec => []NoAssertionFails` |
| `CountsAreExact` | `Spec => []ThreadsAreCounted` |
| `WaitersAreKnown` | `Spec => []NoForgottenWaiter` |
| `OldestIsKnown` | `Spec => []MinQueryIsOldest` |
| `EverythingIsCleared` | `Spec => []NothingLeftBehind` |
| `AbortsAreClosed` | `Spec => AbortedGathersAreClosed` |

`IInv` (`MPPInvariant`) is the conjunction of the types, `ScheduleOk` and `ManagerOk`.

- `ScheduleOk(st, m, W, X)` (`ScheduleInvariant`) is about the state `st` of the schedulers, given the
  gather task sets `m`, the tasks `W` that sleep and the queries `X` about to be dropped. `CountsOk`:
  the counts are the threads of the tasks that are scheduled, a group stays below the hard limit, and an
  erased group counts nothing. `GroupsOk`: the queries of a group belong to it, are in the manager and
  are not older than `min_query_id`. `WaitersOk`: tasks are queued at their own gather, and one that
  sleeps and is not woken is queued, visible and its query is in the waiting set. Each operator of the
  scheduler keeps it: admission in `ScheduleAdmit`, queueing and the loop of `scheduleWaitingQueries` in
  `ScheduleQueue`, `deleteQuery` and `releaseThreadsThenSchedule` in `ScheduleRelease`. `X` is needed
  because a query leaves the manager and the scheduler in two steps of one section. The loop is handled
  by an induction over its iterations: the recursive function is shown to be defined by its steps, and
  every iteration keeps the invariant.
- `ManagerOk` ties the tasks, aborts and requests to the gather task sets: which stages of a task put it
  into its set and make it visible, which alarms a set may have, that an abort between its two sections
  finds its gather in the map in state Aborting, and that a gather in the cache has no open set.

`MPPSets` has the facts about the sets and about `removeMPPGatherTaskSet`; `MPPTaskProofs` and
`MPPAbortProofs` have one lemma per action; `MPPProofs` puts them together. The facts about sums of
threads and about smallest elements are collected in `Counting` (`ScheduleAdmit`), a hypothesis of these
lemmas that `MPPProofs` proves from the library's theorems on finite sets, so that no result
depends on it.

### Only model-checked

Liveness (`EveryWriterReturns`, `EveryTaskEnds`, `EverythingEnds`) is out of reach of the prover. The
page directory, whose read path follows ref chains by recursion and whose lists are built by folds, its
refinement of `PageStore`, the S3 modules and the exchange are checked by TLC on the instances above.

## Not modelled

- PageStorage: the byte formats of the log, of blob files and of checkpoints; checksums and torn writes
  (the log reader's recovery modes); positions in blob files and the space map's intervals; statistics,
  metrics, logging and rate limits; pages whose data is on S3 inside `PageDirectory` (`checkpoint_info`,
  `UPDATE_DATA_FROM_REMOTE`); writes that fail in `PageDirectory` (they are in `WriteGroup`); range
  scans and alive-id queries; the callbacks for external pages.
- MPP tasks: duplicate dispatches and connection requests, spill contexts, memory trackers, CTEs, the
  monitor, and the scheduler when it is disabled.
- S3: inputs of a batch that are lock files already; checkpoints that are skipped; the sub-objects of a
  DTFile and their removal, which may leave objects behind when it is interrupted; full compaction; the
  local cache of remote pages. Files that stay on S3 for ever because the collector stops between the
  removal of the last lock and the delmark (the TODO at `S3GCManager.cpp:434-437`) occur in the model, and
  no property speaks of them. A handler's read of S3 and its second check of ownership are one step:
  apart, they differ only in whether the client is told of a conflict or of the ownership. Checkpoints
  of different stores do not overlap in time, as they touch no common object.
- Exchange: synchronous gRPC tunnels, `LocalTunnelSenderV1`, the reactor of `async_recv_version` 1 and
  the thread-based `readLoop`; blocking push and pop; fine-grained shuffle, which has one queue per
  stream; unlimited queues (`max_bytes`); decoding; the shutdown of the server. A source has one tunnel.
  `FinishWrite` leaves out the execution summary, which goes the way of a packet. A connection that does not
  find its task waits for an alarm in `MPPTaskManager!Lookup`, not in `MPPTunnel`.
  `setUpConnectionThrows` takes the two lock sections of the failing constructor as one.
- The parts the inventory marks as not modelled.

The modelled files are a small share of TiFlash, most of which computes on blocks of data; of the files
that hold the modelled components, what is left out is mostly formatting, statistics, and the variants
named above.
