---------------------------- MODULE PageDirectory ----------------------------
(***************************************************************************)
(* PageDirectory of PageStorage V3 with its log and the bookkeeping of the *)
(* blob store: writes, snapshots, the garbage collection round of doGC     *)
(* (in-memory GC, log compaction, release of blob space, full GC), and     *)
(* restarts.                                                               *)
(*                                                                         *)
(* There is one writer, because WriteGroup shows that write groups run one *)
(* after the other, and one garbage collector (gc_is_running). An action   *)
(* is what a thread does under one hold of a mutex.                        *)
(***************************************************************************)
EXTENDS VersionedPages, WALFiles

CONSTANTS
    DataPages,    \* ids that are PUT once, referred to, and deleted
    RefPages,     \* ids that are made by REF, once, and deleted
    MetaPages,    \* ids that are PUT and deleted again and again
    ExternalPages,\* ids that are PUT_EXTERNAL once, referred to, and deleted
    RaftPages,    \* the MetaPages that belong to the raft layer
    Readers,
    MaxSeq,       \* bound on the sequence
    MaxEpoch,     \* bound on the number of moves of an entry by full GC
    MaxLogFiles,  \* max_persisted_log_files
    Setups,       \* what may happen in a behaviour: the pages that are written,
                  \* the last sequence, the readers, and which Features take part
    Races         \* the rare interleavings that are allowed

Pages == DataPages \cup RefPages \cup MetaPages \cup ExternalPages

RaceNames == {"snapshot", "reuse", "stall", "overlap", "rename"}

\* The process may crash and restart; the log is compacted; blob files are
\* rewritten; log files may reach roll_size.
Features == {"crash", "dump", "full_gc", "roll"}

ASSUME PagesAssumption ==
    /\ Pages \subseteq Nat \ {0}
    /\ IsFiniteSet(Pages)
    /\ RaftPages \subseteq MetaPages

ASSUME BoundsAssumption ==
    /\ MaxSeq \in Nat /\ MaxEpoch \in Nat /\ MaxLogFiles \in Nat
    /\ Setups \subseteq [pages : SUBSET Pages, max_seq : 0 .. MaxSeq,
                         readers : SUBSET Readers, features : SUBSET Features]
    /\ Races \subseteq RaceNames

VARIABLES
    sequence,  \* the published sequence
    mem,       \* mvcc_table_directory; NoList: the id is not in the map
    log,       \* the log files
    writer,    \* the batch that is logged and not yet in mem
    used,      \* the ids handed out so far; DeltaMerge allocates fresh ones
    snaps,     \* each reader's snapshot
    gc,        \* the garbage collector's program counter and locals
    live,      \* the entries that hold space in the blob store
    failed,    \* TRUE: some operation threw a logical error
    setup      \* a member of Setups, never changes

vars == <<sequence, mem, log, writer, used, snaps, gc, live, failed, setup>>

Has(feature) == feature \in setup.features

NoList == [type |-> "NONE"]
NoSnap == [state |-> "none", seq |-> 0, type |-> "General"]

Present(m) == {p \in Pages : m[p] # NoList}
NextPage(m, p) ==
    LET above == {q \in Present(m) : q > p}
    IN  IF above = {} THEN 0 ELSE CHOOSE q \in above : \A x \in above : q <= x

IdleGc ==
    [pc |-> "idle", lowest |-> 0, raft_lowest |-> 0, page |-> 0,
     all_deleted |-> FALSE, deref |-> [p \in Pages |-> <<0, 0>>],
     del_entries |-> {}, snap |-> 0, files |-> {}, blobs |-> {},
     moves |-> {}, refs |-> {}, edit |-> <<>>]

Init ==
    /\ sequence = 0
    /\ mem = [p \in Pages |-> NoList]
    /\ log = EmptyLog
    /\ writer = <<>>
    /\ used = {}
    /\ snaps = [r \in Readers |-> NoSnap]
    /\ gc = IdleGc
    /\ live = {}
    /\ failed = FALSE
    /\ setup \in Setups

\* FoldLeft, in a form for which TLC evaluates each intermediate state once.
Fold(op(_, _), base, seq) ==
    LET after[i \in 0 .. Len(seq)] ==
            IF i = 0 THEN base
            ELSE CHOOSE t \in {op(x, seq[i]) : x \in {after[i - 1]}} : TRUE
    IN  after[Len(seq)]

----------------------------------------------------------------------------
(* Reading                                                                 *)

\* The loop that follows refs from id0 at sequence seq0: in getByIDImpl and
\* in applyRefEditRecord. A deleted page is still found through a ref. (The
\* CHOOSE from a singleton makes TLC evaluate each lookup once.)
Resolve(m, id0, seq0) ==
    LET follow[id \in Pages, seq \in Nat] ==
            LET found(r) ==
                    IF r.state # "TO_REF" THEN [id |-> id, seq |-> seq, res |-> r]
                    ELSE IF r.id = id THEN [id |-> id, seq |-> seq, res |-> Fail]
                    ELSE follow[r.id, r.seq]
            IN  CHOOSE x \in {found(r) : r \in {IF m[id] = NoList THEN Fail
                                                ELSE resolveToPageId(m[id], seq, id # id0)}} : TRUE
    IN  follow[id0, seq0]

getByID(m, p, seq) == Resolve(m, p, seq).res.entry

----------------------------------------------------------------------------
(* Writing                                                                 *)

With(m, p) == IF m[p] = NoList THEN [m EXCEPT ![p] = NewList] ELSE m

\* applyRefEditRecord: a ref to a ref becomes a ref to what that refers to.
applyRefEditRecord(st, r) ==
    LET m == st.mem
        target == Resolve(m, r.ori, r.ver[1])
        created == CreatesRef(m[r.page], r.ver)
        linked == [m EXCEPT ![r.page] = createNewRef(@, r.ver, target.id)]
    IN  IF \/ target.res.state # "TO_NORMAL"
           \/ ~createNewRefOk(m[r.page], r.ver, target.id)
           \/ created /\ ~incrRefCountOk(linked[target.id], target.seq)
        THEN [st EXCEPT !.ok = FALSE]
        ELSE IF ~created THEN [st EXCEPT !.mem = linked]
        ELSE [st EXCEPT !.mem =
                 [linked EXCEPT ![target.id] = incrRefCount(@, target.seq, r.ver[1])]]

\* The effect of one record on the version list of its page, which exists.
Edited(st, r) ==
    LET v == st.mem[r.page]
        ok == CASE r.type = "PUT" -> createNewEntryOk(v, r.ver)
                [] r.type = "PUT_EXTERNAL" -> createNewExternalOk(v)
                [] r.type = "DEL" -> TRUE
        w == CASE r.type = "PUT" -> createNewEntry(v, r.ver, r.entry)
               [] r.type = "PUT_EXTERNAL" -> createNewExternal(v, r.ver, r.entry)
               [] r.type = "DEL" -> createDelete(v, r.ver)
    IN  IF r.type = "REF" THEN applyRefEditRecord(st, r)
        ELSE IF ~ok THEN [st EXCEPT !.ok = FALSE]
        ELSE [st EXCEPT !.mem[r.page] = w]

\* One iteration of the loop of apply. Nothing after an exception counts.
CommitOne(st, r) ==
    IF ~st.ok \/ (r.type = "DEL" /\ st.mem[r.page] = NoList) THEN st
    ELSE Edited([st EXCEPT !.mem = With(@, r.page)], r)

\* What DeltaMerge and the raft layer write. Ids for data and refs are fresh,
\* a page is deleted and referred to only while it is there, and only the
\* id of a meta page is used again.
Here(p) == getByID(mem, p, sequence) # NoEntry

Puts == {[type |-> "PUT", page |-> p, ori |-> 0] :
            p \in setup.pages \cap (MetaPages \cup (DataPages \ used))}
Externals == {[type |-> "PUT_EXTERNAL", page |-> p, ori |-> 0] :
                 p \in setup.pages \cap (ExternalPages \ used)}
Deletes == {[type |-> "DEL", page |-> p, ori |-> 0] : p \in {q \in Pages : Here(q)}}
Refs == {[type |-> "REF", page |-> p, ori |-> o] :
            p \in setup.pages \cap (RefPages \ used), o \in {q \in Pages \ MetaPages : Here(q)}}
\* A page is handed over: a new id refers to it and the old id is deleted.
Handovers == {<<r, [type |-> "DEL", page |-> r.ori, ori |-> 0]>> : r \in Refs}

Batches == {<<r>> : r \in Puts \cup Externals \cup Deletes \cup Refs} \cup Handovers

\* Number the records after the published sequence. The blob store has
\* already written the data of the PUTs.
Numbered(batch) ==
    [i \in DOMAIN batch |->
        LET ver == <<sequence + i, 0>>
            data == [page |-> batch[i].page, ver |-> ver, val |-> sequence + i]
            entry == IF batch[i].type \in {"PUT", "PUT_EXTERNAL"} THEN data ELSE NoEntry
        IN  Record(batch[i].type, batch[i].page, ver, entry, batch[i].ori, 1)]

PutEntries(edit) ==
    {r.entry : r \in {x \in ToSet(edit) : x.type \in {"PUT", "UPSERT"}}}

\* apply, first part: the data is in the blob store, the edit in the log.
LogWrite ==
    /\ ~failed
    /\ writer = <<>>
    /\ \E batch \in Batches, roll \in {FALSE, Has("roll")} :
          LET edit == Numbered(batch)
          IN  /\ sequence + Len(edit) <= setup.max_seq
              /\ writer' = edit
              /\ log' = AppendEdit(log, edit, roll)
              /\ live' = live \cup PutEntries(edit)
              /\ used' = used \cup {r.page : r \in ToSet(edit)}
    /\ UNCHANGED <<sequence, mem, snaps, gc, failed>>

\* Race "reuse": GC is about to erase the version list this write adds to.
ErasedIsWritten ==
    /\ gc.pc = "erase" /\ gc.all_deleted
    /\ \E r \in ToSet(writer) : r.page = gc.page

\* apply, second part: under the exclusive table lock, all records of the
\* edit are applied and published.
Commit ==
    /\ ~failed
    /\ writer # <<>>
    /\ ErasedIsWritten => "reuse" \in Races
    /\ \E st \in {Fold(CommitOne, [mem |-> mem, ok |-> TRUE], writer)} :
          /\ mem' = st.mem
          /\ failed' = ~st.ok
          /\ sequence' = IF st.ok THEN sequence + Len(writer) ELSE sequence
    /\ writer' = <<>>
    /\ UNCHANGED <<log, used, snaps, gc, live>>

----------------------------------------------------------------------------
(* Snapshots                                                               *)

\* createSnapshot reads the sequence ...
CreateSnapshot(r) ==
    /\ snaps[r].state = "none"
    /\ \E type \in {"General"} \cup {"DeltaTreeOnly" : p \in RaftPages} :
          snaps' = [snaps EXCEPT ![r] = [state |-> "loaded", seq |-> sequence, type |-> type]]
    /\ UNCHANGED <<sequence, mem, log, writer, used, gc, live, failed>>

\* ... and then takes snapshots_mutex to register the snapshot.
RegisterSnapshot(r) ==
    /\ snaps[r].state = "loaded"
    /\ snaps' = [snaps EXCEPT ![r].state = "held"]
    /\ UNCHANGED <<sequence, mem, log, writer, used, gc, live, failed>>

ReleaseSnapshot(r) ==
    /\ snaps[r].state = "held"
    /\ snaps' = [snaps EXCEPT ![r] = NoSnap]
    /\ UNCHANGED <<sequence, mem, log, writer, used, gc, live, failed>>

----------------------------------------------------------------------------
(* gcInMemEntries                                                          *)

Lowest(seqs) == CHOOSE x \in seqs : \A y \in seqs : x <= y

HeldBy(types) ==
    {snaps[r].seq : r \in {q \in Readers : snaps[q].state = "held" /\ snaps[q].type \in types}}

\* Where the round goes on once no page is left to deref.
AfterDeref(g) ==
    IF \A p \in Pages : g.deref[p][2] = 0
    THEN [g EXCEPT !.pc = IF Has("dump") THEN "dump" ELSE "release",
                   !.deref = IdleGc.deref, !.raft_lowest = 0]
    ELSE [g EXCEPT !.pc = "deref"]

\* gcInMemSnapshots, and the first page of the map. The code reads the
\* sequence a little before it locks the snapshots, which can only lower it.
\* The pages of the raft layer are protected by general snapshots only.
GcStart ==
    /\ ~failed
    /\ gc.pc = "idle"
    /\ "snapshot" \in Races \/ \A r \in Readers : snaps[r].state # "loaded"
    /\ gc' = IF Present(mem) = {} THEN AfterDeref(IdleGc)
             ELSE [IdleGc EXCEPT
                     !.pc = "clean",
                     !.lowest = Lowest({sequence} \cup HeldBy({"General", "DeltaTreeOnly"})),
                     !.raft_lowest = Lowest({sequence} \cup HeldBy({"General"})),
                     !.page = NextPage(mem, 0)]
    /\ UNCHANGED <<sequence, mem, log, writer, used, snaps, live, failed>>

\* Mutant of AddDeref: a ref whose page is gone is forgotten.
ForgetDeref(deref, v) == deref

\* Mutant of AddDeref: a second ref to the same page is not counted.
AddFirstDeref(deref, v) ==
    [deref EXCEPT ![v.ori_page_id] = IF @[2] = 0 THEN <<v.create_ver[1], 1>> ELSE @]

\* normal_entries_to_deref: <<version of the first ref, number of refs>>.
AddDeref(deref, v) ==
    [deref EXCEPT ![v.ori_page_id] =
        IF @[2] = 0 THEN <<v.create_ver[1], 1>> ELSE <<@[1], @[2] + 1>>]

\* Mutant of GcClean: the entries that are cleaned are not handed on.
GcCleanLeaks ==
    /\ gc.pc = "clean"
    /\ LET v == mem[gc.page]
           seq == IF gc.page \in RaftPages THEN gc.raft_lowest ELSE gc.lowest
           gone == AllDeleted(v, seq)
       IN  /\ mem' = [mem EXCEPT ![gc.page] = cleanOutdatedEntries(v, seq)]
           /\ gc' = [gc EXCEPT
                       !.pc = "erase", !.all_deleted = gone,
                       !.deref = IF v.type = "REF" /\ gone THEN AddDeref(@, v) ELSE @]
    /\ UNCHANGED <<sequence, log, writer, used, snaps, live, failed>>

\* cleanOutdatedEntries under the mutex of the version list.
GcClean ==
    /\ gc.pc = "clean"
    /\ LET v == mem[gc.page]
           seq == IF gc.page \in RaftPages THEN gc.raft_lowest ELSE gc.lowest
           w == cleanOutdatedEntries(v, seq)
           gone == AllDeleted(v, seq)
       IN  /\ mem' = [mem EXCEPT ![gc.page] = w]
           /\ gc' = [gc EXCEPT
                       !.pc = "erase",
                       !.all_deleted = gone,
                       !.del_entries = @ \cup (EntriesOf(v) \ EntriesOf(w)),
                       !.deref = IF v.type = "REF" /\ gone THEN AddDeref(@, v) ELSE @]
    /\ UNCHANGED <<sequence, log, writer, used, snaps, live, failed>>

\* Under the exclusive table lock: drop the page or step over it.
GcErase ==
    /\ gc.pc = "erase"
    /\ LET m == IF gc.all_deleted THEN [mem EXCEPT ![gc.page] = NoList] ELSE mem
           next == NextPage(m, gc.page)
           g == [gc EXCEPT !.page = next, !.all_deleted = FALSE, !.pc = "clean"]
       IN  /\ mem' = m
           /\ gc' = IF next = 0 THEN AfterDeref(g) ELSE g
    /\ UNCHANGED <<sequence, log, writer, used, snaps, live, failed>>

\* derefAndClean on the next page of normal_entries_to_deref.
GcDeref ==
    /\ ~failed
    /\ gc.pc = "deref"
    /\ LET p == Lowest({q \in Pages : gc.deref[q][2] > 0})
           v == mem[p]
           seq == gc.deref[p][1]
           n == gc.deref[p][2]
           rest == [gc EXCEPT !.deref[p] = <<0, 0>>]
           w == derefAndClean(v, gc.lowest, seq, n)
           g == [rest EXCEPT !.del_entries = @ \cup (EntriesOf(v) \ EntriesOf(w))]
       IN  IF v = NoList
           THEN gc' = AfterDeref(rest) /\ UNCHANGED <<mem, failed>>
           ELSE IF ~derefAndCleanOk(v, gc.lowest, seq, n)
           THEN failed' = TRUE /\ UNCHANGED <<mem, gc>>
           ELSE /\ mem' = [mem EXCEPT ![p] = w]
                /\ gc' = IF AllDeleted(Deref(v, gc.lowest, seq, n), gc.lowest)
                         THEN [g EXCEPT !.pc = "derefErase", !.page = p]
                         ELSE AfterDeref(g)
                /\ UNCHANGED failed
    /\ UNCHANGED <<sequence, log, writer, used, snaps, live>>

GcDerefErase ==
    /\ gc.pc = "derefErase"
    /\ mem' = [mem EXCEPT ![gc.page] = NoList]
    /\ gc' = AfterDeref([gc EXCEPT !.page = 0])
    /\ UNCHANGED <<sequence, log, writer, used, snaps, live, failed>>

----------------------------------------------------------------------------
(* tryDumpSnapshot                                                         *)

\* Race "stall": a batch is in the log but not yet published, and records of
\* full GC have been logged after it.
StalledWrite ==
    /\ writer # <<>>
    /\ \A f \in log.files : f.num = log.log_file => Last(f.edits) # writer

\* createSnapshot for the dump. In-memory GC is over for this round, so the
\* snapshot protects nothing that is not protected anyway.
DumpSnapshot ==
    /\ gc.pc = "dump"
    /\ StalledWrite => "stall" \in Races
    /\ gc' = [gc EXCEPT !.pc = "list", !.snap = sequence]
    /\ UNCHANGED <<sequence, mem, log, writer, used, snaps, live, failed>>

\* tryGetFilesSnapshot lists the files, and gives up when they are few ...
DumpList ==
    /\ gc.pc = "list"
    /\ \E L \in listAllFiles(log) :
          gc' = IF Cardinality(L) <= MaxLogFiles THEN [gc EXCEPT !.pc = "release", !.snap = 0]
                ELSE [gc EXCEPT !.pc = "files", !.files = {Name(f) : f \in L}]
    /\ UNCHANGED <<sequence, mem, log, writer, used, snaps, live, failed>>

\* Race "overlap": a file that is kept holds a move, by full GC, of a page that
\* the dump leaves out because it has been deleted since.
OverlapsMove(kept) ==
    \E f \in kept : \E edit \in ToSet(f.edits) : \E r \in ToSet(edit) :
        /\ r.type = "UPSERT" /\ r.ver[1] <= gc.snap
        /\ mem[r.page] = NoList \/ collapseTo(mem[r.page], gc.snap, r.page) = <<>>

\* Race "rename": the dump gets the name of a file that it replaces.
RenamesOntoOld(files) ==
    \E f \in files : \A g \in files : FileLE(g, f) /\ <<f.num, 1, gc.snap>> \in {Name(h) : h \in files}

\* ... then it closes the current file under log_file_mutex, gives up if there
\* is none, and chooses the files to compact.
DumpFiles ==
    /\ gc.pc = "files"
    /\ LET L == {f \in log.files : Name(f) \in gc.files}
           files == CompactableFiles(L, log.last_log_num, gc.snap)
           skip == log.log_file = 0 \/ files = {}
       IN  /\ log' = [log EXCEPT !.log_file = 0]
           /\ gc' = IF skip THEN [gc EXCEPT !.pc = "release", !.snap = 0, !.files = {}]
                    ELSE [gc EXCEPT !.pc = "save", !.files = {Name(f) : f \in files}]
           /\ (~skip /\ OverlapsMove(log.files \ files)) => "overlap" \in Races
           /\ (~skip /\ RenamesOntoOld(files)) => "rename" \in Races
    /\ UNCHANGED <<sequence, mem, writer, used, snaps, live, failed>>

\* dumpSnapshotToEdit: the records of all pages in the order of their ids.
\* Concurrent writes only add versions after the snapshot, which collapseTo
\* leaves out, so the pages can be dumped in one step.
dumpSnapshotToEdit ==
    Fold(LAMBDA edit, p : edit \o collapseTo(mem[p], gc.snap, p), <<>>,
             SetToSortSeq(Present(mem), <))

\* saveSnapshot up to the rename.
DumpSave ==
    /\ gc.pc = "save"
    /\ LET num == CHOOSE n \in {f[1] : f \in gc.files} : \A f \in gc.files : f[1] <= n
       IN  log' = SaveSnapshot(log, File(num, 1, gc.snap, <<dumpSnapshotToEdit>>))
    /\ gc' = [gc EXCEPT !.pc = "unlink", !.snap = 0]
    /\ UNCHANGED <<sequence, mem, writer, used, snaps, live, failed>>

\* removeLogFiles: the compacted files go one by one, oldest first.
DumpRemove ==
    /\ gc.pc = "unlink"
    /\ LET oldest == CHOOSE f \in gc.files :
               \A g \in gc.files : f[1] < g[1] \/ (f[1] = g[1] /\ f[2] <= g[2])
       IN  /\ log' = RemoveFile(log, oldest)
           /\ gc' = [gc EXCEPT !.files = @ \ {oldest},
                               !.pc = IF gc.files = {oldest} THEN "release" ELSE "unlink"]
    /\ UNCHANGED <<sequence, mem, writer, used, snaps, live, failed>>

----------------------------------------------------------------------------
(* Blob space and full GC                                                  *)

\* blob_store.removeEntries frees the space of the entries that in-memory GC
\* has dropped; freeing free space is an error.
ReleaseEntries ==
    /\ ~failed
    /\ gc.pc = "release"
    /\ live' = live \ gc.del_entries
    /\ failed' = ~(gc.del_entries \subseteq live)
    /\ gc' = [IdleGc EXCEPT !.pc = IF Has("full_gc") THEN "select" ELSE "idle"]
    /\ UNCHANGED <<sequence, mem, log, writer, used, snaps>>

\* getGCStats: any blob files may have become too sparse, none in
\* particular; they become read-only.
SelectBlobs ==
    /\ gc.pc = "select"
    /\ \E blobs \in SUBSET {e \in live : e.ver[2] < MaxEpoch} :
          gc' = IF blobs = {} \/ Present(mem) = {} THEN IdleGc
                ELSE [gc EXCEPT !.pc = "scan", !.blobs = blobs, !.page = NextPage(mem, 0)]
    /\ UNCHANGED <<sequence, mem, log, writer, used, snaps, live, failed>>

\* getEntriesByBlobIds of one version list: the last entry of a page that is
\* not deleted, and the refs that are not deleted.
ScanPage ==
    /\ gc.pc = "scan"
    /\ LET v == mem[gc.page]
           next == NextPage(mem, gc.page)
           move == /\ v.type = "ENTRY" /\ v.entries # <<>>
                   /\ Last(v.entries).entry \in gc.blobs
       IN  gc' = [gc EXCEPT
                    !.page = next,
                    !.pc = IF next = 0 THEN "refs" ELSE "scan",
                    !.moves = IF move THEN @ \cup {<<gc.page, Last(v.entries).ver,
                                                    Last(v.entries).entry>>} ELSE @,
                    !.refs = IF v.type = "REF" /\ ~v.is_deleted
                             THEN @ \cup {<<gc.page, v.ori_page_id, v.create_ver>>} ELSE @]
    /\ UNCHANGED <<sequence, mem, log, writer, used, snaps, live, failed>>

\* getEntriesByBlobIds, last part: the refs whose entry is to be moved.
ScanRefs ==
    /\ ~failed
    /\ gc.pc = "refs"
    /\ LET normal == {r \in gc.refs : mem[r[2]] # NoList => mem[r[2]].type # "EXTERNAL"}
           ok(r) == mem[r[2]] # NoList /\ getLastEntry(mem[r[2]], r[3][1]) # NoEntry
           moves == gc.moves \cup
               {m \in {<<r[1], r[3], getLastEntry(mem[r[2]], r[3][1])>> : r \in normal} :
                   m[3] \in gc.blobs}
       IN  IF \E r \in normal : ~ok(r) THEN failed' = TRUE /\ UNCHANGED gc
           ELSE /\ gc' = IF moves = {} THEN IdleGc
                         ELSE [IdleGc EXCEPT !.pc = "move", !.moves = moves]
                /\ UNCHANGED failed
    /\ UNCHANGED <<sequence, mem, log, writer, used, snaps, live>>

\* BlobStore::gc copies the data to new space; gcApply raises the epoch and
\* logs the new places.
GcLog ==
    /\ gc.pc = "move"
    /\ \E roll \in {FALSE, Has("roll")} :
          LET upsert(m) ==
                  LET ver == <<m[2][1], m[2][2] + 1>>
                  IN  Record("UPSERT", m[1], ver,
                             [page |-> m[1], ver |-> ver, val |-> m[3].val], 0, 1)
              edit == SetToSortSeq({upsert(m) : m \in gc.moves},
                                   LAMBDA a, b : a.page < b.page)
          IN  /\ log' = AppendEdit(log, edit, roll)
              /\ live' = live \cup PutEntries(edit)
              /\ gc' = [gc EXCEPT !.pc = "upsert", !.moves = {}, !.edit = edit]
    /\ UNCHANGED <<sequence, mem, writer, used, snaps, failed>>

\* createUpsertEntry, and the deref of the page a rewritten ref referred to.
Upserted(st, r, strict_check) ==
    LET v == st.mem[r.page]
        o == UpsertDerefs(v)
        m == [st.mem EXCEPT ![r.page] = createUpsertEntry(@, r.ver, r.entry)]
    IN  IF ~createUpsertEntryOk(v, r.ver, strict_check) THEN [st EXCEPT !.ok = FALSE]
        ELSE IF o = 0 THEN [st EXCEPT !.mem = m]
        ELSE IF m[o] = NoList \/ ~derefAndCleanOk(m[o], 0, r.ver[1], 1)
        THEN [st EXCEPT !.ok = FALSE]
        ELSE [st EXCEPT !.mem = [m EXCEPT ![o] = derefAndClean(@, 0, r.ver[1], 1)]]

\* gcApply, one record.
GcUpsert ==
    /\ ~failed
    /\ gc.pc = "upsert"
    /\ LET r == Head(gc.edit)
           st == IF mem[r.page] = NoList THEN [mem |-> mem, ok |-> FALSE]
                 ELSE Upserted([mem |-> mem, ok |-> TRUE], r, TRUE)
       IN  mem' = st.mem /\ failed' = ~st.ok
    /\ gc' = IF Len(gc.edit) = 1 THEN IdleGc ELSE [gc EXCEPT !.edit = Tail(@)]
    /\ UNCHANGED <<sequence, log, writer, used, snaps, live>>

----------------------------------------------------------------------------
(* PageDirectoryFactory: restoring from the log                            *)

\* applyRecord: unlike apply, it also takes the records of a dumped snapshot
\* and of gcApply, and creates a version list even for a DEL.
applyRecord(st, r, strict_check) ==
    LET s == [st EXCEPT !.mem = With(@, r.page)]
        restored(type) ==
            [s EXCEPT !.mem[r.page] =
                fromRestored(@, type, r.ver, r.entry, r.ori, r.being_ref_count)]
    IN  CASE r.type = "VAR_ENTRY" -> restored("ENTRY")
          [] r.type = "VAR_REF" -> restored("REF")
          [] r.type = "VAR_EXTERNAL" -> restored("EXTERNAL")
          [] r.type = "UPSERT" -> Upserted(s, r, strict_check)
          [] OTHER -> Edited(s, r)

\* loadEdit: a REF that a dumped snapshot already covers is skipped; the check
\* is strict from the first record after the snapshot on.
loadEdit(st, edit, force_apply, filter_seq) ==
    LET strict(i) == \E j \in 1 .. i : edit[j].ver[1] > filter_seq
        load(s, i) ==
            IF \/ ~s.ok
               \/ ~force_apply /\ edit[i].type = "REF" /\ edit[i].ver[1] <= filter_seq
            THEN s
            ELSE [applyRecord(s, edit[i], strict(i)) EXCEPT
                    !.max = IF VerLE(@, edit[i].ver) THEN edit[i].ver ELSE @]
    IN  Fold(load, st, [i \in DOMAIN edit |-> i])

\* loadFromDisk: the dumped snapshot, then the files after it.
loadFromDisk(reader) ==
    LET filter_seq == getSnapSeqForCheckpoint(reader)
        start == [mem |-> [p \in Pages |-> NoList], ok |-> TRUE, max |-> <<filter_seq, 0>>]
        load(st, f) ==
            Fold(LAMBDA s, edit : loadEdit(s, edit, f.level > 0, filter_seq),
                     st, f.edits)
    IN  Fold(load, start, SetToSeq(reader.checkpoint) \o reader.files_to_read)

\* gcInMemEntries run in one go by createFromReader; it frees no blob space.
gcInMemEntries(m, seq) ==
    LET gone == {p \in Present(m) : AllDeleted(m[p], seq)}
        derefs == Fold(LAMBDA d, p : IF m[p].type = "REF" THEN AddDeref(d, m[p]) ELSE d,
                           IdleGc.deref, SetToSortSeq(gone, <))
        cleaned == [p \in Pages |-> IF p \in gone \/ m[p] = NoList THEN NoList
                                    ELSE cleanOutdatedEntries(m[p], seq)]
        todo == {p \in Present(cleaned) : derefs[p][2] > 0}
        ok(p) == derefAndCleanOk(cleaned[p], seq, derefs[p][1], derefs[p][2])
    IN  [ok |-> \A p \in todo : ok(p),
         mem |-> [p \in Pages |->
            IF p \notin todo \/ ~ok(p) THEN cleaned[p]
            ELSE IF AllDeleted(Deref(cleaned[p], seq, derefs[p][1], derefs[p][2]), seq)
            THEN NoList
            ELSE derefAndClean(cleaned[p], seq, derefs[p][1], derefs[p][2])]]

\* restoreBlobStats: the space of the last entry of each page, deleted or not.
RestoredEntries(m) ==
    {getLastEntry(m[p], MaxSeq) : p \in Present(m)} \ {NoEntry}

\* The process stops and is started again.
Restart ==
    /\ Has("crash") /\ ~failed
    /\ \E reader \in {findCheckpoint(L) : L \in listAllFiles(log)} :
       \E st \in {loadFromDisk(reader)} :
       \E cleaned \in {IF st.ok THEN gcInMemEntries(st.mem, st.max[1]) ELSE st} :
          /\ mem' = cleaned.mem
          /\ failed' = ~cleaned.ok
          /\ sequence' = st.max[1]
          /\ live' = RestoredEntries(cleaned.mem)
          /\ log' = Reopened(log, reader)
    /\ writer' = <<>>
    /\ snaps' = [r \in Readers |-> NoSnap]
    /\ gc' = IdleGc
    /\ UNCHANGED used

----------------------------------------------------------------------------
GcStep ==
    \/ GcStart \/ GcClean \/ GcErase \/ GcDeref \/ GcDerefErase
    \/ DumpSnapshot \/ DumpList \/ DumpFiles \/ DumpSave \/ DumpRemove
    \/ ReleaseEntries \/ SelectBlobs \/ ScanPage \/ ScanRefs \/ GcLog \/ GcUpsert

Next ==
    /\ \/ LogWrite \/ Commit
       \/ \E r \in setup.readers :
             CreateSnapshot(r) \/ RegisterSnapshot(r) \/ ReleaseSnapshot(r)
       \/ GcStep
       \/ Restart
    /\ UNCHANGED setup

Spec == Init /\ [][Next]_vars

----------------------------------------------------------------------------
(* Properties                                                              *)

\* Version lists are sorted by version, refs name known pages, the batch in
\* the log is numbered right after the published sequence, and no snapshot
\* is ahead of it.
TypeOK ==
    /\ sequence \in 0 .. MaxSeq
    /\ \A p \in Pages :
          mem[p] # NoList =>
            /\ mem[p].type \in {"DELETE", "ENTRY", "REF", "EXTERNAL"}
            /\ mem[p].ori_page_id \in Pages \cup {0}
            /\ \A i \in 1 .. Len(mem[p].entries) - 1 :
                  VerLE(mem[p].entries[i].ver, mem[p].entries[i + 1].ver)
    /\ writer = <<>> \/ \A i \in DOMAIN writer : writer[i].ver = <<sequence + i, 0>>
    /\ used \subseteq Pages
    /\ \A r \in Readers : snaps[r].seq <= sequence
    /\ gc.page \in Pages \cup {0}
    /\ setup \in Setups

\* No write that keeps to the rules of the callers, no step of the garbage
\* collector and no restart runs into one of the logical errors the code
\* throws (a ref to a missing page, a reference count that goes below one, a
\* page that gcApply does not find, space that is freed twice).
NoLogicalError == ~failed

\* Every entry in a version list holds its blob space, and every allocated
\* space belongs to a version list, to the batch being written, to the
\* entries being moved, or to the list that removeEntries is about to free:
\* space is neither freed too early, nor twice, nor leaked.
SpaceIsOwned ==
    ~failed =>
        LET listed == UNION {EntriesOf(mem[p]) : p \in Present(mem)}
        IN  /\ live = listed \cup gc.del_entries
                      \cup PutEntries(writer) \cup PutEntries(gc.edit)
            /\ listed \cap gc.del_entries = {}

RefsTo(p) == {q \in Present(mem) : mem[q].type = "REF" /\ mem[q].ori_page_id = p}

LatestRefCount(v) ==
    IF v.type = "EXTERNAL" THEN getLatestRefCount(v.being_ref_count)
    ELSE LET j == LastEntry(v.entries, MaxSeq)
         IN  IF j = 0 THEN 1 ELSE getLatestRefCount(v.entries[j].rc)

\* The reference count of the last entry of a page (being_ref_count) is one
\* more than the number of ref pages that point to it, counting those whose
\* deletion the running GC round has seen but not yet subtracted.
RefCountsAreExact ==
    ~failed =>
        \A p \in Present(mem) :
            mem[p].type \in {"ENTRY", "EXTERNAL"} =>
                LatestRefCount(mem[p]) =
                    1 + Cardinality(RefsTo(p)) + gc.deref[p][2]
                      - (IF gc.pc = "erase" /\ gc.all_deleted /\ gc.page \in RefsTo(p)
                         THEN 1 ELSE 0)

Val(p, seq) == IF mem[p] = NoList THEN 0 ELSE getByID(mem, p, seq).val

Protected(type) == IF type = "General" THEN Pages ELSE Pages \ RaftPages

PageStorage == INSTANCE PageStore WITH
    Scopes <- {Pages, Pages \ RaftPages},
    db <- [p \in Pages |-> Val(p, sequence)],
    pending <- [i \in DOMAIN writer |->
        [type |-> IF writer[i].type = "PUT_EXTERNAL" THEN "PUT" ELSE writer[i].type,
         page |-> writer[i].page, ori |-> writer[i].ori, val |-> writer[i].entry.val]],
    held <- {r \in Readers : snaps[r].state # "none"},
    view <- [r \in Readers |->
        IF snaps[r].state = "none" THEN <<>>
        ELSE [p \in Protected(snaps[r].type) |-> Val(p, snaps[r].seq)]]

\* Reads (getByID) through version lists, refs and snapshots are reads of a
\* plain map: batches become visible at once, a held snapshot never changes,
\* and a restart loses no logged batch and brings back no deleted page.
ImplementsPageStore == PageStorage!Spec

\* A round of in-memory GC during which no batch is logged or published, and no
\* snapshot older than the last batch is held, leaves no garbage: all the blob
\* space that is allocated when it has released what it dropped (removeEntries)
\* holds data that some page shows, directly or through a ref.  Nothing that is
\* deleted, overwritten, moved or restored from the log needs a second round.
OneRoundFreesGarbage ==
    [][(ReleaseEntries /\ gc.lowest = sequence /\ writer = <<>>) =>
          \A e \in live' : \E p \in Pages : Val(p, sequence) = e.val]_vars

==============================================================================
