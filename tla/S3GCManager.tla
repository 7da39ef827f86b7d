----------------------------- MODULE S3GCManager -----------------------------
(***************************************************************************)
(* The garbage collector of the objects on S3 (S3GCManager.cpp), which     *)
(* runs on the owner, composed with the write nodes and the lock service.  *)
(*                                                                         *)
(* A round handles one store after another; the owner may change, and the  *)
(* node may stop, between any two requests to S3.  A tick of the clock     *)
(* outlasts every RPC and the step from an uploaded manifest to the pages  *)
(* that it moved.                                                          *)
(***************************************************************************)
EXTENDS S3WriteNode

VARIABLES
    gc,                 \* the round in progress on a node
    tagged              \* when a data file was tagged for S3's lifecycle rule, 0 if it was not

vars == <<s3vars, clock, ownerVars, calls, exposed, faults, instance, nodeVars, gc, tagged>>

IdleGc == [pc |-> "idle", store |-> None, timepoint |-> 0, valid |-> {}, safe |-> 0,
           outdated |-> {}, file |-> None, back |-> "idle"]

GcStates == [pc : {"idle", "locks", "head", "mark", "tag", "data", "undelmark", "scan"},
             store : Stores \cup {None}, timepoint : 0..MaxTime, valid : SUBSET LockKeys,
             safe : 0..MaxSeq + 1, outdated : SUBSET Manifests, file : Files \cup {None},
             back : {"idle", "locks", "scan"}]

TypeOK ==
    /\ TypeOfStore
    /\ TypeOfService
    /\ TypeOfNode
    /\ gc \in [Stores -> GcStates]
    /\ tagged \in [Files -> 0..MaxTime]

Init ==
    /\ InitStore
    /\ InitService
    /\ InitNode
    /\ gc = [n \in Stores |-> IdleGc]
    /\ tagged = [f \in Files |-> 0]

gcUnchanged == UNCHANGED <<clock, ownerVars, exposed, faults, nodeVars>>

GcGoto(n, pc) ==
    gc' = [gc EXCEPT ![n] = IF pc \in {"locks", "scan"} THEN [@ EXCEPT !.pc = pc, !.file = None, !.back = "idle"]
                                                       ELSE [@ EXCEPT !.pc = pc]]

\* runOnAllStores enters runForStore or runForTombstoneStore: the time, the
\* manifests, and the locks of the preserved ones.
runForStore(n, s) ==
    LET mfs == manifests[s] IN
    /\ gc[n].pc = "idle"
    /\ n \in owner
    /\ s \in tombstone \/ mfs # {}
    /\ gc' = [gc EXCEPT ![n] =
            IF s \in tombstone
            THEN [IdleGc EXCEPT !.pc = "locks", !.store = s, !.timepoint = clock, !.safe = MaxSeq + 1]
            ELSE [IdleGc EXCEPT !.pc = "locks", !.store = s, !.timepoint = clock,
                                !.valid = LocksIn(preservedManifests(mfs, clock)),
                                !.safe = latestUploadSequence(mfs),
                                !.outdated = outdatedObjects(mfs, clock)]]
    /\ UNCHANGED <<s3vars, calls, tagged>>
    /\ gcUnchanged

\* Locks that the latest manifest cannot know of yet count as unused.
UnusedInAnyManifest(g, l) == l.store = g.store /\ l \notin g.valid

\* cleanUnusedLocks
Unused(g, l) == l.store = g.store /\ l.seq <= g.safe /\ l \notin g.valid

\* cleanOneLock removes the lock ...
cleanOneLock(n, l) ==
    /\ gc[n].pc = "locks"
    /\ Unused(gc[n], l)
    /\ locks' = locks \ {l}
    /\ gc' = [gc EXCEPT ![n].pc = "head", ![n].file = l.file]
    /\ UNCHANGED <<data, delmark, manifests, calls, tagged>>
    /\ gcUnchanged

\* ... and looks for the delmark (tryGetObjectInfo).
CheckDelmarkOfLock(n) ==
    LET mark == delmark[gc[n].file] IN
    /\ gc[n].pc = "head"
    /\ CASE mark = 0 -> GcGoto(n, "mark")
         [] mark # 0 /\ instance.method = "ScanThenDelete" /\ Expired(gc[n].timepoint, mark) ->
                gc' = [gc EXCEPT ![n].pc = "data", ![n].back = "locks"]
         [] OTHER -> GcGoto(n, "locks")
    /\ UNCHANGED <<s3vars, calls, tagged>>
    /\ gcUnchanged

\* S3LockClient::makeCall, as for a lock.
sendTryMarkDeleteRequest(n, o) ==
    /\ gc[n].pc = "mark"
    /\ Waiting("mark", n) = {}
    /\ o \in owner
    /\ Send("mark", n, gc[n].file, 0, o)
    /\ UNCHANGED <<s3vars, gc, tagged>>
    /\ gcUnchanged

MarkAnswered(n) ==
    \E c \in Waiting("mark", n) :
        /\ c.pc \in Answers
        /\ calls' = calls \ {c}
        /\ GcGoto(n, CASE c.pc = "not_owner" -> "mark"
                       [] c.pc = "success" /\ instance.method = "Lifecycle" -> "tag"
                       [] OTHER -> "locks")
        /\ UNCHANGED <<s3vars, tagged>>
        /\ gcUnchanged

\* The deadline of the call passes; "leave it to later GC round".
MarkTimeout(n) ==
    /\ gc[n].pc = "mark"
    /\ Waiting("mark", n) = {}
    /\ GcGoto(n, "locks")
    /\ UNCHANGED <<s3vars, calls, tagged>>
    /\ gcUnchanged

lifecycleMarkDataFileDeleted(n) ==
    /\ gc[n].pc = "tag"
    /\ tagged' = IF gc[n].file \in data THEN [tagged EXCEPT ![gc[n].file] = clock] ELSE tagged
    /\ GcGoto(n, "locks")
    /\ UNCHANGED <<s3vars, calls>>
    /\ gcUnchanged

\* removeDataFileIfDelmarkExpired, from cleanOneLock or from tryCleanExpiredDataFiles.
physicalRemoveDataFile(n) ==
    /\ gc[n].pc = "data"
    /\ data' = data \ {gc[n].file}
    /\ GcGoto(n, "undelmark")
    /\ UNCHANGED <<locks, delmark, manifests, calls, tagged>>
    /\ gcUnchanged

\* A handler has seen the data file, which is gone, and not yet looked for the
\* delmark.
Vanishes(f) == f \notin data /\ \E c \in calls : c.kind = "lock" /\ c.pc = "delmark" /\ c.file = f

\* The lifecycle rule is going to remove the data file.
Doomed(f) == f \in data /\ (tagged[f] # 0 \/ \E n \in Stores : gc[n].pc = "tag" /\ gc[n].file = f)

\* DELETE of the delmark of f.
DeleteDelmark(f) ==
    /\ delmark' = [delmark EXCEPT ![f] = 0]
    /\ IF Vanishes(f) THEN Meets("vanish", f)
       ELSE IF Doomed(f) THEN Meets("lifecycle", f)
       ELSE UNCHANGED exposed

removeDelmark(n) ==
    /\ gc[n].pc = "undelmark"
    /\ DeleteDelmark(gc[n].file)
    /\ GcGoto(n, gc[n].back)
    /\ UNCHANGED <<data, locks, manifests, calls, tagged, clock, ownerVars, faults, nodeVars>>

\* After the scan of the locks removeOutdatedManifest, all manifests of a
\* tombstone store; then verifyLocks, and on to tryCleanExpiredDataFiles.
removeOutdatedManifest(n) ==
    LET s == gc[n].store IN
    /\ gc[n].pc = "locks"
    /\ manifests' = [manifests EXCEPT ![s] = IF gc[n].safe > MaxSeq THEN {} ELSE @ \ gc[n].outdated]
    /\ gc' = [gc EXCEPT ![n] = IF instance.method = "Lifecycle" THEN IdleGc
                               ELSE [IdleGc EXCEPT !.pc = "scan", !.store = s, !.timepoint = gc[n].timepoint]]
    /\ UNCHANGED <<data, locks, delmark, calls, tagged>>
    /\ gcUnchanged

tryCleanExpiredDataFiles(n, f) ==
    /\ gc[n].pc = "scan"
    /\ StoreOf[f] = gc[n].store
    /\ delmark[f] # 0 /\ Expired(gc[n].timepoint, delmark[f])
    /\ gc' = [gc EXCEPT ![n] = [@ EXCEPT !.pc = "data", !.file = f, !.back = "scan"]]
    /\ UNCHANGED <<s3vars, calls, tagged>>
    /\ gcUnchanged

\* The end of the scan, or a request that throws: on to the next store.
EndOfStore(n) ==
    /\ gc[n].pc \notin {"idle", "mark"}
    /\ gc' = [gc EXCEPT ![n] = IdleGc]
    /\ UNCHANGED <<s3vars, calls, tagged>>
    /\ gcUnchanged

-----------------------------------------------------------------------------
(* S3's lifecycle rule: objects tagged as deleted go after a day *)

LifecycleData(f) ==
    /\ tagged[f] # 0 /\ Expired(clock, tagged[f])
    /\ data' = data \ {f}
    /\ tagged' = [tagged EXCEPT ![f] = 0]
    /\ UNCHANGED <<locks, delmark, manifests, calls, gc>>
    /\ gcUnchanged

\* A delmark is tagged when it is uploaded, its data file later.
LifecycleDelmark(f) ==
    /\ delmark[f] # 0 /\ Expired(clock, delmark[f])
    /\ instance.method = "Lifecycle"
    /\ DeleteDelmark(f)
    /\ UNCHANGED <<data, locks, manifests, calls, gc, tagged, clock, ownerVars, faults, nodeVars>>

-----------------------------------------------------------------------------

WriteStep(s) ==
    \/ \E f \in Files : putDMFile(s, f) \/ createS3LockLocal(s, f)
    \/ \E F \in SUBSET Files : Ingest(s, F)
    \/ \E f \in Files, n \in Stores : sendTryAddLockRequest(s, f, n)
    \/ Answered(s) \/ Timeout(s)
    \/ addPreLockKeys(s) \/ apply(s)
    \/ cleanAppliedS3ExternalFiles(s) \/ cleanPreLockKeysOnWriteFailure(s)
    \/ \E l \in directory[s] : RemovePage(s, l)

CheckpointStep(s) ==
    \/ allocateNewUploadLocksInfo(s)
    \/ \E C \in SUBSET directory[s], has_new_data \in BOOLEAN :
            writeEditsAndApplyCheckpointInfo(s, C, has_new_data)
    \/ putData(s) \/ putLocks(s) \/ putManifest(s)
    \/ copyCheckpointInfoFromEdit(s) \/ UploadFails(s)

GcStep(n) ==
    \/ \E s \in Stores : runForStore(n, s)
    \/ \E l \in locks : cleanOneLock(n, l)
    \/ CheckDelmarkOfLock(n)
    \/ \E o \in Stores : sendTryMarkDeleteRequest(n, o)
    \/ MarkAnswered(n) \/ MarkTimeout(n)
    \/ lifecycleMarkDataFileDeleted(n)
    \/ physicalRemoveDataFile(n) \/ removeDelmark(n)
    \/ removeOutdatedManifest(n)
    \/ \E f \in Files : tryCleanExpiredDataFiles(n, f)
    \/ EndOfStore(n)

\* The process of s ends, and with it its round.
StopStep(s) ==
    /\ initStoreInfo(s) \/ BecomesTombstone(s)
    /\ gc' = [gc EXCEPT ![s] = IdleGc]
    /\ UNCHANGED tagged

TickStep ==
    /\ Tick /\ clock < instance.time
    /\ calls = {}
    /\ \A s \in Stores : upload[s].pc # "copy"
    /\ UNCHANGED <<s3vars, ownerVars, calls, exposed, faults, instance, nodeVars, gc, tagged>>

Next ==
    \/ ServiceStep /\ UNCHANGED <<instance, nodeVars, gc, tagged>>
    \/ \E s \in Stores \ tombstone : (WriteStep(s) \/ CheckpointStep(s)) /\ UNCHANGED <<instance, gc, tagged>>
    \/ \E n \in Stores \ tombstone : (GcStep(n) \/ StopStep(n)) /\ UNCHANGED instance
    \/ \E f \in Files : (LifecycleData(f) \/ LifecycleDelmark(f)) /\ UNCHANGED instance
    \/ TickStep

Spec == Init /\ [][Next]_vars

-----------------------------------------------------------------------------
(* Properties *)

\* The lock has met a window of Exempt: a checkpoint missed it, or its file was
\* marked, removed or locked in spite of the checks.
Excused(l) ==
    \E w \in Exempt : <<w, l.file>> \in exposed \/ <<w, l>> \in exposed

\* Every remote page of a running store can be read: its data file is on S3,
\* unless the lock of the page has met one of the windows.  A window harms only
\* the files that meet it, and nothing else loses a page its data.
PagesHaveData ==
    \A s \in Stores : \A l \in directory[s] : l.file \in data \/ Excused(l)

\* The lock that a page refers to exists and its file is not marked as deleted,
\* except for a page whose data a checkpoint has just written again, and outside
\* the windows: the lock service never grants a lock and a delmark on the same
\* file, and GC removes no lock before the manifest that lists it.
PagesAreLocked ==
    \A s \in Stores : \A l \in directory[s] \ upload[s].compact :
        (l \in locks /\ delmark[l.file] = 0) \/ Excused(l)

\* The locks of every manifest that is to be preserved exist, and so does their
\* data, as verifyLocks asserts: a store that ingests pages from the manifest, or
\* restores from it, finds them.  Locks that have met a window are excused.
PreservedManifestsAreLocked ==
    \A s \in Stores \ tombstone :
        \A l \in LocksIn(preservedManifests(manifests[s], clock)) :
            (l \in locks /\ l.file \in data) \/ Excused(l)
=============================================================================
