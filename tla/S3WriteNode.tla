----------------------------- MODULE S3WriteNode -----------------------------
(***************************************************************************)
(* A write node that keeps pages on S3: UniversalPageStorage::write with   *)
(* the locks of S3LockLocalManager, and the upload of checkpoints          *)
(* (src/dbms/src/Storages/Page/V3/Universal).                              *)
(*                                                                         *)
(* A remote page is identified with the lock file that its entry names.    *)
(* One batch and one checkpoint are in progress on a store at a time; the  *)
(* comment in UniversalPageStorage::write assumes that batches do not lock *)
(* the same file concurrently.                                             *)
(***************************************************************************)
EXTENDS S3LockService

VARIABLES
    last_upload_sequence,
    pre_lock_keys,
    directory,          \* the remote pages, as lock keys
    batch,              \* the write in progress
    upload,             \* the checkpoint in progress
    written,            \* DTFiles that have been uploaded; their ids are not used again
    tombstone,          \* stores that have been removed from the cluster
    ingests             \* the number of batches that have ingested pages

nodeVars == <<last_upload_sequence, pre_lock_keys, directory, batch, upload, written, tombstone, ingests>>

IdleBatch == [pc |-> "idle", files |-> {}, created |-> {}]

IdleUpload == [pc |-> "idle", seq |-> 0, locked |-> {}, compact |-> {}, new |-> {}, has_new_data |-> FALSE]

TypeOfNode ==
    /\ last_upload_sequence \in [Stores -> 0..MaxSeq]
    /\ pre_lock_keys \in [Stores -> SUBSET LockKeys]
    /\ directory \in [Stores -> SUBSET LockKeys]
    /\ batch \in [Stores -> [pc : {"idle", "lock", "call", "apply", "clean"},
                             files : SUBSET Files, created : SUBSET LockKeys]]
    /\ upload \in [Stores -> [pc : {"idle", "dump", "data", "lock", "manifest", "copy"}, seq : 0..MaxSeq,
                              locked : SUBSET LockKeys, compact : SUBSET LockKeys,
                              new : SUBSET LockKeys, has_new_data : BOOLEAN]]
    /\ written \subseteq Files
    /\ tombstone \subseteq Stores
    /\ ingests \in 0..instance.ingests

InitNode ==
    /\ last_upload_sequence = [s \in Stores |-> 0]
    /\ pre_lock_keys = [s \in Stores |-> {}]
    /\ directory = [s \in Stores |-> {}]
    /\ batch = [s \in Stores |-> IdleBatch]
    /\ upload = [s \in Stores |-> IdleUpload]
    /\ written = {}
    /\ tombstone = {}
    /\ ingests = 0

nodeUnchanged == UNCHANGED <<delmark, clock, ownerVars, written, tombstone, ingests>>

-----------------------------------------------------------------------------
(* UniversalPageStorage::write *)

\* A DTFile that a store writes is uploaded before the batch that refers to it
\* (DataStoreS3::putDMFileLocalFiles).
putDMFile(s, f) ==
    /\ batch[s].pc = "idle"
    /\ f \in instance.files \ (CheckpointFiles \cup written)
    /\ StoreOf[f] = s
    /\ data' = data \cup {f}
    /\ written' = written \cup {f}
    /\ batch' = [batch EXCEPT ![s] = [IdleBatch EXCEPT !.pc = "lock", !.files = {f}]]
    /\ UNCHANGED <<locks, delmark, manifests, clock, ownerVars, calls, exposed, last_upload_sequence,
                   pre_lock_keys, directory, upload, tombstone, ingests, faults>>

\* Pages of another store are ingested (fast add peer): their files are locked
\* in one of its manifests, which may be outdated by the time the batch locks
\* them.  Some of them may be files that s itself has written.
Ingest(s, F) ==
    /\ batch[s].pc = "idle"
    /\ ingests < instance.ingests
    /\ ingests' = ingests + 1
    /\ F # {}
    /\ \E t \in Stores \ {s} : F \subseteq {l.file : l \in LocksIn(manifests[t])}
    /\ batch' = [batch EXCEPT ![s] = [IdleBatch EXCEPT !.pc = "lock", !.files = F]]
    /\ UNCHANGED <<s3vars, clock, ownerVars, calls, exposed, last_upload_sequence, pre_lock_keys, directory,
                   upload, written, tombstone, faults>>

\* The lock service would refuse to lock f now, or is about to mark it as deleted.
Unlockable(f) ==
    \/ f \notin data
    \/ delmark[f] # 0
    \/ \E c \in calls : c.kind = "mark" /\ c.file = f /\ c.pc = "upload"

\* createS3Lock under the shared mtx_sequence: a file of its own is locked
\* directly, without the lock service.
createS3LockLocal(s, f) ==
    LET l == LockKey(f, s, last_upload_sequence[s] + 1) IN
    /\ batch[s].pc = "lock"
    /\ f \in batch[s].files /\ StoreOf[f] = s
    /\ locks' = locks \cup {l}
    /\ batch' = [batch EXCEPT ![s].files = @ \ {f}, ![s].created = @ \cup {l}]
    /\ IF Unlockable(f) THEN Meets("local", f) ELSE UNCHANGED exposed
    /\ UNCHANGED <<data, manifests, calls, last_upload_sequence, pre_lock_keys, directory, upload>>
    /\ nodeUnchanged /\ UNCHANGED faults

\* S3LockClient::makeCall, for a file of another store: sends, and sends again
\* after an error or "not owner".  A call to a node that is not the owner is
\* refused at once and the client looks the owner up again.
sendTryAddLockRequest(s, f, n) ==
    /\ batch[s].pc \in {"lock", "call"}
    /\ f \in batch[s].files /\ StoreOf[f] # s
    /\ Waiting("lock", s) = {}
    /\ n \in owner
    /\ Send("lock", s, f, last_upload_sequence[s] + 1, n)
    /\ batch' = [batch EXCEPT ![s].pc = "call"]
    /\ UNCHANGED <<s3vars, last_upload_sequence, pre_lock_keys, directory, upload>>
    /\ nodeUnchanged /\ UNCHANGED <<exposed, faults>>

Answered(s) ==
    \E c \in Waiting("lock", s) :
        /\ c.pc \in Answers
        /\ calls' = calls \ {c}
        /\ batch' = [batch EXCEPT ![s] =
                CASE c.pc = "success" ->
                        [@ EXCEPT !.pc = "lock", !.files = @ \ {c.file},
                                  !.created = @ \cup {LockKey(c.file, s, c.seq)}]
                  [] c.pc = "conflict" -> IdleBatch
                  [] OTHER -> @]
        /\ UNCHANGED <<s3vars, last_upload_sequence, pre_lock_keys, directory, upload>>
        /\ nodeUnchanged /\ UNCHANGED <<exposed, faults>>

\* The deadline passes, createS3Lock throws and the batch fails; locks that
\* were created for other files stay on S3.
Timeout(s) ==
    /\ batch[s].pc = "call"
    /\ Waiting("lock", s) = {}
    /\ batch' = [batch EXCEPT ![s] = IdleBatch]
    /\ UNCHANGED <<s3vars, calls, last_upload_sequence, pre_lock_keys, directory, upload>>
    /\ nodeUnchanged /\ UNCHANGED <<exposed, faults>>

\* The end of createS3LockForWriteBatch.
addPreLockKeys(s) ==
    /\ batch[s].pc = "lock" /\ batch[s].files = {}
    /\ pre_lock_keys' = [pre_lock_keys EXCEPT ![s] = @ \cup batch[s].created]
    /\ batch' = [batch EXCEPT ![s].pc = "apply"]
    /\ UNCHANGED <<s3vars, calls, last_upload_sequence, directory, upload>>
    /\ nodeUnchanged /\ UNCHANGED <<exposed, faults>>

\* page_directory->apply
apply(s) ==
    /\ batch[s].pc = "apply"
    /\ directory' = [directory EXCEPT ![s] = @ \cup batch[s].created]
    /\ batch' = [batch EXCEPT ![s].pc = "clean"]
    /\ UNCHANGED <<s3vars, calls, last_upload_sequence, pre_lock_keys, upload>>
    /\ nodeUnchanged /\ UNCHANGED <<exposed, faults>>

cleanPreLockKeys(s) ==
    /\ pre_lock_keys' = [pre_lock_keys EXCEPT ![s] = @ \ batch[s].created]
    /\ batch' = [batch EXCEPT ![s] = IdleBatch]
    /\ UNCHANGED <<s3vars, calls, exposed, last_upload_sequence, directory, upload>>
    /\ nodeUnchanged

cleanAppliedS3ExternalFiles(s) == batch[s].pc = "clean" /\ UNCHANGED faults /\ cleanPreLockKeys(s)

cleanPreLockKeysOnWriteFailure(s) == batch[s].pc = "apply" /\ Fault("write") /\ cleanPreLockKeys(s)

\* A page is deleted and its versions are collected.
RemovePage(s, l) ==
    /\ l \in directory[s]
    /\ directory' = [directory EXCEPT ![s] = @ \ {l}]
    /\ UNCHANGED <<s3vars, calls, last_upload_sequence, pre_lock_keys, batch, upload>>
    /\ nodeUnchanged /\ UNCHANGED <<exposed, faults>>

-----------------------------------------------------------------------------
(* Checkpoints: uploadCheckpointImpl and dumpIncrementalCheckpoint *)

\* mtx_sequence keeps a checkpoint out while a lock is being created.
CanAllocate(s) == batch[s].pc # "call"

\* Locks that are created and not yet in pre_lock_keys.
Unlisted(s) == IF batch[s].pc = "lock" THEN batch[s].created ELSE {}

\* Checkpoints of different stores touch no common object; they are taken one
\* at a time.
allocateNewUploadLocksInfo(s) ==
    /\ \A t \in Stores : upload[t].pc = "idle"
    /\ last_upload_sequence[s] < instance.uploads[s]
    /\ CanAllocate(s)
    /\ last_upload_sequence' = [last_upload_sequence EXCEPT ![s] = @ + 1]
    /\ upload' = [upload EXCEPT ![s] = [IdleUpload EXCEPT !.pc = "dump", !.seq = last_upload_sequence'[s],
                                                         !.locked = pre_lock_keys[s]]]
    /\ exposed' = exposed \cup ({"prelock"} \X Unlisted(s))
    /\ UNCHANGED <<s3vars, calls, pre_lock_keys, directory, batch>>
    /\ nodeUnchanged /\ UNCHANGED faults

\* The pages that go into a checkpoint with their data: those of DTFiles only, if
\* it is manifest_only.
Listed(s) == {l \in directory[s] : instance.manifest_only => l.file \notin CheckpointFiles}

\* createSnapshot and writeEditsAndApplyCheckpointInfo: the manifest locks the
\* files of the listed pages but those whose data is written again (C), and the
\* checkpoint's own data file if there is data to write.  A data file is uploaded
\* in any case; one that is not in instance.files is not followed.
writeEditsAndApplyCheckpointInfo(s, C, has_new_data) ==
    LET new == {LockKey(f, s, upload[s].seq) :
                    f \in {g \in instance.files \cap CheckpointFiles : StoreOf[g] = s /\ SeqOf[g] = upload[s].seq}}
    IN
    /\ upload[s].pc = "dump"
    /\ \A l \in C : l \in directory[s] /\ l.file \in CheckpointFiles
    /\ C # {} => has_new_data
    /\ has_new_data => ~instance.manifest_only /\ new # {}
    /\ upload' = [upload EXCEPT ![s] =
            [@ EXCEPT !.pc = IF new = {} THEN "manifest" ELSE "data",
                      !.compact = C, !.new = new, !.has_new_data = has_new_data,
                      !.locked = @ \cup (Listed(s) \ C) \cup (IF has_new_data THEN new ELSE {})]]
    /\ UNCHANGED <<s3vars, calls, last_upload_sequence, pre_lock_keys, directory, batch>>
    /\ nodeUnchanged /\ UNCHANGED <<exposed, faults>>

\* The manifest is uploaded without the locks of the data files.
putDataOnly(s) ==
    /\ upload[s].pc = "data"
    /\ data' = data \cup {l.file : l \in upload[s].new}
    /\ upload' = [upload EXCEPT ![s].pc = "manifest"]
    /\ UNCHANGED <<locks, manifests, calls, last_upload_sequence, pre_lock_keys, directory, batch>>
    /\ nodeUnchanged /\ UNCHANGED <<exposed, faults>>

\* putCheckpointFiles: first the data files, then their locks, then the manifest.
putData(s) ==
    /\ upload[s].pc = "data"
    /\ data' = data \cup {l.file : l \in upload[s].new}
    /\ upload' = [upload EXCEPT ![s].pc = "lock"]
    /\ UNCHANGED <<locks, manifests, calls, last_upload_sequence, pre_lock_keys, directory, batch>>
    /\ nodeUnchanged /\ UNCHANGED <<exposed, faults>>

putLocks(s) ==
    /\ upload[s].pc = "lock"
    /\ locks' = locks \cup upload[s].new
    /\ upload' = [upload EXCEPT ![s].pc = "manifest"]
    /\ UNCHANGED <<data, manifests, calls, last_upload_sequence, pre_lock_keys, directory, batch>>
    /\ nodeUnchanged /\ UNCHANGED <<exposed, faults>>

putManifest(s) ==
    /\ upload[s].pc = "manifest"
    /\ manifests' = [manifests EXCEPT ![s] =
            @ \cup {[seq |-> upload[s].seq, locks |-> upload[s].locked, mtime |-> clock]}]
    /\ upload' = [upload EXCEPT ![s] = IF @.has_new_data THEN [@ EXCEPT !.pc = "copy", !.locked = {}]
                                                        ELSE IdleUpload]
    /\ UNCHANGED <<data, locks, calls, last_upload_sequence, pre_lock_keys, directory, batch>>
    /\ nodeUnchanged /\ UNCHANGED <<exposed, faults>>

copyCheckpointInfoFromEdit(s) ==
    /\ upload[s].pc = "copy"
    /\ directory' = [directory EXCEPT ![s] = (@ \ upload[s].compact) \cup upload[s].new]
    /\ upload' = [upload EXCEPT ![s] = IdleUpload]
    /\ UNCHANGED <<s3vars, calls, last_upload_sequence, pre_lock_keys, batch>>
    /\ nodeUnchanged /\ UNCHANGED <<exposed, faults>>

\* The dump or one of the uploads throws.
UploadFails(s) ==
    /\ Fault("upload")
    /\ upload[s].pc \in {"dump", "data", "lock", "manifest"}
    /\ upload' = [upload EXCEPT ![s] = IdleUpload]
    /\ UNCHANGED <<s3vars, calls, exposed, last_upload_sequence, pre_lock_keys, directory, batch>>
    /\ nodeUnchanged

-----------------------------------------------------------------------------
(* Restart, and removal from the cluster *)

\* What is left of the calls when the process of s ends: its handlers are gone,
\* handlers on other nodes go on without their client.
CallsWithout(s) ==
    {[c EXCEPT !.live = @ /\ c.from # s] : c \in {d \in calls : d.node # s /\ (d.from # s \/ d.pc \notin Answers)}}

\* initStoreInfo: the sequence and the checkpoint info of pages that are still
\* there come from the latest manifest; pre_lock_keys was only in memory.
initStoreInfo(s) ==
    /\ Fault("restart")
    /\ last_upload_sequence' = [last_upload_sequence EXCEPT ![s] = latestUploadSequence(manifests[s])]
    /\ directory' = [directory EXCEPT ![s] =
            IF upload[s].pc = "copy" THEN (@ \ upload[s].compact) \cup upload[s].new ELSE @]
    /\ pre_lock_keys' = [pre_lock_keys EXCEPT ![s] = {}]
    /\ batch' = [batch EXCEPT ![s] = IdleBatch]
    /\ upload' = [upload EXCEPT ![s] = IdleUpload]
    /\ calls' = CallsWithout(s)
    /\ owner' = owner \ {s}
    /\ UNCHANGED <<s3vars, clock, leader, exposed, written, tombstone, ingests>>

\* PD reports the store as tombstone; its process has ended, and its lease of the
\* owner's key with it, if it had one.
BecomesTombstone(s) ==
    /\ Fault("tombstone")
    /\ leader # s
    /\ tombstone' = tombstone \cup {s}
    /\ directory' = [directory EXCEPT ![s] = {}]
    /\ pre_lock_keys' = [pre_lock_keys EXCEPT ![s] = {}]
    /\ batch' = [batch EXCEPT ![s] = IdleBatch]
    /\ upload' = [upload EXCEPT ![s] = IdleUpload]
    /\ calls' = CallsWithout(s)
    /\ owner' = owner \ {s}
    /\ UNCHANGED <<s3vars, clock, leader, exposed, written, last_upload_sequence, ingests>>
=============================================================================
