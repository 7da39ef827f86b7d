------------------------------- MODULE S3Store -------------------------------
(***************************************************************************)
(* The objects that TiFlash write nodes keep in one S3 bucket, and the     *)
(* rules by which manifests age (src/dbms/src/Storages/S3).  Every object  *)
(* operation of S3 is one step: PUT, DELETE, HEAD and LIST are atomic.     *)
(*                                                                         *)
(* A data file is a DTFile or a CheckpointData file; its name tells which  *)
(* store wrote it (StoreOf).  A lock file says that a store refers to a    *)
(* data file since one of its upload sequences.  A delmark says that the   *)
(* data file may be removed.  A manifest lists the locks of a checkpoint.  *)
(***************************************************************************)
EXTENDS Integers, FiniteSets, FiniteSetsExt

CONSTANTS
    Stores,             \* ids of the write nodes
    Files,              \* names of data files
    StoreOf,            \* Files -> Stores, S3FilenameView::store_id
    CheckpointFiles,    \* the files that checkpoints write, the others are DTFiles
    SeqOf,              \* CheckpointFiles -> 1..MaxSeq, the checkpoint that writes the file
    MaxSeq,             \* bound on upload sequences
    MaxTime,            \* bound on the clock
    manifest_preserve_count

None == "none"

ASSUME StoresAssumption ==
    /\ StoreOf \in [Files -> Stores]
    /\ CheckpointFiles \subseteq Files
    /\ SeqOf \in [CheckpointFiles -> 1..MaxSeq]
    /\ None \notin Stores \cup Files
    /\ {MaxSeq, MaxTime, manifest_preserve_count} \subseteq Nat

VARIABLES
    data,               \* the data files that exist
    locks,              \* the lock files that exist
    delmark,            \* the modification time of a file's delmark, 0 if there is none
    manifests,          \* per store, the manifests that exist
    clock

s3vars == <<data, locks, delmark, manifests>>

\* A lock file that carries the sequence of the checkpoint before.
LockKeyOfLastUpload(f, s, seq) == [file |-> f, store |-> s, seq |-> seq - 1]

\* S3FilenameView::getLockKey
LockKey(f, s, seq) == [file |-> f, store |-> s, seq |-> seq]

LockKeys == [file : Files, store : Stores, seq : 1..MaxSeq + 1]

Manifests == [seq : 1..MaxSeq, locks : SUBSET LockKeys, mtime : 1..MaxTime]

TypeOfStore ==
    /\ data \subseteq Files
    /\ locks \subseteq LockKeys
    /\ delmark \in [Files -> 0..MaxTime]
    /\ manifests \in [Stores -> SUBSET Manifests]
    /\ clock \in 1..MaxTime

InitStore ==
    /\ data = {}
    /\ locks = {}
    /\ delmark = [f \in Files |-> 0]
    /\ manifests = [s \in Stores |-> {}]
    /\ clock = 1

\* One tick of the clock is longer than either expiry time.
Expired(timepoint, mtime) == timepoint > mtime

latestUploadSequence(mfs) == Max({m.seq : m \in mfs} \cup {0})

\* The latest manifest, then older ones up to the first expired one.  The count
\* is compared after an older one has been added.
preservedManifests(mfs, timepoint) ==
    {m \in mfs :
        LET newer == {k \in mfs : k.seq > m.seq}
            older == {k \in mfs : k.seq >= m.seq /\ k.seq < latestUploadSequence(mfs)}
        IN  \/ newer = {}
            \/ /\ \A k \in older : ~Expired(timepoint, k.mtime)
               /\ Cardinality(newer) = 1 \/ Cardinality(newer) < manifest_preserve_count}

outdatedObjects(mfs, timepoint) == mfs \ preservedManifests(mfs, timepoint)

LocksIn(mfs) == UNION {m.locks : m \in mfs}

Tick ==
    /\ clock < MaxTime
    /\ clock' = clock + 1
=============================================================================
