-------------------------------- MODULE MCS3 --------------------------------
(***************************************************************************)
(* Instances of S3GCManager: all files are written by store s1. An         *)
(* instance chooses which of them are used and how often a store ingests a *)
(* file of another one or uploads a checkpoint.                            *)
(***************************************************************************)
EXTENDS S3GCManager

CONSTANTS s1, s2, dmf, ckpt1, ckpt2

MCStoreOf == [f \in Files |-> s1]

MCSeqOf == [f \in CheckpointFiles |-> IF f = ckpt1 THEN 1 ELSE 2]

\* Store s1 uploads MaxSeq checkpoints, s2 uploads u.
Instance(m, o, only, F, t, u, i, K) ==
    [method |-> m, owner |-> o, manifest_only |-> only, files |-> F, time |-> t,
     uploads |-> [s \in Stores |-> IF s = s1 THEN MaxSeq ELSE u], ingests |-> i, faults |-> K]

\* In turn: a DTFile with checkpoints that are manifest_only; checkpoints that
\* compact, fail and are cut off by a restart; faults while s2 ingests a file of
\* s1, which may be outdated or removed; the lifecycle rule; a change of owner;
\* a file that s1 takes back from s2.
MCInstances ==
    {Instance("ScanThenDelete", s2, TRUE, {dmf}, 2, 0, 0, {"write"}),
     Instance("ScanThenDelete", s2, FALSE, {ckpt1, ckpt2}, 2, 0, 0, {"restart", "upload"}),
     Instance("ScanThenDelete", s2, FALSE, {ckpt1}, 3, 0, 1, {"rpc", "restart", "write", "tombstone"}),
     Instance("Lifecycle", s2, FALSE, {ckpt1}, 3, 0, 1, {}),
     Instance("ScanThenDelete", s2, FALSE, {ckpt1}, 2, 0, 1, {"lease"}),
     Instance("ScanThenDelete", s1, FALSE, {ckpt1}, 2, 1, 2, {"tombstone"})}

\* Store s2 ingests a file of s1 and uploads a checkpoint, without faults.
IngestInstances == {Instance("ScanThenDelete", s2, FALSE, {ckpt1}, 3, 1, 1, {})}
=============================================================================
