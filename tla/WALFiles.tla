------------------------------ MODULE WALFiles ------------------------------
(***************************************************************************)
(* The log files of WALStore and WALStoreReader. A log is the directory of *)
(* files with the two fields of the WALStore object: the number of the     *)
(* file open for writing (0: none) and the number the next file gets.      *)
(*                                                                         *)
(* A file is log_<num>_<level>[_<snap>]; level 1 is a dumped snapshot. Its *)
(* edits are sequences of records with a version <<sequence, epoch>>. The  *)
(* temporary name of a file being dumped is left out: listAllFiles ignores *)
(* such files, so the file exists from its rename on.                      *)
(***************************************************************************)
EXTENDS Integers, Sequences, FiniteSets, SequencesExt

File(num, level, snap, edits) ==
    [num |-> num, level |-> level, snap |-> snap, edits |-> edits]

Name(f) == <<f.num, f.level, f.snap>>

\* LogFilenameCmp: files are ordered by number and level; snap is ignored.
SameKey(f, g) == f.num = g.num /\ f.level = g.level
FileLE(f, g) == f.num < g.num \/ (f.num = g.num /\ f.level <= g.level)

EmptyLog == [files |-> {}, log_file |-> 0, last_log_num |-> 1]

\* WALStore::apply. `roll` stands for a file that has reached roll_size.
AppendEdit(log, edit, roll) ==
    IF log.log_file = 0 \/ roll
    THEN [files |-> log.files \cup {File(log.last_log_num, 0, 0, <<edit>>)},
          log_file |-> log.last_log_num,
          last_log_num |-> log.last_log_num + 1]
    ELSE [log EXCEPT !.files =
             {IF f.num = log.log_file /\ f.level = 0
              THEN [f EXCEPT !.edits = Append(@, edit)] ELSE f : f \in @}]

\* listAllFiles fills a set ordered by LogFilenameCmp: of two dumps that
\* differ only in snap it keeps the one the directory iterator meets first.
listAllFiles(log) ==
    LET twins == {f \in log.files : \E g \in log.files : f # g /\ SameKey(f, g)}
        kept(f, lost) == {g \in twins \ lost : SameKey(f, g)}
    IN  {log.files \ lost : lost \in
            {S \in SUBSET twins : \A f \in twins : Cardinality(kept(f, S)) = 1}}

\* The sequence of the last record of the last edit; -1: cannot tell.
getLogFileMaxSequence(f) ==
    IF f.edits = <<>> THEN 0
    ELSE IF Last(f.edits) = <<>> THEN -1
    ELSE Last(Last(f.edits)).ver[1]

\* Mutant of CompactableFiles: every closed file is taken.
AllClosedFiles(L, last_log_num, snap_seq) == {f \in L : f.num < last_log_num}

\* tryGetFilesSnapshot: from the newest file down, skip files that are being
\* written or may hold records after snap_seq; take the rest.
CompactableFiles(L, last_log_num, snap_seq) ==
    LET old == {f \in L : f.num < last_log_num}
        safe == {f \in old : getLogFileMaxSequence(f) \in 0 .. snap_seq}
    IN  {f \in old : \E g \in safe : FileLE(f, g)}

\* saveSnapshot: the dump replaces a file of the same name.
SaveSnapshot(log, f) ==
    [log EXCEPT !.files = {g \in @ : Name(g) # Name(f)} \cup {f}]

\* removeLogFiles removes by name.
RemoveFile(log, name) == [log EXCEPT !.files = {f \in @ : Name(f) # name}]

\* findCheckpoint: the newest dump, if any, and the files after it in order. A
\* WALStoreReader is made of the two.
findCheckpoint(L) ==
    LET dumps == {f \in L : f.level > 0}
        newest == {f \in dumps : \A g \in dumps : FileLE(g, f)}
    IN  [checkpoint |-> newest,
         files_to_read |->
            SetToSortSeq({f \in L : \A c \in newest : f.num > c.num}, FileLE)]

getSnapSeqForCheckpoint(reader) ==
    IF reader.checkpoint = {} THEN 0 ELSE (CHOOSE c \in reader.checkpoint : TRUE).snap

\* The number of the last file the reader has seen.
lastLogNum(reader) ==
    IF reader.files_to_read # <<>> THEN Last(reader.files_to_read).num
    ELSE IF reader.checkpoint # {} THEN (CHOOSE c \in reader.checkpoint : TRUE).num + 1
    ELSE 0

Reopened(log, reader) ==
    [log EXCEPT !.log_file = 0, !.last_log_num = lastLogNum(reader) + 1]

============================================================================
