--------------------------- MODULE VersionedPages ---------------------------
(***************************************************************************)
(* VersionedPageEntries: the version list that PageDirectory keeps for one *)
(* page id, and the operations on it. Each operator is one method, applied *)
(* to a version list v; the caller holds the list's mutex for the whole    *)
(* method. A method that can throw has a companion ...Ok that is FALSE     *)
(* exactly when it throws.                                                 *)
(*                                                                         *)
(* A version is <<sequence, epoch>>. An entry stands for a PageEntryV3: it *)
(* names the place in the blob store that was allocated for version `ver`  *)
(* of page `page`, and the data `val` written there.                       *)
(***************************************************************************)
EXTENDS Integers, Sequences, SequencesExt

NoVer == <<0, 0>>
NoEntry == [page |-> 0, ver |-> NoVer, val |-> 0]

VerLE(a, b) == a[1] < b[1] \/ (a[1] = b[1] /\ a[2] <= b[2])

----------------------------------------------------------------------------
(* MultiVersionRefCount: pairs <<sequence, delta>>; none means a count of 1 *)

getLatestRefCount(rc) == FoldLeft(LAMBDA n, d : n + d[2], 1, rc)

getRefCountInSnap(rc, seq) ==
    getLatestRefCount(SelectSeq(rc, LAMBDA d : d[1] <= seq))

\* Mutant of restoreFrom: a dumped reference count is not restored.
RestoreNoCount(seq, n) == <<>>

restoreFrom(seq, n) == IF n = 1 THEN <<>> ELSE << <<seq, n - 1>> >>

\* What is left of the deltas up to snap_seq after n references are dropped.
DeltaInSnap(rc, snap_seq, n) == getRefCountInSnap(rc, snap_seq) - 1 - n

decrRefCountInSnapOk(rc, snap_seq, n) ==
    rc # <<>> /\ (snap_seq # 0 => DeltaInSnap(rc, snap_seq, n) >= 0)

decrRefCountInSnap(rc, snap_seq, n) ==
    IF snap_seq = 0 THEN Append(rc, <<0, -n>>)
    ELSE LET newer == SelectSeq(rc, LAMBDA d : d[1] > snap_seq)
             left == DeltaInSnap(rc, snap_seq, n)
         IN  IF left = 0 THEN newer ELSE Append(newer, <<snap_seq, left>>)

----------------------------------------------------------------------------
(* The version list. `entries` is sorted by version.                       *)

\* EntryOrDelete: a delete has no entry.
Item(ver, entry, rc) == [ver |-> ver, entry |-> entry, rc |-> rc]
isDelete(item) == item.entry = NoEntry

\* A VersionedPageEntries as its constructor makes it.
NewList ==
    [type |-> "DELETE", entries |-> <<>>, is_deleted |-> FALSE,
     create_ver |-> NoVer, delete_ver |-> NoVer, ori_page_id |-> 0,
     being_ref_count |-> <<>>]

\* The position of the last version with a sequence of at most seq, or 0.
findLess(es, seq) == Max({i \in DOMAIN es : es[i].ver[1] <= seq} \cup {0})

\* The position of the last version that is not a delete with a sequence of at
\* most seq, or 0: from findLess, the methods step back over the deletes.
LastEntry(es, seq) == Max({i \in DOMAIN es : es[i].ver[1] <= seq /\ ~isDelete(es[i])} \cup {0})

\* Mutant of Emplace: versions are kept newest first.
EmplaceFirst(es, item) == <<item>> \o es

\* entries.emplace: a multimap inserts after the versions equal to its own.
Emplace(es, item) ==
    InsertAt(es, Max({i \in DOMAIN es : VerLE(es[i].ver, item.ver)} \cup {0}) + 1, item)

\* A new version inherits the reference count of the version it replaces.
Replace(v, ver, entry) ==
    LET k == findLess(v.entries, ver[1])
        rc == IF k = 0 THEN <<>> ELSE v.entries[k].rc
    IN  [v EXCEPT !.type = "ENTRY", !.entries = Emplace(@, Item(ver, entry, rc))]

\* An entry that other pages refer to may not be replaced by newer data.
ReplaceOk(v, ver) ==
    LET k == findLess(v.entries, ver[1])
    IN  \/ k = 0
        \/ isDelete(v.entries[k])
        \/ getLatestRefCount(v.entries[k].rc) = 1
        \/ v.entries[k].ver[1] >= ver[1]

createNewEntryOk(v, ver) ==
    v.type = "DELETE" \/ (v.type = "ENTRY" /\ ReplaceOk(v, ver))

createNewEntry(v, ver, entry) == Replace(v, ver, entry)

createUpsertEntryOk(v, ver, strict_check) ==
    \/ v.type = "DELETE" /\ ~strict_check
    \/ v.type = "ENTRY" /\ ReplaceOk(v, ver)
    \/ v.type = "REF"

\* A ref page becomes a normal page; if it was deleted, a deleted one.
createUpsertEntry(v, ver, entry) ==
    IF v.type = "REF"
    THEN LET es == Emplace(v.entries, Item(ver, entry, <<>>))
         IN  [v EXCEPT !.type = "ENTRY", !.is_deleted = FALSE,
                       !.entries = IF v.is_deleted
                                   THEN Emplace(es, Item(v.delete_ver, NoEntry, <<>>))
                                   ELSE es]
    ELSE Replace(v, ver, entry)

\* The page whose reference count the caller has to decrease, or 0.
UpsertDerefs(v) == IF v.type = "REF" THEN v.ori_page_id ELSE 0

createNewExternalOk(v) == v.type \in {"DELETE", "EXTERNAL"}

createNewExternal(v, ver, entry) ==
    IF v.type = "DELETE" \/ (v.is_deleted /\ VerLE(v.delete_ver, ver))
    THEN [v EXCEPT !.type = "EXTERNAL", !.is_deleted = FALSE,
                   !.create_ver = ver, !.delete_ver = NoVer,
                   !.entries = Emplace(@, Item(ver, entry, <<>>))]
    ELSE v

createDelete(v, ver) ==
    CASE v.type = "ENTRY" ->
            IF v.entries = <<>> \/ ~isDelete(Last(v.entries))
            THEN [v EXCEPT !.entries = Emplace(@, Item(ver, NoEntry, <<>>))]
            ELSE v
      [] v.type \in {"EXTERNAL", "REF"} ->
            [v EXCEPT !.is_deleted = TRUE, !.delete_ver = ver]
      [] v.type = "DELETE" -> v

\* A ref to the same page is idempotent, a ref to another one is refused.
CreatesRef(v, ver) ==
    \/ v.type = "DELETE"
    \/ v.type = "REF" /\ v.is_deleted /\ VerLE(v.delete_ver, ver)

createNewRefOk(v, ver, ori) ==
    CreatesRef(v, ver) \/ (v.type = "REF" /\ v.ori_page_id = ori)

createNewRef(v, ver, ori) ==
    IF CreatesRef(v, ver)
    THEN [v EXCEPT !.type = "REF", !.is_deleted = FALSE, !.delete_ver = NoVer,
                   !.ori_page_id = ori, !.create_ver = ver]
    ELSE v

\* A record of a dumped snapshot; n is its being_ref_count.
fromRestored(v, type, ver, entry, ori, n) ==
    LET w == [v EXCEPT !.type = type]
    IN  CASE type = "ENTRY" ->
                [w EXCEPT !.entries = Emplace(@, Item(ver, entry, restoreFrom(ver[1], n)))]
          [] type = "REF" ->
                [w EXCEPT !.is_deleted = FALSE, !.create_ver = ver, !.ori_page_id = ori]
          [] type = "EXTERNAL" ->
                [w EXCEPT !.is_deleted = FALSE, !.create_ver = ver,
                          !.being_ref_count = restoreFrom(ver[1], n),
                          !.entries = Emplace(@, Item(ver, entry, <<>>))]

----------------------------------------------------------------------------
(* Reading                                                                 *)

Fail == [state |-> "FAIL", id |-> 0, seq |-> 0, entry |-> NoEntry]
ToNormal(entry) == [Fail EXCEPT !.state = "TO_NORMAL", !.entry = entry]
ToRef(id, seq) == [Fail EXCEPT !.state = "TO_REF", !.id = id, !.seq = seq]

isVisible(v, seq) ==
    CASE v.type = "DELETE" -> FALSE
      [] v.type = "ENTRY" ->
            LET k == findLess(v.entries, seq) IN k # 0 /\ ~isDelete(v.entries[k])
      [] v.type \in {"EXTERNAL", "REF"} ->
            v.create_ver[1] <= seq /\ (~v.is_deleted \/ seq < v.delete_ver[1])

\* The last non-delete at or before seq: what a reader that came through a
\* ref is given, whether or not the page itself has been deleted since.
getLastEntry(v, seq) ==
    LET j == LastEntry(v.entries, seq)
    IN  IF v.type # "ENTRY" \/ j = 0 THEN NoEntry ELSE v.entries[j].entry

resolveToPageId(v, seq, ignore_delete) ==
    CASE v.type = "ENTRY" ->
            LET j == LastEntry(v.entries, seq)
            IN  IF j # 0 /\ (ignore_delete \/ isVisible(v, seq))
                THEN ToNormal(v.entries[j].entry) ELSE Fail
      [] v.type = "EXTERNAL" ->
            IF v.create_ver[1] <= seq /\ (ignore_delete \/ isVisible(v, seq))
            THEN ToNormal(v.entries[SelectInSeq(v.entries,
                                        LAMBDA x : x.ver = v.create_ver)].entry)
            ELSE Fail
      [] v.type = "REF" ->
            IF isVisible(v, seq) THEN ToRef(v.ori_page_id, v.create_ver[1]) ELSE Fail
      [] v.type = "DELETE" -> Fail

----------------------------------------------------------------------------
(* Reference counting                                                      *)

\* A ref made at sequence seq counts on the last entry up to seq.
incrRefCountOk(v, seq) ==
    \/ /\ v.type = "ENTRY"
       /\ LastEntry(v.entries, seq) # 0
       /\ \/ isVisible(v, seq)
          \/ getLatestRefCount(v.entries[LastEntry(v.entries, seq)].rc) # 1
    \/ v.type = "EXTERNAL" /\ v.create_ver[1] <= seq

incrRefCount(v, seq, ref_seq) ==
    IF v.type = "EXTERNAL"
    THEN [v EXCEPT !.being_ref_count = Append(@, <<ref_seq, 1>>)]
    ELSE [v EXCEPT !.entries[LastEntry(v.entries, seq)].rc = Append(@, <<ref_seq, 1>>)]

----------------------------------------------------------------------------
(* Garbage collection. lowest_seq is the lowest sequence still readable.   *)

\* Keep the version visible at lowest_seq and everything newer. If that
\* version is a delete, keep the entry before it as long as a ref counts on it.
CleanEntries(es, lowest_seq) ==
    LET k == findLess(es, lowest_seq)
        j == LastEntry(es, lowest_seq)
    IN  IF k <= 1 THEN es
        ELSE IF isDelete(es[k]) /\ j # 0 /\ getLatestRefCount(es[j].rc) # 1
             THEN <<es[j]>> \o SubSeq(es, k, Len(es))
             ELSE SubSeq(es, k, Len(es))

EntriesOf(v) ==
    IF v.type # "ENTRY" THEN {}
    ELSE {x.entry : x \in {y \in ToSet(v.entries) : ~isDelete(y)}}

cleanOutdatedEntries(v, lowest_seq) ==
    IF v.type = "ENTRY"
    THEN [v EXCEPT !.entries = CleanEntries(@, lowest_seq)]
    ELSE v

\* TRUE iff the caller may drop the whole version list v after cleaning it.
AllDeleted(v, lowest_seq) ==
    LET es == CleanEntries(v.entries, lowest_seq)
    IN  CASE v.type = "DELETE" -> TRUE
          [] v.type = "ENTRY" ->
                \/ v.entries = <<>>
                \/ findLess(v.entries, lowest_seq) > 1 /\ Len(es) = 1 /\ isDelete(es[1])
          [] v.type = "REF" -> v.is_deleted /\ v.delete_ver[1] <= lowest_seq
          [] v.type = "EXTERNAL" ->
                /\ v.is_deleted /\ v.delete_ver[1] <= lowest_seq
                /\ getLatestRefCount(v.being_ref_count) = 1

\* derefAndClean drops n references from the entry that deref_seq counts on;
\* lowest_seq = 0 means that it cleans nothing.
Deref(v, lowest_seq, deref_seq, n) ==
    IF v.type = "EXTERNAL"
    THEN [v EXCEPT !.being_ref_count = decrRefCountInSnap(@, lowest_seq, n)]
    ELSE [v EXCEPT !.entries[LastEntry(v.entries, deref_seq)].rc =
                       decrRefCountInSnap(@, lowest_seq, n)]

derefAndCleanOk(v, lowest_seq, deref_seq, n) ==
    \/ v.type = "EXTERNAL" /\ decrRefCountInSnapOk(v.being_ref_count, lowest_seq, n)
    \/ /\ v.type = "ENTRY"
       /\ LastEntry(v.entries, deref_seq) # 0
       /\ decrRefCountInSnapOk(v.entries[LastEntry(v.entries, deref_seq)].rc, lowest_seq, n)

derefAndClean(v, lowest_seq, deref_seq, n) ==
    LET w == Deref(v, lowest_seq, deref_seq, n)
    IN  IF lowest_seq = 0 THEN w ELSE cleanOutdatedEntries(w, lowest_seq)

----------------------------------------------------------------------------
(* Dumping: the records that recreate what a reader at seq can see, with   *)
(* the deleted pages that refs still count on.                             *)

Record(type, page, ver, entry, ori, n) ==
    [type |-> type, page |-> page, ver |-> ver, entry |-> entry,
     ori |-> ori, being_ref_count |-> n]

VarDel(page, ver) == Record("DEL", page, ver, NoEntry, 0, 1)

collapseTo(v, seq, page) ==
    LET k == findLess(v.entries, seq)
        x == v.entries[k]
        prev == v.entries[k - 1]
        n == getRefCountInSnap(prev.rc, seq)
        del == IF v.is_deleted /\ v.delete_ver[1] <= seq
               THEN <<VarDel(page, v.delete_ver)>> ELSE <<>>
    IN  CASE v.type = "DELETE" -> <<>>
          [] v.type = "REF" ->
                IF v.create_ver[1] > seq THEN <<>>
                ELSE <<Record("VAR_REF", page, v.create_ver, NoEntry,
                              v.ori_page_id, 1)>> \o del
          [] v.type = "EXTERNAL" ->
                IF v.create_ver[1] > seq THEN <<>>
                ELSE <<Record("VAR_EXTERNAL", page, v.create_ver,
                              resolveToPageId(v, seq, TRUE).entry, 0,
                              getRefCountInSnap(v.being_ref_count, seq))>> \o del
          [] v.type = "ENTRY" ->
                IF k = 0 THEN <<>>
                ELSE IF ~isDelete(x)
                THEN <<Record("VAR_ENTRY", page, x.ver, x.entry, 0,
                              getRefCountInSnap(x.rc, seq))>>
                ELSE IF k = 1 \/ isDelete(prev) \/ n = 1 THEN <<>>
                ELSE <<Record("VAR_ENTRY", page, prev.ver, prev.entry, 0, n),
                       VarDel(page, x.ver)>>

============================================================================
