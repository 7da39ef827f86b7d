--------------------------- MODULE MCPageDirectory ---------------------------
(* PageDirectory on small instances. The configurations choose the pages   *)
(* and name the setups.                                                    *)
EXTENDS PageDirectory

Setup(pages, max_seq, readers, features) ==
    [pages |-> pages, max_seq |-> max_seq, readers |-> readers, features |-> features]

\* For pages 1 (data), 2 and 3 (refs), a meta page and 5 (external).
AllSetups ==
    { \* in-memory GC against readers, of a page with a ref and of a Raft page
      Setup({1, 2}, 4, Readers, {}),
      Setup(MetaPages, 4, Readers, {}),
      \* in-memory GC of refs to refs
      Setup({1, 2, 3}, 6, {}, {}),
      \* full GC, log compaction and restarts of a page with a ref
      Setup({1, 2}, 4, {}, {"crash", "dump", "full_gc"}),
      \* log compaction of several files and restarts: a ref to an external page,
      \* and a meta page
      Setup({2, 5}, 4, {}, {"crash", "dump", "roll"}),
      Setup(MetaPages, 4, {}, {"crash", "dump", "roll"}) }

\* In-memory GC alone.
MemorySetups == {Setup(Pages, MaxSeq, Readers, {})}

\* Log compaction and restarts, without full GC.
RenameSetups == {Setup(Pages, MaxSeq, {}, {"crash", "dump"})}

\* Full GC, log compaction and restarts of all pages.
MoveSetups == {Setup(Pages, MaxSeq, {}, {"crash", "dump", "full_gc"})}
==============================================================================
