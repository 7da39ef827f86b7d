-------------------------- MODULE WriteGroupProofs --------------------------
(***************************************************************************)
(* Safety of the write pipeline for every set of calls of apply, by an     *)
(* inductive invariant.                                                    *)
(***************************************************************************)
EXTENDS WriteGroup, SequenceTheorems, TLAPS

Queued == {writers[i] : i \in 1 .. Len(writers)}

\* The queue holds each writer once, and exactly the writers that are inside
\* apply and have not been popped by an owner.
QueueInv ==
    /\ \A i, j \in 1 .. Len(writers) : writers[i] = writers[j] => i = j
    /\ \A i \in 1 .. Len(writers) :
          /\ pc[writers[i]] \in {"blocked", "notified"} \cup Owning
          /\ ~done[writers[i]]
    /\ \A w \in Writers :
          /\ pc[w] \in {"blocked"} \cup Owning => w \in Queued
          /\ pc[w] = "notified" /\ ~done[w] => w \in Queued
          /\ done[w] => pc[w] \in {"notified", "returned", "threw"}

\* Only the head owns a group, and the head is awake.
HeadInv ==
    /\ \A w \in Writers : pc[w] \in Owning => Len(writers) > 0 /\ writers[1] = w
    /\ Len(writers) > 0 => pc[writers[1]] # "blocked"

\* The position i of the queue has not been merged into an owner's edit.
Unmerged(i) ==
    pc[writers[1]] \in Owning => i > Len(edit[writers[1]])

Unwritten(x) == \A p \in wal \cup mem : p[1] # x

\* The edit of w is its own record and nothing else.
OwnEdit(w) == Len(edit[w]) = 1 /\ edit[w][1] = w

\* The edit of an unmerged writer is its own record, which nobody has
\* written; the owner's edit is the prefix of the queue that ends in
\* last_writer.
EditInv ==
    /\ \A w \in Writers : pc[w] = "idle" => OwnEdit(w) /\ Unwritten(w)
    /\ \A i \in 1 .. Len(writers) :
          Unmerged(i) => OwnEdit(writers[i]) /\ Unwritten(writers[i])
    /\ \A w \in Writers : pc[w] \in Owning =>
          /\ Len(edit[w]) \in 1 .. Len(writers)
          /\ last_writer[w] = writers[Len(edit[w])]
          /\ \A i \in 1 .. Len(edit[w]) : edit[w][i] = writers[i]

\* The i-th record of the owner's edit has version v or has not been written.
OnlyAt(w, i, v) ==
    \A p \in wal \cup mem : p[1] = edit[w][i] => p[2] = v

\* How far the owner's records have got.
ProgressInv ==
    /\ \A w \in Writers :
          pc[w] \in {"idle", "blocked", "owner"} => applied[w] = 0
    /\ \A w \in Writers : pc[w] = "notified" /\ ~done[w] => applied[w] = 0
    /\ \A w \in Writers : pc[w] = "owner" =>
          \A i \in 1 .. Len(edit[w]) : Unwritten(edit[w][i])
    /\ \A w \in Writers : pc[w] = "logged" =>
          /\ base[w] = sequence
          /\ applied[w] <= Len(edit[w])
          /\ \A i \in 1 .. Len(edit[w]) :
                /\ <<edit[w][i], base[w] + i>> \in wal
                /\ i <= applied[w] => <<edit[w][i], base[w] + i>> \in mem
                /\ OnlyAt(w, i, base[w] + i)
    /\ \A w \in Writers : pc[w] = "finishing" =>
          /\ sequence = base[w] + Len(edit[w])
          /\ \A i \in 1 .. Len(edit[w]) :
                /\ <<edit[w][i], base[w] + i>> \in wal
                /\ <<edit[w][i], base[w] + i>> \in mem

Durable(w) == \E v \in 1 .. sequence : <<w, v>> \in wal /\ <<w, v>> \in mem

\* Every writer that is told of success is durable.
AckInv ==
    \A w \in Writers :
        pc[w] = "returned" \/ (done[w] /\ success[w]) => Durable(w)

IInv == TypeOK /\ QueueInv /\ HeadInv /\ EditInv /\ ProgressInv /\ AckInv
        /\ EachRecordOnce

USE DEF Owning, Returned, PCs, Queued

\* The invariant holds before the first call of apply.
LEMMA InitIInv == Init => IInv
  BY DEF Init, IInv, TypeOK, QueueInv, HeadInv, EditInv, ProgressInv, AckInv,
         EachRecordOnce, Unmerged, Unwritten, OwnEdit

\* A function on 1 .. n is a sequence of length n.
LEMMA FunctionIsSeq ==
  ASSUME NEW S, NEW n \in Nat, NEW f \in [1 .. n -> S]
  PROVE  f \in Seq(S) /\ Len(f) = n
  BY SeqDef

\* What the merge makes of the edits e: the owner has the queue's records in
\* order, everyone outside the queue keeps its edit.
LEMMA Merge ==
  ASSUME NEW e \in [Writers -> Seq(Writers)], NEW w \in Writers,
         NEW q \in Seq(Writers), Len(q) > 0,
         \A i \in 1 .. Len(q) : Len(e[q[i]]) = 1 /\ e[q[i]][1] = q[i]
  PROVE  /\ Merged(e, w, q) \in [Writers -> Seq(Writers)]
         /\ Len(Merged(e, w, q)[w]) = Len(q)
         /\ \A i \in 1 .. Len(q) : Merged(e, w, q)[w][i] = q[i]
         /\ \A x \in Writers :
               x # w /\ (\A i \in 1 .. Len(q) : q[i] # x)
               => Merged(e, w, q)[x] = e[x]
  <1> DEFINE f == Merged(e, w, q)
  <1> DEFINE m == [i \in 1 .. Len(q) |-> e[q[i]][1]]
  <1>1. m \in [1 .. Len(q) -> Writers] /\ \A i \in 1 .. Len(q) : m[i] = q[i]
    OBVIOUS
  <1>2. m \in Seq(Writers) /\ Len(m) = Len(q)
    BY <1>1, FunctionIsSeq
  <1>3. f[w] = m /\ \A x \in Writers : f[x] \in Seq(Writers)
    BY <1>2 DEF Merged
  <1> HIDE DEF m
  <1>4. f \in [Writers -> Seq(Writers)]
    BY <1>3 DEF Merged
  <1>5. DOMAIN q = 1 .. Len(q)
    OBVIOUS
  <1>6. \A x \in Writers :
          x # w /\ (\A i \in 1 .. Len(q) : q[i] # x) => f[x] = e[x]
    BY <1>5 DEF Range, Merged
  <1> QED BY <1>1, <1>2, <1>3, <1>4, <1>6

\* A call of apply that finds the queue empty becomes the owner of a group of one.
LEMMA EnterAsOwnerIInv ==
  ASSUME IInv, NEW w \in Writers, EnterAsOwner(w)
  PROVE  IInv'
  <1>0. Len(writers) = 0 /\ writers' \in Seq(Writers) /\ Len(writers') = 1
        /\ writers'[1] = w
    BY DEF IInv, TypeOK, EnterAsOwner
  <1>a. OwnEdit(w) /\ Unwritten(w) /\ applied[w] = 0
    BY DEF IInv, EditInv, ProgressInv, EnterAsOwner
  <1>b. /\ edit' \in [Writers -> Seq(Writers)]
        /\ Len(edit'[w]) = 1
        /\ edit'[w][1] = w
        /\ \A x \in Writers : x # w => edit'[x] = edit[x]
        /\ last_writer' \in [Writers -> Writers]
        /\ last_writer'[w] = w
    <2>1. /\ edit' = Merged(edit, w, writers')
          /\ last_writer' = [last_writer EXCEPT ![w] = writers'[Len(writers')]]
      BY DEF EnterAsOwner, buildWriteGroup
    <2>2. /\ edit \in [Writers -> Seq(Writers)]
          /\ last_writer \in [Writers -> Writers]
      BY DEF IInv, TypeOK
    <2>3. \A i \in 1 .. Len(writers') :
            Len(edit[writers'[i]]) = 1 /\ edit[writers'[i]][1] = writers'[i]
      BY <1>0, <1>a DEF OwnEdit
    <2>5. Len(writers') > 0
      BY <1>0
    <2>4. LET f == Merged(edit, w, writers') IN
          /\ f \in [Writers -> Seq(Writers)]
          /\ Len(f[w]) = Len(writers')
          /\ \A i \in 1 .. Len(writers') : f[w][i] = writers'[i]
          /\ \A x \in Writers :
                x # w /\ (\A i \in 1 .. Len(writers') : writers'[i] # x)
                => f[x] = edit[x]
      BY <1>0, <2>2, <2>3, <2>5, Merge, ZenonT(40)
    <2> QED BY <1>0, <2>1, <2>2, <2>4
  <1>c. pc' = [pc EXCEPT ![w] = "owner"] /\ pc[w] = "idle"
        /\ UNCHANGED <<done, success, base, applied, sequence, wal, mem>>
    BY DEF EnterAsOwner, buildWriteGroup
  <1>1. TypeOK'
    BY <1>0, <1>b, <1>c, Zenon DEF IInv, TypeOK
  <1>2. QueueInv'
    <2>1. \A x \in Writers : x # w =>
            /\ pc[x] \notin {"blocked"} \cup Owning
            /\ ~(pc[x] = "notified" /\ ~done[x])
      BY <1>0 DEF IInv, QueueInv
    <2>2. w \in Queued'
      BY <1>0
    <2>3. ~done[w]
      BY <1>c DEF IInv, QueueInv
    <2> QED BY <1>0, <1>c, <2>1, <2>2, <2>3 DEF IInv, TypeOK, QueueInv
  <1>3. HeadInv'
    BY <1>0, <1>c DEF IInv, TypeOK, QueueInv, HeadInv
  <1>4. EditInv'
    <2>1. \A x \in Writers : pc'[x] = "idle" => OwnEdit(x)' /\ Unwritten(x)'
      BY <1>b, <1>c DEF IInv, TypeOK, EditInv, OwnEdit, Unwritten
    <2>2. \A i \in 1 .. Len(writers') : ~Unmerged(i)'
      BY <1>0, <1>b, <1>c DEF IInv, TypeOK, Unmerged
    <2>3. \A x \in Writers : pc'[x] \in Owning => x = w
      BY <1>0, <1>c DEF IInv, TypeOK, HeadInv
    <2>4. /\ Len(edit'[w]) \in 1 .. Len(writers')
          /\ last_writer'[w] = writers'[Len(edit'[w])]
          /\ \A i \in 1 .. Len(edit'[w]) : edit'[w][i] = writers'[i]
      BY <1>0, <1>b
    <2> QED BY <2>1, <2>2, <2>3, <2>4 DEF EditInv
  <1>5. ProgressInv'
    <2>1. \A x \in Writers : pc'[x] \in Owning => x = w
      BY <1>0, <1>c DEF IInv, TypeOK, HeadInv
    <2>2. pc'[w] = "owner" /\ \A x \in Writers : x # w => pc'[x] = pc[x]
      BY <1>c DEF IInv, TypeOK
    <2>3. \A i \in 1 .. Len(edit'[w]) : Unwritten(edit[w][i])'
      BY <1>a, <1>b, <1>c DEF Unwritten
    <2> QED BY <1>a, <1>c, <2>1, <2>2, <2>3 DEF IInv, ProgressInv
  <1>6. AckInv'
    BY <1>c, Zenon DEF IInv, TypeOK, AckInv, Durable
  <1>7. EachRecordOnce'
    BY <1>c DEF IInv, EachRecordOnce
  <1> QED BY <1>1, <1>2, <1>3, <1>4, <1>5, <1>6, <1>7 DEF IInv

\* A call of apply that finds the queue not empty sleeps at its end.
LEMMA EnterAndWaitIInv ==
  ASSUME IInv, NEW w \in Writers, EnterAndWait(w)
  PROVE  IInv'
  <1>0. /\ writers' \in Seq(Writers)
        /\ Len(writers') = Len(writers) + 1
        /\ Len(writers) > 0
        /\ \A i \in 1 .. Len(writers) : writers'[i] = writers[i]
        /\ writers'[Len(writers')] = w
    BY DEF IInv, TypeOK, EnterAndWait
  <1>a. /\ OwnEdit(w) /\ Unwritten(w) /\ applied[w] = 0 /\ ~done[w]
        /\ \A i \in 1 .. Len(writers) : writers[i] # w
    BY DEF IInv, EditInv, ProgressInv, QueueInv, EnterAndWait
  <1>b. /\ pc[w] = "idle" /\ pc' = [pc EXCEPT ![w] = "blocked"]
        /\ UNCHANGED <<edit, last_writer, done, success, base, applied,
                       sequence, wal, mem>>
    BY DEF EnterAndWait
  <1>c. \A i \in 1 .. Len(writers) : pc'[writers[i]] = pc[writers[i]]
    BY <1>a, <1>b, SMTT(30) DEF IInv, TypeOK
  <1>d. /\ \A i \in 1 .. Len(writers') :
              i \in 1 .. Len(writers) \/ (i = Len(writers') /\ writers'[i] = w)
        /\ \A i \in 1 .. Len(writers) : i \in 1 .. Len(writers')
        /\ Len(writers') \in 1 .. Len(writers')
        /\ 1 \in 1 .. Len(writers)
    <2>1. Len(writers) \in Nat
      BY DEF IInv, TypeOK
    <2> QED BY <1>0, <2>1
  <1>1. TypeOK'
    BY <1>0, <1>b, Zenon DEF IInv, TypeOK
  <1>2. QueueInv'
    <2>1. \A i, j \in 1 .. Len(writers') : writers'[i] = writers'[j] => i = j
      BY <1>0, <1>a, <1>d DEF IInv, QueueInv
    <2>2. \A i \in 1 .. Len(writers') :
            /\ pc'[writers'[i]] \in {"blocked", "notified"} \cup Owning
            /\ ~done'[writers'[i]]
      <3> SUFFICES ASSUME NEW i \in 1 .. Len(writers')
                   PROVE  /\ pc'[writers'[i]] \in {"blocked", "notified"} \cup Owning
                          /\ ~done'[writers'[i]]
        OBVIOUS
      <3>1. CASE i \in 1 .. Len(writers)
        BY <1>0, <1>b, <1>c, <3>1 DEF IInv, QueueInv
      <3>2. CASE writers'[i] = w
        BY <1>a, <1>b, <3>2 DEF IInv, TypeOK
      <3> QED BY <1>d, <3>1, <3>2
    <2>3. Queued \subseteq Queued' /\ w \in Queued'
      BY <1>0, <1>d
    <2> QED BY <1>a, <1>b, <2>1, <2>2, <2>3, Zenon DEF IInv, QueueInv, TypeOK
  <1>3. HeadInv'
    <2>1. writers'[1] = writers[1] /\ pc'[writers[1]] = pc[writers[1]]
      BY <1>0, <1>c, <1>d
    <2>2. \A x \in Writers : pc'[x] \in Owning => pc[x] \in Owning
      BY <1>b DEF IInv, TypeOK
    <2>3. pc[writers[1]] # "blocked"
      BY <1>0 DEF IInv, HeadInv
    <2>4. Len(writers') > 0
      BY <1>0, <1>d
    <2> QED BY <2>1, <2>2, <2>3, <2>4 DEF IInv, HeadInv
  <1>4. EditInv'
    <2>1. \A x \in Writers : pc'[x] = "idle" => OwnEdit(x)' /\ Unwritten(x)'
      BY <1>b DEF IInv, TypeOK, EditInv, OwnEdit, Unwritten
    <2>2. \A i \in 1 .. Len(writers) : Unmerged(i)' => Unmerged(i)
      BY <1>0, <1>b, <1>c, <1>d DEF Unmerged
    <2>3. \A i \in 1 .. Len(writers') :
            Unmerged(i)' => OwnEdit(writers[i])' /\ Unwritten(writers[i])'
      <3> SUFFICES ASSUME NEW i \in 1 .. Len(writers'), Unmerged(i)'
                   PROVE  OwnEdit(writers[i])' /\ Unwritten(writers[i])'
        OBVIOUS
      <3>1. CASE i \in 1 .. Len(writers)
        <4>1. OwnEdit(writers[i]) /\ Unwritten(writers[i])
          BY <2>2, <3>1 DEF IInv, EditInv
        <4> QED BY <1>0, <1>b, <3>1, <4>1 DEF OwnEdit, Unwritten
      <3>2. CASE writers'[i] = w
        BY <1>a, <1>b, <3>2 DEF OwnEdit, Unwritten
      <3> QED BY <1>d, <3>1, <3>2
    <2>4. \A x \in Writers : pc'[x] \in Owning =>
          /\ Len(edit'[x]) \in 1 .. Len(writers')
          /\ last_writer'[x] = writers'[Len(edit'[x])]
          /\ \A i \in 1 .. Len(edit'[x]) : edit'[x][i] = writers'[i]
      <3> SUFFICES ASSUME NEW x \in Writers, pc'[x] \in Owning
                   PROVE  /\ Len(edit'[x]) \in 1 .. Len(writers')
                          /\ last_writer'[x] = writers'[Len(edit'[x])]
                          /\ \A i \in 1 .. Len(edit'[x]) : edit'[x][i] = writers'[i]
        OBVIOUS
      <3>1. pc[x] \in Owning
        BY <1>b DEF IInv, TypeOK
      <3>2. /\ Len(edit[x]) \in 1 .. Len(writers)
            /\ last_writer[x] = writers[Len(edit[x])]
            /\ \A i \in 1 .. Len(edit[x]) : edit[x][i] = writers[i]
        BY <3>1 DEF IInv, EditInv
      <3>3. \A i \in 1 .. Len(edit[x]) : i \in 1 .. Len(writers)
        BY <3>2 DEF IInv, TypeOK
      <3> QED BY <1>0, <1>b, <1>d, <3>2, <3>3
    <2> QED BY <2>1, <2>3, <2>4 DEF EditInv
  <1>5. ProgressInv'
    <2>1. \A x \in Writers : x # w => pc'[x] = pc[x]
      BY <1>b DEF IInv, TypeOK
    <2>2. pc'[w] = "blocked"
      BY <1>b DEF IInv, TypeOK
    <2> QED BY <1>a, <1>b, <2>1, <2>2 DEF IInv, ProgressInv, OnlyAt, Unwritten
  <1>6. AckInv'
    BY <1>b, Zenon DEF IInv, TypeOK, AckInv, Durable
  <1>7. EachRecordOnce'
    BY <1>b DEF IInv, EachRecordOnce
  <1> QED BY <1>1, <1>2, <1>3, <1>4, <1>5, <1>6, <1>7 DEF IInv

\* The steps that only move w between "blocked", "notified" and the end of
\* apply.
LEMMA WaitIInv ==
  ASSUME IInv, NEW w \in Writers,
         SpuriousWakeup(w) \/ AwakeDone(w) \/ AwakeTooEarly(w)
  PROVE  IInv'
  <1>a. /\ UNCHANGED <<writers, edit, last_writer, done, success, base,
                       applied, sequence, wal, mem>>
        /\ \A x \in Writers : x # w => pc'[x] = pc[x]
        /\ pc' \in [Writers -> PCs]
    BY Zenon DEF IInv, TypeOK, SpuriousWakeup, AwakeDone, AwakeTooEarly
  <1>b. \/ pc[w] = "blocked" /\ pc'[w] = "notified"
        \/ pc[w] = "notified" /\ done[w] /\ pc'[w] = "returned" /\ success[w]
        \/ pc[w] = "notified" /\ done[w] /\ pc'[w] = "threw"
        \/ pc[w] = "notified" /\ ~done[w] /\ pc'[w] = "blocked"
           /\ w # writers[1]
    BY DEF IInv, TypeOK, SpuriousWakeup, AwakeDone, AwakeTooEarly, QueueInv
  <1>c. /\ \A x \in Writers : pc'[x] \in Owning <=> pc[x] \in Owning
        /\ \A x \in Writers : pc'[x] \in Owning \cup {"idle"} => pc'[x] = pc[x]
    BY <1>a, <1>b
  <1>1. TypeOK'
    BY <1>a, Zenon DEF IInv, TypeOK
  <1>2. QueueInv'
    <2>1. Queued' = Queued
      BY <1>a
    <2>2. \A i \in 1 .. Len(writers) :
            pc'[writers[i]] \in {"blocked", "notified"} \cup Owning
      <3>1. \A i \in 1 .. Len(writers) : writers[i] \in Writers
        BY DEF IInv, TypeOK
      <3>2. \A i \in 1 .. Len(writers) :
              /\ pc[writers[i]] \in {"blocked", "notified"} \cup Owning
              /\ ~done[writers[i]]
        BY DEF IInv, QueueInv
      <3> QED BY <1>a, <1>b, <3>1, <3>2
    <2>3. \A x \in Writers :
            /\ pc'[x] \in {"blocked"} \cup Owning => x \in Queued
            /\ pc'[x] = "notified" /\ ~done[x] => x \in Queued
            /\ done[x] => pc'[x] \in {"notified", "returned", "threw"}
      <3> SUFFICES ASSUME NEW x \in Writers
                   PROVE  /\ pc'[x] \in {"blocked"} \cup Owning => x \in Queued
                          /\ pc'[x] = "notified" /\ ~done[x] => x \in Queued
                          /\ done[x] => pc'[x] \in {"notified", "returned", "threw"}
        OBVIOUS
      <3> HIDE DEF Queued
      <3>1. CASE x = w
        BY <1>b, <3>1 DEF IInv, QueueInv
      <3>2. CASE x # w
        BY <1>a, <3>2 DEF IInv, QueueInv
      <3> QED BY <3>1, <3>2
    <2> QED BY <1>a, <2>1, <2>2, <2>3 DEF IInv, QueueInv
  <1>3. HeadInv'
    BY <1>a, <1>b DEF IInv, TypeOK, HeadInv
  <1>4. EditInv'
    <2>1. \A i \in 1 .. Len(writers) : Unmerged(i)' = Unmerged(i)
      BY <1>a, <1>c, SMTT(30) DEF IInv, TypeOK, Unmerged
    <2> QED BY <1>a, <1>c, <2>1 DEF IInv, EditInv, OwnEdit, Unwritten
  <1>5. ProgressInv'
    BY <1>a, <1>b, <1>c, SMTT(30) DEF IInv, ProgressInv, OnlyAt, Unwritten
  <1>6. AckInv'
    BY <1>a, <1>b, Zenon DEF IInv, TypeOK, AckInv, Durable
  <1>7. EachRecordOnce'
    BY <1>a DEF IInv, EachRecordOnce
  <1> QED BY <1>1, <1>2, <1>3, <1>4, <1>5, <1>6, <1>7 DEF IInv

\* A woken writer at the head of the queue merges the whole queue into its edit.
LEMMA AwakeAsOwnerIInv ==
  ASSUME IInv, NEW w \in Writers, AwakeAsOwner(w)
  PROVE  IInv'
  <1>a. /\ pc[w] = "notified" /\ ~done[w] /\ w = Head(writers)
        /\ pc' = [pc EXCEPT ![w] = "owner"]
        /\ edit' = Merged(edit, w, writers)
        /\ last_writer' = [last_writer EXCEPT ![w] = writers[Len(writers)]]
        /\ UNCHANGED <<writers, done, success, base, applied, sequence, wal, mem>>
    BY DEF AwakeAsOwner, buildWriteGroup
  <1>b. /\ writers \in Seq(Writers) /\ edit \in [Writers -> Seq(Writers)]
        /\ last_writer \in [Writers -> Writers]
        /\ pc \in [Writers -> PCs]
    BY DEF IInv, TypeOK
  <1>c. Len(writers) > 0 /\ Len(writers) \in Nat
        /\ \A i \in 1 .. Len(writers) : writers[i] \in Writers
    BY <1>a, <1>b DEF IInv, QueueInv
  <1>d. writers[1] = w
    BY <1>a, <1>b, <1>c
  <1>e. /\ pc'[w] = "owner"
        /\ \A x \in Writers : x # w => pc'[x] = pc[x] /\ pc[x] \notin Owning
    BY <1>a, <1>b, <1>d DEF IInv, HeadInv
  <1>f. \A i \in 1 .. Len(writers) :
          /\ OwnEdit(writers[i])
          /\ Unwritten(writers[i])
          /\ Len(edit[writers[i]]) = 1 /\ edit[writers[i]][1] = writers[i]
    BY <1>a, <1>d DEF IInv, EditInv, Unmerged, OwnEdit
  <1>g. LET f == Merged(edit, w, writers) IN
        /\ f \in [Writers -> Seq(Writers)]
        /\ Len(f[w]) = Len(writers)
        /\ \A i \in 1 .. Len(writers) : f[w][i] = writers[i]
        /\ \A x \in Writers :
              x # w /\ (\A i \in 1 .. Len(writers) : writers[i] # x)
              => f[x] = edit[x]
    BY <1>b, <1>c, <1>f, Merge, ZenonT(40)
  <1>1. TypeOK'
    <2>1. pc' \in [Writers -> PCs]
      BY <1>a, <1>b
    <2>2. last_writer' \in [Writers -> Writers]
      BY <1>a, <1>b, <1>c
    <2> QED BY <1>a, <1>g, <2>1, <2>2, Zenon DEF IInv, TypeOK
  <1>2. QueueInv'
    <2>1. Queued' = Queued /\ w \in Queued
      BY <1>a, <1>c, <1>d
    <2>2. \A i \in 1 .. Len(writers) :
            /\ pc'[writers[i]] \in {"blocked", "notified"} \cup Owning
            /\ ~done[writers[i]]
      BY <1>a, <1>c, <1>e DEF IInv, QueueInv
    <2>3. \A x \in Writers :
            /\ pc'[x] \in {"blocked"} \cup Owning => x \in Queued
            /\ pc'[x] = "notified" /\ ~done[x] => x \in Queued
            /\ done[x] => pc'[x] \in {"notified", "returned", "threw"}
      <3> HIDE DEF Queued
      <3> QED BY <1>a, <1>e, <2>1 DEF IInv, QueueInv
    <2> QED BY <1>a, <2>1, <2>2, <2>3 DEF IInv, QueueInv
  <1>3. HeadInv'
    BY <1>a, <1>c, <1>d, <1>e DEF HeadInv
  <1>4. EditInv'
    <2>1. \A x \in Writers : pc'[x] = "idle" => OwnEdit(x)' /\ Unwritten(x)'
      <3> SUFFICES ASSUME NEW x \in Writers, pc'[x] = "idle"
                   PROVE  OwnEdit(x)' /\ Unwritten(x)'
        OBVIOUS
      <3>1. x # w /\ pc[x] = "idle"
        BY <1>e
      <3>2. \A i \in 1 .. Len(writers) : writers[i] # x
        BY <3>1 DEF IInv, QueueInv
      <3>3. edit'[x] = edit[x]
        BY <1>a, <1>g, <3>1, <3>2
      <3> QED BY <1>a, <3>1, <3>3 DEF IInv, EditInv, OwnEdit, Unwritten
    <2>2. \A i \in 1 .. Len(writers') : ~Unmerged(i)'
      BY <1>a, <1>c, <1>d, <1>e, <1>g DEF Unmerged
    <2>3. \A x \in Writers : pc'[x] \in Owning => x = w
      BY <1>e
    <2>4. /\ Len(edit'[w]) \in 1 .. Len(writers')
          /\ last_writer'[w] = writers'[Len(edit'[w])]
          /\ \A i \in 1 .. Len(edit'[w]) : edit'[w][i] = writers'[i]
      BY <1>a, <1>b, <1>c, <1>g
    <2> QED BY <2>1, <2>2, <2>3, <2>4 DEF EditInv
  <1>5. ProgressInv'
    <2>1. \A i \in 1 .. Len(edit'[w]) : Unwritten(edit[w][i])'
      BY <1>a, <1>f, <1>g, SMTT(30) DEF Unwritten
    <2>2. applied[w] = 0
      BY <1>a, Zenon DEF IInv, ProgressInv
    <2> QED BY <1>a, <1>e, <2>1, <2>2, SMTT(30) DEF IInv, ProgressInv
  <1>6. AckInv'
    BY <1>a, <1>e DEF IInv, AckInv, Durable
  <1>7. EachRecordOnce'
    BY <1>a DEF IInv, EachRecordOnce
  <1> QED BY <1>1, <1>2, <1>3, <1>4, <1>5, <1>6, <1>7 DEF IInv

\* What a step of the owner cannot disturb while it stays the owner.
LEMMA OwnerStep ==
  ASSUME IInv, NEW w \in Writers, pc[w] \in Owning,
         pc' \in [Writers -> PCs], pc'[w] \in Owning,
         \A x \in Writers : x # w => pc'[x] = pc[x],
         UNCHANGED <<writers, edit, last_writer, done, success>>
  PROVE  /\ QueueInv' /\ HeadInv'
         /\ \A i \in 1 .. Len(writers) : Unmerged(i)' = Unmerged(i)
         /\ \A x \in Writers : x # w => pc[x] \notin Owning
         /\ Len(writers) \in Nat /\ Len(writers) > 0 /\ writers[1] = w
         /\ Len(edit[w]) \in 1 .. Len(writers)
         /\ \A i \in 1 .. Len(edit[w]) :
               /\ i \in 1 .. Len(writers)
               /\ edit[w][i] = writers[i] /\ writers[i] \in Writers
         /\ \A i, j \in 1 .. Len(edit[w]) : edit[w][i] = edit[w][j] => i = j
  <1>1. Len(writers) > 0 /\ writers[1] = w
    BY DEF IInv, HeadInv
  <1>2. \A x \in Writers : x # w => pc[x] \notin Owning
    BY <1>1 DEF IInv, HeadInv
  <1>3. HeadInv'
    BY <1>1, <1>2 DEF HeadInv
  <1>4. QueueInv'
    <2>1. \A i \in 1 .. Len(writers) : writers[i] \in Writers
      BY DEF IInv, TypeOK
    <2>2. \A i \in 1 .. Len(writers) :
            /\ pc'[writers[i]] \in {"blocked", "notified"} \cup Owning
            /\ ~done[writers[i]]
      BY <2>1 DEF IInv, QueueInv
    <2>3. Queued' = Queued
      OBVIOUS
    <2>4. \A x \in Writers :
            /\ pc'[x] \in {"blocked"} \cup Owning => x \in Queued
            /\ pc'[x] = "notified" /\ ~done[x] => x \in Queued
            /\ done[x] => pc'[x] \in {"notified", "returned", "threw"}
      <3> HIDE DEF Queued
      <3> QED BY DEF IInv, QueueInv
    <2> QED BY <2>2, <2>3, <2>4 DEF IInv, QueueInv
  <1>5. \A i \in 1 .. Len(writers) : Unmerged(i)' = Unmerged(i)
    BY <1>1 DEF Unmerged
  <1>6. Len(writers) \in Nat /\ \A i \in 1 .. Len(writers) : writers[i] \in Writers
    BY DEF IInv, TypeOK
  <1>7. /\ Len(edit[w]) \in 1 .. Len(writers)
        /\ \A i \in 1 .. Len(edit[w]) : edit[w][i] = writers[i]
    BY DEF IInv, EditInv
  <1>8. \A i \in 1 .. Len(edit[w]) : i \in 1 .. Len(writers)
    BY <1>6, <1>7
  <1>9. \A i, j \in 1 .. Len(edit[w]) : edit[w][i] = edit[w][j] => i = j
    BY <1>7, <1>8 DEF IInv, QueueInv
  <1> QED BY <1>1, <1>2, <1>3, <1>4, <1>5, <1>6, <1>7, <1>8, <1>9

\* Writing the owner's records under the versions seq + i touches no record
\* outside its group and writes each of them once.
LEMMA LogWrite ==
  ASSUME IInv, NEW w \in Writers, pc[w] = "owner",
         wal' = wal \cup Numbered(w, sequence), mem' = mem,
         \A i, j \in 1 .. Len(edit[w]) : edit[w][i] = edit[w][j] => i = j,
         \A i \in 1 .. Len(edit[w]) : edit[w][i] \in Writers
  PROVE  /\ wal' \subseteq Writers \X Nat
         /\ \A i \in 1 .. Len(edit[w]) :
               /\ <<edit[w][i], sequence + i>> \in wal'
               /\ \A p \in wal' \cup mem' :
                     p[1] = edit[w][i] => p[2] = sequence + i
         /\ \A x \in Writers :
               Unwritten(x) /\ (\A i \in 1 .. Len(edit[w]) : edit[w][i] # x)
               => \A p \in wal' \cup mem' : p[1] # x
         /\ EachRecordOnce'
  <1>0. /\ edit[w] \in Seq(Writers) /\ DOMAIN edit[w] = 1 .. Len(edit[w])
        /\ sequence \in Nat /\ Len(edit[w]) \in Nat
        /\ wal \subseteq Writers \X Nat /\ mem \subseteq Writers \X Nat
    BY DEF IInv, TypeOK
  <1>1. wal' = wal \cup {<<edit[w][i], sequence + i>> : i \in 1 .. Len(edit[w])}
    BY <1>0 DEF Numbered
  <1>2. \A i \in 1 .. Len(edit[w]) : <<edit[w][i], sequence + i>> \in Writers \X Nat
    BY <1>0
  <1>3. \A i \in 1 .. Len(edit[w]) : \A p \in wal \cup mem : p[1] # edit[w][i]
    BY DEF IInv, ProgressInv, Unwritten
  <1>4. wal' \subseteq Writers \X Nat
    BY <1>0, <1>1, <1>2
  <1>5. \A p \in wal' \cup mem' :
          \/ p \in wal \cup mem
          \/ \E i \in 1 .. Len(edit[w]) : p = <<edit[w][i], sequence + i>>
    BY <1>1
  <1>6. \A i \in 1 .. Len(edit[w]) :
          \A p \in wal' \cup mem' : p[1] = edit[w][i] => p[2] = sequence + i
    BY <1>3, <1>5
  <1>7. \A x \in Writers :
          Unwritten(x) /\ (\A i \in 1 .. Len(edit[w]) : edit[w][i] # x)
          => \A p \in wal' \cup mem' : p[1] # x
    BY <1>5 DEF Unwritten
  <1>8. EachRecordOnce'
    <2> SUFFICES ASSUME NEW p \in wal' \cup mem', NEW q \in wal' \cup mem',
                        p[1] = q[1]
                 PROVE  p = q
      BY DEF EachRecordOnce
    <2>1. CASE p \in wal \cup mem /\ q \in wal \cup mem
      BY <2>1 DEF IInv, EachRecordOnce
    <2>2. CASE \E i \in 1 .. Len(edit[w]) : p[1] = edit[w][i]
      <3>1. p[2] = q[2]
        BY <1>6, <2>2, Zenon
      <3>2. p \in Writers \X Nat /\ q \in Writers \X Nat
        BY <1>0, <1>4
      <3> QED BY <3>1, <3>2
    <2>3. (\E i \in 1 .. Len(edit[w]) : p[1] = edit[w][i])
          \/ (p \in wal \cup mem /\ q \in wal \cup mem)
      BY <1>5
    <2> QED BY <2>1, <2>2, <2>3
  <1>9. \A i \in 1 .. Len(edit[w]) : <<edit[w][i], sequence + i>> \in wal'
    BY <1>1
  <1> QED BY <1>4, <1>6, <1>7, <1>8, <1>9

\* The owner numbers its records after `sequence` and writes them to the WAL, or fails
\* to.
LEMMA WalIInv ==
  ASSUME IInv, NEW w \in Writers, WalApply(w) \/ WalFail(w)
  PROVE  IInv'
  <1>a. /\ pc[w] = "owner"
        /\ UNCHANGED <<writers, edit, last_writer, done, success, applied,
                       sequence, mem>>
    BY DEF WalApply, WalFail
  <1>b. /\ pc \in [Writers -> PCs] /\ base \in [Writers -> Nat]
        /\ sequence \in Nat /\ applied[w] = 0 /\ edit[w] \in Seq(Writers)
    BY <1>a DEF IInv, TypeOK, ProgressInv
  <1>c. /\ pc' \in [Writers -> PCs] /\ pc'[w] \in {"logged", "failing"}
        /\ \A x \in Writers : x # w => pc'[x] = pc[x]
        /\ base' \in [Writers -> Nat]
        /\ pc'[w] = "logged" =>
              base'[w] = sequence /\ wal' = wal \cup Numbered(w, sequence)
        /\ wal' = wal \/ wal' = wal \cup Numbered(w, sequence)
    BY <1>b, Zenon DEF WalApply, WalFail
  <1>d. /\ QueueInv' /\ HeadInv'
        /\ \A i \in 1 .. Len(writers) : Unmerged(i)' = Unmerged(i)
        /\ \A x \in Writers : x # w => pc[x] \notin Owning
        /\ Len(writers) \in Nat /\ Len(writers) > 0 /\ writers[1] = w
        /\ Len(edit[w]) \in 1 .. Len(writers)
        /\ \A i \in 1 .. Len(edit[w]) :
              /\ i \in 1 .. Len(writers)
              /\ edit[w][i] = writers[i] /\ writers[i] \in Writers
        /\ \A i, j \in 1 .. Len(edit[w]) : edit[w][i] = edit[w][j] => i = j
    BY <1>a, <1>c, OwnerStep, Zenon
  <1>e. /\ wal' \subseteq Writers \X Nat
        /\ pc'[w] = "logged" =>
              \A i \in 1 .. Len(edit[w]) :
                /\ <<edit[w][i], sequence + i>> \in wal'
                /\ \A p \in wal' \cup mem' :
                      p[1] = edit[w][i] => p[2] = sequence + i
        /\ \A x \in Writers :
              Unwritten(x) /\ (\A i \in 1 .. Len(edit[w]) : edit[w][i] # x)
              => \A p \in wal' \cup mem' : p[1] # x
        /\ EachRecordOnce'
    <2>1. CASE wal' = wal \cup Numbered(w, sequence)
      BY <1>a, <1>d, <2>1, LogWrite, Zenon
    <2>2. CASE wal' = wal /\ pc'[w] # "logged"
      <3>1. wal \subseteq Writers \X Nat
        BY DEF IInv, TypeOK
      <3> QED BY <1>a, <2>2, <3>1 DEF IInv, EachRecordOnce, Unwritten
    <2> QED BY <1>c, <2>1, <2>2
  <1>1. TypeOK'
    BY <1>a, <1>c, <1>e, Zenon DEF IInv, TypeOK
  <1>4. EditInv'
    <2>1. \A x \in Writers : pc'[x] = "idle" => OwnEdit(x)' /\ Unwritten(x)'
      <3> SUFFICES ASSUME NEW x \in Writers, pc'[x] = "idle"
                   PROVE  OwnEdit(x)' /\ Unwritten(x)'
        OBVIOUS
      <3>1. pc[x] = "idle"
        BY <1>c
      <3>2. \A i \in 1 .. Len(edit[w]) : edit[w][i] # x
        BY <1>d, <3>1 DEF IInv, QueueInv
      <3>3. OwnEdit(x) /\ Unwritten(x)
        BY <3>1 DEF IInv, EditInv
      <3> QED BY <1>a, <1>e, <3>2, <3>3 DEF OwnEdit, Unwritten
    <2>2. \A i \in 1 .. Len(writers') :
            Unmerged(i)' => OwnEdit(writers[i])' /\ Unwritten(writers[i])'
      <3> SUFFICES ASSUME NEW i \in 1 .. Len(writers), Unmerged(i)
                   PROVE  OwnEdit(writers[i])' /\ Unwritten(writers[i])'
        BY <1>a, <1>d
      <3>1. i > Len(edit[w])
        BY <1>a, <1>d DEF Unmerged
      <3>2. \A j \in 1 .. Len(edit[w]) : writers[j] # writers[i]
        BY <1>d, <3>1, SMTT(30) DEF IInv, QueueInv
      <3>3. OwnEdit(writers[i]) /\ Unwritten(writers[i])
        BY DEF IInv, EditInv
      <3>4. writers[i] \in Writers
        BY DEF IInv, TypeOK
      <3> QED BY <1>a, <1>d, <1>e, <3>2, <3>3, <3>4 DEF OwnEdit, Unwritten
    <2>3. \A x \in Writers : pc'[x] \in Owning => x = w
      BY <1>c, <1>d
    <2>4. /\ Len(edit[w]) \in 1 .. Len(writers)
          /\ last_writer[w] = writers[Len(edit[w])]
          /\ \A i \in 1 .. Len(edit[w]) : edit[w][i] = writers[i]
      BY <1>a DEF IInv, EditInv
    <2> QED BY <1>a, <2>1, <2>2, <2>3, <2>4 DEF EditInv
  <1>5. ProgressInv'
    <2>1. \A x \in Writers : pc'[x] \in Owning => x = w
      BY <1>c, <1>d
    <2>2. pc'[w] = "logged" =>
            /\ base'[w] = sequence'
            /\ applied'[w] <= Len(edit'[w])
            /\ \A i \in 1 .. Len(edit'[w]) :
                  /\ <<edit'[w][i], base'[w] + i>> \in wal'
                  /\ i <= applied'[w] => <<edit'[w][i], base'[w] + i>> \in mem'
                  /\ OnlyAt(w, i, base[w] + i)'
      <3>1. \A i \in 1 .. Len(edit[w]) : ~(i <= applied[w])
        BY <1>b
      <3> QED BY <1>a, <1>b, <1>c, <1>e, <3>1, SMTT(30) DEF OnlyAt
    <2> QED BY <1>a, <1>c, <2>1, <2>2, Zenon DEF IInv, ProgressInv
  <1>6. AckInv'
    BY <1>a, <1>c, Zenon DEF IInv, AckInv, Durable
  <1> QED BY <1>d, <1>e, <1>1, <1>4, <1>5, <1>6 DEF IInv

\* The owner applies one record to the MVCC table under the version it has in the
\* WAL.
LEMMA CommitRecordIInv ==
  ASSUME IInv, NEW w \in Writers, CommitRecord(w)
  PROVE  IInv'
  <1> DEFINE k == applied[w] + 1
             new == <<edit[w][k], base[w] + k>>
  <1>a. /\ pc[w] = "logged" /\ pc' = pc
        /\ UNCHANGED <<writers, edit, last_writer, done, success, base,
                       sequence, wal>>
        /\ mem' = mem \cup {new}
        /\ applied' = [applied EXCEPT ![w] = k]
        /\ applied[w] < Len(edit[w])
    BY DEF CommitRecord
  <1>b. /\ pc \in [Writers -> PCs] /\ base[w] \in Nat /\ applied[w] \in Nat
        /\ applied \in [Writers -> Nat]
        /\ sequence \in Nat /\ edit[w] \in Seq(Writers) /\ Len(edit[w]) \in Nat
        /\ wal \subseteq Writers \X Nat /\ mem \subseteq Writers \X Nat
    BY DEF IInv, TypeOK
  <1>c. k \in 1 .. Len(edit[w]) /\ k \in Nat /\ base[w] + k \in Nat
    BY <1>a, <1>b
  <1>d. /\ QueueInv' /\ HeadInv'
        /\ \A i \in 1 .. Len(writers) : Unmerged(i)' = Unmerged(i)
        /\ \A x \in Writers : x # w => pc[x] \notin Owning
        /\ Len(writers) \in Nat /\ Len(writers) > 0 /\ writers[1] = w
        /\ Len(edit[w]) \in 1 .. Len(writers)
        /\ \A i \in 1 .. Len(edit[w]) :
              /\ i \in 1 .. Len(writers)
              /\ edit[w][i] = writers[i] /\ writers[i] \in Writers
        /\ \A i, j \in 1 .. Len(edit[w]) : edit[w][i] = edit[w][j] => i = j
    BY <1>a, <1>b, OwnerStep
  <1>e. /\ base[w] = sequence
        /\ \A i \in 1 .. Len(edit[w]) :
              /\ <<edit[w][i], base[w] + i>> \in wal
              /\ i <= applied[w] => <<edit[w][i], base[w] + i>> \in mem
              /\ \A p \in wal \cup mem : p[1] = edit[w][i] => p[2] = base[w] + i
    BY <1>a DEF IInv, ProgressInv, OnlyAt
  <1>f. new \in Writers \X Nat /\ new \in wal
    BY <1>c, <1>d, <1>e, Zenon
  <1> HIDE DEF k
  <1>g. wal' \cup mem' = wal \cup mem
    BY <1>a, <1>f
  <1>1. TypeOK'
    <2>1. mem' \subseteq Writers \X Nat /\ applied' \in [Writers -> Nat]
      BY <1>a, <1>b, <1>c, <1>f, Zenon
    <2> QED BY <1>a, <2>1, Zenon DEF IInv, TypeOK
  <1>4. EditInv'
    <2>1. \A x \in Writers : Unwritten(x)' = Unwritten(x)
      BY <1>g DEF Unwritten
    <2>2. \A i \in 1 .. Len(writers) : writers[i] \in Writers
      BY DEF IInv, TypeOK
    <2>3. \A x \in Writers : OwnEdit(x)' = OwnEdit(x)
      BY <1>a DEF OwnEdit
    <2>4. \A x \in Writers : pc'[x] = "idle" => OwnEdit(x)' /\ Unwritten(x)'
      BY <1>a, <2>1, <2>3 DEF IInv, EditInv
    <2>5. \A i \in 1 .. Len(writers) :
            Unmerged(i)' => OwnEdit(writers[i]) /\ Unwritten(writers[i])
      BY <1>d, Zenon DEF IInv, EditInv
    <2>6. \A i \in 1 .. Len(writers') :
            Unmerged(i)' => OwnEdit(writers[i])' /\ Unwritten(writers[i])'
      BY <1>a, <1>g, <2>5 DEF OwnEdit, Unwritten
    <2> QED BY <1>a, <2>4, <2>6 DEF IInv, EditInv
  <1>5. ProgressInv'
    <2>1. \A x \in Writers : pc'[x] \in Owning => x = w
      BY <1>a, <1>d, Zenon
    <2>2. /\ base'[w] = sequence'
          /\ applied'[w] <= Len(edit'[w])
          /\ \A i \in 1 .. Len(edit'[w]) :
                /\ <<edit'[w][i], base'[w] + i>> \in wal'
                /\ i <= applied'[w] => <<edit'[w][i], base'[w] + i>> \in mem'
                /\ OnlyAt(w, i, base[w] + i)'
      <3>1. applied'[w] = k
        BY <1>a, <1>b
      <3>2. \A i \in 1 .. Len(edit[w]) : i <= k => i <= applied[w] \/ i = k
        BY <1>b DEF k
      <3>3. k <= Len(edit[w])
        BY <1>c
      <3>4. \A i \in 1 .. Len(edit[w]) : OnlyAt(w, i, base[w] + i)'
        BY <1>a, <1>e, <1>g, Zenon DEF OnlyAt
      <3>5. new \in mem' /\ mem \subseteq mem'
        BY <1>a
      <3>6. ASSUME NEW i \in 1 .. Len(edit[w]), i <= k
            PROVE  <<edit[w][i], base[w] + i>> \in mem'
        <4>1. CASE i <= applied[w]
          BY <1>e, <3>5, <4>1
        <4>2. CASE i = k
          BY <3>5, <4>2
        <4> QED BY <3>2, <3>6, <4>1, <4>2
      <3>7. \A i \in 1 .. Len(edit[w]) : <<edit[w][i], base[w] + i>> \in wal'
        BY <1>a, <1>e
      <3>8. edit' = edit /\ base' = base /\ sequence' = sequence
        BY <1>a
      <3> QED BY <1>e, <3>1, <3>3, <3>4, <3>6, <3>7, <3>8, Zenon
    <2>3. \A x \in Writers : x # w => applied'[x] = applied[x]
      BY <1>a, <1>b
    <2> QED BY <1>a, <2>1, <2>2, <2>3, Zenon DEF IInv, ProgressInv
  <1>6. AckInv'
    BY <1>a DEF IInv, AckInv, Durable
  <1>7. EachRecordOnce'
    BY <1>g DEF IInv, EachRecordOnce
  <1> QED BY <1>d, <1>1, <1>4, <1>5, <1>6, <1>7 DEF IInv

\* The owner publishes the group, or gives up when a record is refused.
LEMMA CommitEndIInv ==
  ASSUME IInv, NEW w \in Writers, CommitThrow(w) \/ Publish(w)
  PROVE  IInv'
  <1>a. /\ pc[w] = "logged"
        /\ UNCHANGED <<writers, edit, last_writer, done, success, base,
                       applied, wal, mem>>
        /\ \/ pc' = [pc EXCEPT ![w] = "failing"] /\ sequence' = sequence
           \/ /\ pc' = [pc EXCEPT ![w] = "finishing"]
              /\ applied[w] = Len(edit[w])
              /\ sequence' = sequence + Len(edit[w])
    BY DEF CommitThrow, Publish
  <1>b. /\ pc \in [Writers -> PCs] /\ sequence \in Nat /\ Len(edit[w]) \in Nat
        /\ base[w] \in Nat
    BY DEF IInv, TypeOK
  <1>c. /\ pc' \in [Writers -> PCs] /\ pc'[w] \in {"failing", "finishing"}
        /\ \A x \in Writers : x # w => pc'[x] = pc[x]
        /\ pc'[w] = "finishing" =>
              applied[w] = Len(edit[w]) /\ sequence' = sequence + Len(edit[w])
        /\ sequence' \in Nat /\ sequence <= sequence'
    BY <1>a, <1>b
  <1>d. /\ QueueInv' /\ HeadInv'
        /\ \A i \in 1 .. Len(writers) : Unmerged(i)' = Unmerged(i)
        /\ \A x \in Writers : x # w => pc[x] \notin Owning
    BY <1>a, <1>c, OwnerStep
  <1>1. TypeOK'
    BY <1>a, <1>c, Zenon DEF IInv, TypeOK
  <1>4. EditInv'
    <2>1. \A x \in Writers : pc'[x] = "idle" => pc[x] = "idle"
      BY <1>c
    <2>2. \A x \in Writers : pc'[x] \in Owning => pc[x] \in Owning
      BY <1>a, <1>c
    <2>3. \A x \in Writers : pc'[x] = "idle" => OwnEdit(x)' /\ Unwritten(x)'
      BY <1>a, <2>1 DEF IInv, EditInv, OwnEdit, Unwritten
    <2>4. \A i \in 1 .. Len(writers) :
            Unmerged(i)' => OwnEdit(writers[i])' /\ Unwritten(writers[i])'
      BY <1>a, <1>d DEF IInv, EditInv, OwnEdit, Unwritten
    <2>5. \A x \in Writers : pc'[x] \in Owning =>
            /\ Len(edit[x]) \in 1 .. Len(writers)
            /\ last_writer[x] = writers[Len(edit[x])]
            /\ \A i \in 1 .. Len(edit[x]) : edit[x][i] = writers[i]
      BY <2>2 DEF IInv, EditInv
    <2> QED BY <1>a, <2>3, <2>4, <2>5, Zenon DEF EditInv
  <1>5. ProgressInv'
    <2>1. \A x \in Writers : pc'[x] \in Owning => x = w
      BY <1>c, <1>d
    <2>2. pc'[w] = "finishing" =>
            /\ sequence' = base'[w] + Len(edit'[w])
            /\ \A i \in 1 .. Len(edit'[w]) :
                  /\ <<edit'[w][i], base'[w] + i>> \in wal'
                  /\ <<edit'[w][i], base'[w] + i>> \in mem'
      <3>1. \A i \in 1 .. Len(edit[w]) : i <= Len(edit[w])
        BY <1>b
      <3> QED BY <1>a, <1>c, <3>1, Zenon DEF IInv, ProgressInv
    <2> QED BY <1>a, <1>c, <2>1, <2>2, Zenon DEF IInv, ProgressInv
  <1>6. AckInv'
    <2>1. \A v \in 1 .. sequence : v \in 1 .. sequence'
      BY <1>b, <1>c
    <2> QED BY <1>a, <1>c, <2>1 DEF IInv, AckInv, Durable
  <1>7. EachRecordOnce'
    BY <1>a DEF IInv, EachRecordOnce
  <1> QED BY <1>d, <1>1, <1>4, <1>5, <1>6, <1>7 DEF IInv

\* The length and the elements of a queue without its first k elements.
LEMMA DropPrefix ==
  ASSUME NEW S, NEW q \in Seq(S), NEW k \in 0 .. Len(q)
  PROVE  /\ SubSeq(q, k + 1, Len(q)) \in Seq(S)
         /\ Len(SubSeq(q, k + 1, Len(q))) = Len(q) - k
         /\ \A i \in 1 .. Len(q) - k : SubSeq(q, k + 1, Len(q))[i] = q[k + i]
  <1>1. SubSeq(q, k + 1, Len(q)) \in Seq(S)
    OBVIOUS
  <1>2. Len(SubSeq(q, k + 1, Len(q))) = Len(q) - k
    OBVIOUS
  <1>3. \A i \in 1 .. Len(q) - k : SubSeq(q, k + 1, Len(q))[i] = q[k + i]
    OBVIOUS
  <1> QED BY <1>1, <1>2, <1>3

\* The pop removes exactly the owner's group from the queue.
LEMMA Pop ==
  ASSUME IInv, NEW w \in Writers, pc[w] \in Owning
  PROVE  /\ Len(edit[w]) \in 1 .. Len(writers)
         /\ Members(w) = {writers[i] : i \in 1 .. Len(edit[w])} \ {w}
         /\ Remaining(w) \in Seq(Writers)
         /\ Len(Remaining(w)) = Len(writers) - Len(edit[w])
         /\ \A i \in 1 .. Len(Remaining(w)) :
               Remaining(w)[i] = writers[Len(edit[w]) + i]
  <1>1. /\ writers \in Seq(Writers) /\ Len(writers) \in Nat
        /\ DOMAIN writers = 1 .. Len(writers)
        /\ \A i \in 1 .. Len(writers) : writers[i] \in Writers
    BY DEF IInv, TypeOK
  <1>2. Len(edit[w]) \in 1 .. Len(writers) /\ last_writer[w] = writers[Len(edit[w])]
    BY DEF IInv, EditInv
  <1>3. GroupLen(w) = Len(edit[w])
    <2>1. \A i, j \in 1 .. Len(writers) : writers[i] = writers[j] => i = j
      BY DEF IInv, QueueInv
    <2> QED BY <1>1, <1>2, <2>1 DEF GroupLen
  <1>4. /\ SubSeq(writers, Len(edit[w]) + 1, Len(writers)) \in Seq(Writers)
        /\ Len(SubSeq(writers, Len(edit[w]) + 1, Len(writers)))
             = Len(writers) - Len(edit[w])
        /\ \A i \in 1 .. Len(SubSeq(writers, Len(edit[w]) + 1, Len(writers))) :
              SubSeq(writers, Len(edit[w]) + 1, Len(writers))[i]
                = writers[Len(edit[w]) + i]
    <2>1. Len(edit[w]) \in 0 .. Len(writers)
      BY <1>1, <1>2
    <2> QED BY <1>1, <2>1, DropPrefix, Zenon
  <1> QED BY <1>2, <1>3, <1>4, Zenon DEF Members, Remaining

\* The owner pops its group, hands over the result and wakes the next owner.
LEMMA FinishIInv ==
  ASSUME IInv, NEW w \in Writers, Finish(w)
  PROVE  IInv'
  <1> DEFINE k == Len(edit[w])
  <1>a. /\ pc[w] \in {"finishing", "failing"}
        /\ writers' = Remaining(w)
        /\ UNCHANGED <<edit, last_writer, base, applied, sequence, wal, mem>>
        /\ done' = [x \in Writers |-> done[x] \/ x \in Members(w)]
        /\ success' = [x \in Writers |->
              IF x \in Members(w) THEN pc[w] = "finishing" ELSE success[x]]
        /\ pc' = [x \in Writers |->
              IF x = w THEN IF pc[w] = "finishing" THEN "returned" ELSE "threw"
              ELSE IF x \in Notify(w) /\ pc[x] = "blocked" THEN "notified"
              ELSE pc[x]]
    BY DEF Finish, Succeeded
  <1>b. /\ Len(writers) \in Nat /\ pc \in [Writers -> PCs]
        /\ done \in [Writers -> BOOLEAN] /\ success \in [Writers -> BOOLEAN]
        /\ \A i \in 1 .. Len(writers) : writers[i] \in Writers
    BY DEF IInv, TypeOK
  <1>c. /\ k \in 1 .. Len(writers)
        /\ Members(w) = {writers[i] : i \in 1 .. k} \ {w}
        /\ writers' \in Seq(Writers)
        /\ Len(writers') = Len(writers) - k
        /\ \A i \in 1 .. Len(writers') : writers'[i] = writers[k + i]
    BY <1>a, Pop
  <1> HIDE DEF k
  <1>d. \A i \in 1 .. Len(writers') :
          k + i \in 1 .. Len(writers) /\ k + i > k /\ k + i # 1
    BY <1>b, <1>c
  <1>e. /\ writers[1] = w /\ 1 \in 1 .. Len(writers)
        /\ \A x \in Writers : x # w => pc[x] \notin Owning
    BY <1>a, <1>b DEF IInv, HeadInv
  <1>f. \A i, j \in 1 .. Len(writers) : writers[i] = writers[j] => i = j
    BY DEF IInv, QueueInv
  <1>g. \A i \in 1 .. Len(writers') :
          /\ writers'[i] \in Writers /\ writers'[i] # w
          /\ writers'[i] \notin Members(w)
    <2> SUFFICES ASSUME NEW i \in 1 .. Len(writers')
                 PROVE  /\ writers'[i] \in Writers /\ writers'[i] # w
                        /\ writers'[i] \notin Members(w)
      OBVIOUS
    <2>1. \A j \in 1 .. k : j \in 1 .. Len(writers) /\ j # k + i
      BY <1>b, <1>c, <1>d
    <2> QED BY <1>b, <1>c, <1>d, <1>e, <1>f, <2>1
  \* A writer of the old queue that is not popped is in the new one.
  <1>h. \A x \in Queued : x # w /\ x \notin Members(w) => x \in Queued'
    <2> SUFFICES ASSUME NEW j \in 1 .. Len(writers), writers[j] # w,
                        writers[j] \notin Members(w)
                 PROVE  \E i \in 1 .. Len(writers') : writers'[i] = writers[j]
      OBVIOUS
    <2>1. j \notin 1 .. k
      BY <1>c
    <2>2. j - k \in 1 .. Len(writers') /\ k + (j - k) = j
      BY <1>b, <1>c, <2>1
    <2> QED BY <1>c, <2>2, Zenon
  <1>i. \A x \in Writers : x # w =>
          \/ pc'[x] = pc[x]
          \/ pc[x] = "blocked" /\ pc'[x] = "notified"
    BY <1>a
  <1>j. /\ pc'[w] \in {"returned", "threw"}
        /\ pc'[w] = "returned" => pc[w] = "finishing"
    BY <1>a
  <1>k. /\ \A x \in Writers : done'[x] <=> (done[x] \/ x \in Members(w))
        /\ \A x \in Writers : x \in Members(w) => success'[x] = (pc[w] = "finishing")
        /\ \A x \in Writers : x \notin Members(w) => success'[x] = success[x]
    BY <1>a, <1>b, Zenon
  \* Popped writers are awake.
  <1>l. \A x \in Members(w) : x \in Writers /\ x # w /\ pc'[x] = "notified"
    <2> SUFFICES ASSUME NEW i \in 1 .. k, writers[i] # w
                 PROVE  writers[i] \in Writers /\ pc'[writers[i]] = "notified"
      BY <1>c
    <2>1. i \in 1 .. Len(writers) /\ writers[i] \in Writers
      BY <1>b, <1>c
    <2>2. pc[writers[i]] \in {"blocked", "notified"}
      BY <1>e, <2>1 DEF IInv, QueueInv
    <2>3. writers[i] \in Notify(w)
      BY <1>c DEF Notify
    <2> QED BY <1>a, <2>1, <2>2, <2>3
  <1>1. TypeOK'
    <2>1. pc' \in [Writers -> PCs] /\ done' \in [Writers -> BOOLEAN]
          /\ success' \in [Writers -> BOOLEAN]
      BY <1>a, <1>b, Zenon
    <2> QED BY <1>a, <1>c, <2>1, Zenon DEF IInv, TypeOK
  <1>2. QueueInv'
    <2>1. \A i, j \in 1 .. Len(writers') : writers'[i] = writers'[j] => i = j
      <3> SUFFICES ASSUME NEW i \in 1 .. Len(writers'), NEW j \in 1 .. Len(writers'),
                          writers'[i] = writers'[j]
                   PROVE  i = j
        OBVIOUS
      <3>1. k + i = k + j
        BY <1>c, <1>d, <1>f
      <3> QED BY <1>b, <1>c, <3>1
    <2>2. \A i \in 1 .. Len(writers') :
            /\ pc'[writers'[i]] \in {"blocked", "notified"} \cup Owning
            /\ ~done'[writers'[i]]
      <3> SUFFICES ASSUME NEW i \in 1 .. Len(writers')
                   PROVE  /\ pc'[writers'[i]] \in {"blocked", "notified"} \cup Owning
                          /\ ~done'[writers'[i]]
        OBVIOUS
      <3>1. /\ pc[writers'[i]] \in {"blocked", "notified"} \cup Owning
            /\ ~done[writers'[i]]
        BY <1>c, <1>d, SMTT(30) DEF IInv, QueueInv
      <3> QED BY <1>g, <1>i, <1>k, <3>1
    <2>3. \A x \in Writers :
            /\ pc'[x] \in {"blocked"} \cup Owning => x \in Queued'
            /\ pc'[x] = "notified" /\ ~done'[x] => x \in Queued'
            /\ done'[x] => pc'[x] \in {"notified", "returned", "threw"}
      <3> SUFFICES ASSUME NEW x \in Writers
                   PROVE  /\ pc'[x] \in {"blocked"} \cup Owning => x \in Queued'
                          /\ pc'[x] = "notified" /\ ~done'[x] => x \in Queued'
                          /\ done'[x] => pc'[x] \in {"notified", "returned", "threw"}
        OBVIOUS
      <3> HIDE DEF Queued
      <3>1. CASE x = w
        BY <1>j, <3>1
      <3>2. CASE x # w /\ x \in Members(w)
        BY <1>k, <1>l, <3>2
      <3>3. CASE x # w /\ x \notin Members(w)
        BY <1>e, <1>h, <1>i, <1>k, <3>3 DEF IInv, QueueInv
      <3> QED BY <3>1, <3>2, <3>3
    <2> QED BY <2>1, <2>2, <2>3 DEF QueueInv
  <1>m. \A x \in Writers : pc'[x] \notin Owning
    BY <1>e, <1>i, <1>j
  <1>3. HeadInv'
    <2>1. ASSUME Len(writers') > 0
          PROVE  pc'[writers'[1]] # "blocked"
      <3>1. 1 \in 1 .. Len(writers')
        BY <1>b, <1>c, <2>1
      <3>2. writers' # <<>>
        BY <2>1
      <3>3. writers'[1] \in Notify(w)
        BY <1>a, <3>2, Zenon DEF Notify
      <3> QED BY <1>a, <1>g, <3>1, <3>3, Zenon
    <2> QED BY <1>m, <2>1 DEF HeadInv
  <1>4. EditInv'
    <2>1. \A x \in Writers : pc'[x] = "idle" => OwnEdit(x)' /\ Unwritten(x)'
      <3>1. \A x \in Writers : pc'[x] = "idle" => pc[x] = "idle"
        BY <1>i, <1>j
      <3> QED BY <1>a, <3>1, Zenon DEF IInv, EditInv, OwnEdit, Unwritten
    <2>2. \A i \in 1 .. Len(writers') : OwnEdit(writers[i])' /\ Unwritten(writers[i])'
      <3> SUFFICES ASSUME NEW i \in 1 .. Len(writers')
                   PROVE  OwnEdit(writers[i])' /\ Unwritten(writers[i])'
        OBVIOUS
      <3>1. Unmerged(k + i)
        BY <1>d, <1>e DEF Unmerged, k
      <3>2. OwnEdit(writers[k + i]) /\ Unwritten(writers[k + i])
        BY <1>d, <3>1 DEF IInv, EditInv
      <3> QED BY <1>a, <1>c, <3>2, Zenon DEF OwnEdit, Unwritten
    <2> QED BY <1>m, <2>1, <2>2, Zenon DEF EditInv
  <1>5. ProgressInv'
    BY <1>a, <1>i, <1>j, <1>k, <1>m, Zenon DEF IInv, ProgressInv
  <1>6. AckInv'
    <2>1. ASSUME pc[w] = "finishing", NEW i \in 1 .. k,
                 NEW y \in Writers, y = writers[i]
          PROVE  Durable(y)'
      <3>1. /\ sequence = base[w] + k /\ edit[w][i] = writers[i]
            /\ <<edit[w][i], base[w] + i>> \in wal
            /\ <<edit[w][i], base[w] + i>> \in mem
        BY <2>1, Zenon DEF IInv, ProgressInv, EditInv, k
      <3>2. base[w] \in Nat /\ k \in Nat
        BY <1>b, <1>c DEF IInv, TypeOK
      <3>3. base[w] + i \in 1 .. sequence
        BY <3>1, <3>2
      <3>4. \E v \in 1 .. sequence : <<y, v>> \in wal /\ <<y, v>> \in mem
        BY <2>1, <3>1, <3>3
      <3> QED BY <1>a, <3>4, Zenon DEF Durable
    <2> SUFFICES ASSUME NEW x \in Writers,
                        pc'[x] = "returned" \/ (done'[x] /\ success'[x])
                 PROVE  Durable(x)'
      BY DEF AckInv
    <2>2. CASE x = w
      <3>1. pc[w] = "finishing" /\ 1 \in 1 .. k
        <4>1. ~done[w] /\ w \notin Members(w)
          BY <1>a, <1>c, Zenon DEF IInv, QueueInv
        <4>2. ~done'[w] /\ pc'[w] = "returned"
          BY <1>k, <2>2, <4>1, Zenon
        <4>3. 1 \in 1 .. k
          BY <1>b, <1>c
        <4> QED BY <1>j, <4>2, <4>3, Zenon
      <3> QED BY <1>e, <2>1, <2>2, <3>1
    <2>3. CASE x # w /\ x \in Members(w)
      <3>1. pc[w] = "finishing"
        BY <1>k, <1>l, <2>3, Zenon
      <3>2. PICK i \in 1 .. k : x = writers[i]
        BY <1>c, <2>3
      <3> QED BY <2>1, <3>1, <3>2
    <2>4. CASE x # w /\ x \notin Members(w)
      <3>1. Durable(x)
        BY <1>i, <1>k, <2>4, Zenon DEF IInv, AckInv
      <3> QED BY <1>a, <3>1, Zenon DEF Durable
    <2> QED BY <2>2, <2>3, <2>4
  <1>7. EachRecordOnce'
    BY <1>a DEF IInv, EachRecordOnce
  <1> QED BY <1>1, <1>2, <1>3, <1>4, <1>5, <1>6, <1>7 DEF IInv

----------------------------------------------------------------------------
\* The invariant holds in every reachable state.
THEOREM Invariance == Spec => []IInv
  <1>1. IInv /\ [Next]_vars => IInv'
    <2> SUFFICES ASSUME IInv, [Next]_vars PROVE IInv'
      OBVIOUS
    <2>1. CASE UNCHANGED vars
      <3> USE <2>1 DEF vars
      <3>1. TypeOK' /\ EachRecordOnce'
        BY DEF IInv, TypeOK, EachRecordOnce
      <3>2. QueueInv' /\ HeadInv'
        BY SMTT(30) DEF IInv, QueueInv, HeadInv
      <3>3. EditInv'
        BY DEF IInv, EditInv, Unmerged, Unwritten, OwnEdit
      <3>4. ProgressInv'
        BY SMTT(30) DEF IInv, ProgressInv, Unwritten, OnlyAt
      <3>5. AckInv'
        BY DEF IInv, AckInv, Durable
      <3> QED BY <3>1, <3>2, <3>3, <3>4, <3>5 DEF IInv
    <2>2. CASE Next
      <3>1. PICK w \in Writers :
              \/ EnterAsOwner(w) \/ EnterAndWait(w) \/ SpuriousWakeup(w)
              \/ Step(w)
        BY <2>2 DEF Next
      <3> QED BY <3>1, EnterAsOwnerIInv, EnterAndWaitIInv, WaitIInv,
                 AwakeAsOwnerIInv, WalIInv, CommitRecordIInv, CommitEndIInv,
                 FinishIInv DEF Step
    <2> QED BY <2>1, <2>2
  <1> QED BY InitIInv, <1>1, PTL DEF Spec

\* Every variable keeps its type.
THEOREM TypeCorrect == Spec => []TypeOK
  BY Invariance, PTL DEF IInv

\* For every set of concurrent calls: a call of apply that returns without an
\* exception has its record in the WAL and in the MVCC table under one
\* published version.
THEOREM AckedWrites == Spec => []AckedIsDurableAndVisible
  <1>1. IInv => AckedIsDurableAndVisible
    BY DEF IInv, AckInv, Durable, AckedIsDurableAndVisible
  <1> QED BY Invariance, <1>1, PTL

\* For every set of concurrent calls: no record is written twice.
THEOREM RecordsOnce == Spec => []EachRecordOnce
  BY Invariance, PTL DEF IInv

\* For every set of concurrent calls: at most one owner works outside
\* apply_mutex, and it is the head of the queue.
THEOREM SingleOwner == Spec => []OneOwner
  <1>1. IInv => OneOwner
    <2> SUFFICES ASSUME IInv, NEW w \in Writers, pc[w] \in Owning
                 PROVE  writers # <<>> /\ w = Head(writers)
      BY DEF OneOwner
    <2>1. Len(writers) > 0 /\ writers[1] = w /\ writers \in Seq(Writers)
      BY DEF IInv, HeadInv, TypeOK
    <2> QED BY <2>1
  <1> QED BY Invariance, <1>1, PTL

\* For every set of concurrent calls: the head of the queue and the writers
\* whose work is done are never left asleep.
THEOREM Wakeups == Spec => []NoLostWakeup
  <1>1. IInv => NoLostWakeup
    <2> SUFFICES ASSUME IInv, NEW w \in Writers, pc[w] = "blocked"
                 PROVE  ~done[w] /\ w \in Range(writers) /\ w # Head(writers)
      BY DEF NoLostWakeup
    <2>1. ~done[w] /\ w \in Queued
      BY DEF IInv, QueueInv
    <2>2. writers \in Seq(Writers)
      BY DEF IInv, TypeOK
    <2>3. Len(writers) > 0 /\ DOMAIN writers = 1 .. Len(writers)
      BY <2>1, <2>2
    <2>4. w # writers[1]
      BY <2>3 DEF IInv, HeadInv
    <2> QED BY <2>1, <2>2, <2>3, <2>4 DEF Range
  <1> QED BY Invariance, <1>1, PTL

\* For every set of concurrent calls: what is visible at a published sequence
\* never changes.
THEOREM Immutability == Spec => PublishedIsImmutable
  <1>1. IInv /\ [Next]_vars =>
          [\A s \in 0 .. sequence : VisibleAt(s)' = VisibleAt(s)]_vars
    <2> SUFFICES ASSUME IInv, Next, NEW s \in 0 .. sequence
                 PROVE  VisibleAt(s)' = VisibleAt(s)
      BY DEF VisibleAt, vars
    <2>1. CASE mem' = mem
      BY <2>1 DEF VisibleAt
    <2>2. CASE \E w \in Writers : CommitRecord(w)
      <3>1. PICK w \in Writers : CommitRecord(w)
        BY <2>2
      <3>2. base[w] = sequence /\ sequence \in Nat /\ applied[w] \in Nat
        BY <3>1 DEF CommitRecord, IInv, ProgressInv, TypeOK
      <3>3. mem' = mem \cup {<<edit[w][applied[w] + 1], base[w] + (applied[w] + 1)>>}
        BY <3>1, Zenon DEF CommitRecord
      <3>4. ~(base[w] + (applied[w] + 1) <= s)
        BY <3>2
      <3> QED BY <3>3, <3>4 DEF VisibleAt
    <2>3. mem' = mem \/ \E w \in Writers : CommitRecord(w)
      BY Zenon DEF Next, Step, EnterAsOwner, EnterAndWait, SpuriousWakeup, AwakeDone,
             AwakeAsOwner, AwakeTooEarly, WalApply, WalFail, CommitThrow,
             Publish, Finish
    <2> QED BY <2>1, <2>2, <2>3
  <1> QED BY Invariance, <1>1, PTL DEF Spec, PublishedIsImmutable

============================================================================
