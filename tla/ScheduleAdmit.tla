--------------------------- MODULE ScheduleAdmit ---------------------------
(*****************************************************************************)
(* The scheduler stays correct (ScheduleOk of ScheduleInvariant), for every  *)
(* set of nodes, resource groups, queries and tasks, when MinTSOScheduler    *)
(* changes the entry of one task, one query or one resource group, and when  *)
(* it admits a task.                                                         *)
(*****************************************************************************)
EXTENDS MPPInvariant, TLAPS

\* What the proofs use of the sizes of sets and of the order of the natural numbers.
\* MPPProofs shows it in the end, from the theorems about finite sets.
Counting ==
  /\ Cardinality(Tasks) \in Nat /\ Cardinality(Queries) \in Nat
  /\ Threads({}) = 0
  /\ \A S \in SUBSET Tasks : Threads(S) \in Nat
  /\ \A S \in SUBSET Tasks : \A T \in SUBSET S : Threads(T) <= Threads(S)
  /\ \A S \in SUBSET Tasks : \A t \in Tasks \ S : Threads(S \cup {t}) = Threads(S) + needed_threads[t]
  /\ \A T \in SUBSET Nat : T # {} => \E x \in T : \A y \in T : x <= y

\* A number of threads is a natural number.
LEMMA ThreadsType ==
  ASSUME Counting, NEW S \in SUBSET Tasks
  PROVE  Threads(S) \in Nat
  BY Zenon DEF Counting

\* More tasks, no fewer threads.
LEMMA ThreadsMonotone ==
  ASSUME Counting, NEW S \in SUBSET Tasks, NEW T \in SUBSET S
  PROVE  Threads(T) <= Threads(S)
  BY Zenon DEF Counting

\* One more task adds its threads.
LEMMA ThreadsAdd ==
  ASSUME Counting, NEW S \in SUBSET Tasks, NEW t \in Tasks, t \notin S
  PROVE  Threads(S \cup {t}) = Threads(S) + needed_threads[t]
  BY Zenon DEF Counting

\* A set of natural numbers has a least element.
LEMMA LeastNat ==
  ASSUME Counting, NEW T \in SUBSET Nat, T # {}
  PROVE  \E x \in T : \A y \in T : x <= y
  BY Zenon DEF Counting

\* Induction over the natural numbers, for a set.
LEMMA NatInd ==
  ASSUME Counting, NEW S, 0 \in S, \A n \in Nat : n \in S => n + 1 \in S
  PROVE  Nat \subseteq S
  <1> DEFINE T == Nat \ S
  <1> SUFFICES ASSUME T # {} PROVE FALSE
    OBVIOUS
  <1>1. PICK x \in T : \A y \in T : x <= y
    BY Zenon, LeastNat
  <1>2. x - 1 \in Nat /\ x - 1 \notin T
    BY <1>1
  <1> QED BY <1>2

\* The smallest element of a set of query ids.
LEMMA SmallestOf ==
  ASSUME Counting, NEW S \in SUBSET QueryIds, S # {}
  PROVE  Smallest(S) \in S /\ \A y \in S : Smallest(S) <= y
  <1>1. QueryIds \subseteq Nat
    BY IdsAssumption DEF QueryIds
  <1>2. \E x \in S : \A y \in S : x <= y
    BY <1>1, LeastNat
  <1> QED BY <1>2 DEF Smallest

\* What the records of a scheduler are made of.
LEMMA ScheduleFields ==
  ASSUME NEW st \in Schedules
  PROVE  /\ st.group \in [Nodes -> [Groups -> GroupSet]] /\ st.global \in [Nodes -> Int]
         /\ st.waitq \in [Gathers -> Seq(Tasks)] /\ st.entry \in [Tasks -> Entries]
         /\ \A n \in Nodes, r \in Groups : st.group[n][r] \in GroupSet
  BY DEF Schedules

\* The fields of an entry of group_entries.
LEMMA GroupFields ==
  ASSUME NEW e \in GroupSet
  PROVE  /\ e.exists \in BOOLEAN /\ e.waiting_set \in SUBSET Queries /\ e.active_set \in SUBSET Queries
         /\ e.min_query_id \in QueryIds /\ e.estimated_thread_usage \in Int
  BY DEF GroupSet

\* Where a task, a gather and a query belong.
LEMMA Belongs ==
  /\ \A t \in Tasks : GatherOf[t] \in Gathers
  /\ \A g \in Gathers : QueryOf[g] \in Queries /\ NodeOf[g] \in Nodes /\ GroupOf[QueryOf[g]] \in Groups
  /\ \A q \in Queries : GroupOf[q] \in Groups /\ q \in Nat /\ q < Max_Query_Id
  /\ \A q \in QueryIds : q \in Nat
  /\ \A t \in Tasks : needed_threads[t] \in Nat
  /\ Max_Query_Id \in QueryIds
  BY Zenon, IdsAssumption DEF QueryIds

\* An operator that only changes the entry of one group.
WithGroup(st, n, r, e) == [st EXCEPT !.group[n][r] = e]

\* What it does: st2 is st with the entry e.
GroupIs(st2, st, n, r, e) ==
  /\ st2 \in Schedules /\ st2.global = st.global /\ st2.waitq = st.waitq /\ st2.entry = st.entry
  /\ st2.group[n][r] = e
  /\ \A x \in Nodes, y \in Groups : x # n \/ y # r => st2.group[x][y] = st.group[x][y]

\* It leaves the rest alone.
LEMMA GroupShape ==
  ASSUME NEW st \in Schedules, NEW n \in Nodes, NEW r \in Groups, NEW e \in GroupSet
  PROVE  GroupIs(WithGroup(st, n, r, e), st, n, r, e)
  <1> DEFINE st2 == WithGroup(st, n, r, e)
  <1>1. st.group \in [Nodes -> [Groups -> GroupSet]]
    BY ScheduleFields
  <1>2. st2 = [st EXCEPT !.group = [st.group EXCEPT ![n][r] = e]]
    BY DEF Schedules, WithGroup
  <1> HIDE DEF st2
  <1> DEFINE gr == [st.group EXCEPT ![n][r] = e]
  <1>3. gr \in [Nodes -> [Groups -> GroupSet]] /\ gr[n][r] = e
        /\ \A x \in Nodes, y \in Groups : x # n \/ y # r => gr[x][y] = st.group[x][y]
    BY <1>1
  <1> HIDE DEF gr
  <1>4. st2 \in Schedules /\ st2.global = st.global /\ st2.waitq = st.waitq /\ st2.entry = st.entry
        /\ st2.group = gr
    BY Zenon, <1>2, <1>3 DEF Schedules, gr
  <1>5. GroupIs(st2, st, n, r, e)
    BY <1>3, <1>4 DEF GroupIs
  <1> QED BY <1>5 DEF st2

\* It keeps the scheduler correct when the new entry is.
LEMMA GroupChange ==
  ASSUME NEW st, NEW m, NEW W \in SUBSET Tasks, NEW X, ScheduleOk(st, m, W, X),
         NEW n \in Nodes, NEW r \in Groups, NEW e \in GroupSet,
         NEW st2, GroupIs(st2, st, n, r, e),
         UsageOk(e, st.entry, n, r), QueriesOk(e, n, r, m, X),
         \A t \in W : /\ st.entry[t] = "WAITING" /\ NodeOf[GatherOf[t]] = n
                      /\ GroupOf[QueryOf[GatherOf[t]]] = r
                      => QueryOf[GatherOf[t]] \in e.waiting_set
  PROVE  ScheduleOk(st2, m, W, X)
  <1>1. st \in Schedules
    BY DEF ScheduleOk
  <1>2. /\ st2 \in Schedules /\ st2.global = st.global /\ st2.waitq = st.waitq /\ st2.entry = st.entry
        /\ st2.group[n][r] = e
        /\ \A x \in Nodes, y \in Groups : x # n \/ y # r => st2.group[x][y] = st.group[x][y]
    BY DEF GroupIs
  <1>3. CountsOk(st2)
    BY <1>2 DEF CountsOk, ScheduleOk
  <1>4. GroupsOk(st2, m, X)
    BY <1>2 DEF GroupsOk, ScheduleOk
  <1>5. WaitersOk(st2, m, W)
    <2>1. WaitersOk(st, m, W)
      BY DEF ScheduleOk
    <2>2. ASSUME NEW t \in W, st.entry[t] = "WAITING"
          PROVE  WaiterOk(st2, m, t)
      <3> DEFINE g == GatherOf[t]
      <3>1. g \in Gathers /\ NodeOf[g] \in Nodes /\ QueryOf[g] \in Queries /\ GroupOf[QueryOf[g]] \in Groups
        BY Belongs
      <3>2. WaiterOk(st, m, t)
        BY <2>1, <2>2 DEF WaitersOk
      <3>3. CASE NodeOf[g] = n /\ GroupOf[QueryOf[g]] = r
        BY <1>2, <2>2, <3>2, <3>3 DEF WaiterOk
      <3>4. CASE ~(NodeOf[g] = n /\ GroupOf[QueryOf[g]] = r)
        <4>1. st2.group[NodeOf[g]][GroupOf[QueryOf[g]]] = st.group[NodeOf[g]][GroupOf[QueryOf[g]]]
          BY <1>2, <3>1, <3>4
        <4> QED BY ZenonT(40), <1>2, <3>2, <4>1 DEF WaiterOk
      <3> QED BY <3>3, <3>4
    <2> QED BY <1>2, <2>1, <2>2 DEF WaitersOk
  <1> QED BY <1>2, <1>3, <1>4, <1>5 DEF ScheduleOk

\* More gather task sets, and fewer tasks that sleep.
LEMMA ManagerChange ==
  ASSUME NEW st, NEW m, NEW W \in SUBSET Tasks, NEW X, ScheduleOk(st, m, W, X),
         NEW m2, NEW W2 \in SUBSET W,
         \A g \in Gathers : m[g].state # "None" => m2[g].state # "None",
         \A t \in W2 : t \in m[GatherOf[t]].visible => t \in m2[GatherOf[t]].visible
  PROVE  ScheduleOk(st, m2, W2, X)
  <1>1. GroupsOk(st, m2, X)
    <2>1. GroupsOk(st, m, X)
      BY Zenon DEF ScheduleOk
    <2>2. \A n, q : ManagedIn(m, X, n, q) => ManagedIn(m2, X, n, q)
      BY Zenon DEF ManagedIn
    <2> QED BY <2>1, <2>2 DEF GroupsOk, QueriesOk
  <1>2. WaitersOk(st, m2, W2)
    <2>1. WaitersOk(st, m, W)
      BY Zenon DEF ScheduleOk
    <2>2. ASSUME NEW t \in W2, WaiterOk(st, m, t) PROVE WaiterOk(st, m2, t)
      <3>1. GatherOf[t] \in Gathers
        BY Zenon, Belongs
      <3> QED BY Zenon, <2>2, <3>1 DEF WaiterOk
    <2> QED BY Zenon, <2>1, <2>2 DEF WaitersOk
  <1> QED BY <1>1, <1>2 DEF ScheduleOk

\* Entries that fail, and tasks that leave the queues because nobody has to
\* wake them.
LEMMA EntryChange ==
  ASSUME NEW st, NEW m, NEW W \in SUBSET Tasks, NEW X, ScheduleOk(st, m, W, X),
         NEW st2 \in Schedules, st2.group = st.group, st2.global = st.global,
         \A t \in Tasks : \/ st2.entry[t] = st.entry[t]
                          \/ st.entry[t] = "WAITING" /\ st2.entry[t] \in {"FAILED", "EXCEEDED"},
         \A g \in Gathers : Range(st2.waitq[g]) \subseteq Range(st.waitq[g]),
         \A t \in W : st2.entry[t] = "WAITING" /\ t \in Range(st.waitq[GatherOf[t]])
                      => t \in Range(st2.waitq[GatherOf[t]])
  PROVE  ScheduleOk(st2, m, W, X)
  <1>1. \A t \in Tasks : st2.entry[t] = "SCHEDULED" <=> st.entry[t] = "SCHEDULED"
    OBVIOUS
  <1>2. \A n, rs : ScheduledOf(st2.entry, n, rs) = ScheduledOf(st.entry, n, rs)
    BY Zenon, <1>1 DEF ScheduledOf
  <1>3. CountsOk(st2)
    BY <1>2 DEF CountsOk, ScheduleOk, UsageOk
  <1>4. GroupsOk(st2, m, X)
    BY DEF GroupsOk, ScheduleOk
  <1>5. WaitersOk(st2, m, W)
    <2>1. \A t \in W : st2.entry[t] = "WAITING" => st.entry[t] = "WAITING"
      OBVIOUS
    <2>2. WaitersOk(st, m, W)
      BY DEF ScheduleOk
    <2>3. ASSUME NEW t \in W, st2.entry[t] = "WAITING"
          PROVE  WaiterOk(st2, m, t)
      <3>1. WaiterOk(st, m, t)
        BY Zenon, <2>1, <2>2, <2>3 DEF WaitersOk
      <3>2. t \in Range(st2.waitq[GatherOf[t]])
        BY <2>3, <3>1 DEF WaiterOk
      <3> QED BY Zenon, <3>1, <3>2 DEF WaiterOk
    <2> QED BY <2>2, <2>3 DEF WaitersOk
  <1> QED BY <1>3, <1>4, <1>5 DEF ScheduleOk

\* MPPTaskScheduleEntry::schedule for a task that may not run.
LEMMA ScheduleFails ==
  ASSUME NEW st, NEW m, NEW W \in SUBSET Tasks, NEW X, ScheduleOk(st, m, W, X),
         NEW t \in Tasks, NEW x \in {"FAILED", "EXCEEDED"}
  PROVE  /\ ScheduleOk(schedule(st, t, x), m, W, X)
         /\ schedule(st, t, x).entry[t] # "WAITING"
         /\ schedule(st, t, x).waitq = st.waitq
  <1> DEFINE st2 == schedule(st, t, x)
  <1>1. st \in Schedules
    BY DEF ScheduleOk
  <1>2. st2 \in Schedules /\ st2.group = st.group /\ st2.global = st.global /\ st2.waitq = st.waitq
        /\ \A u \in Tasks : st2.entry[u] = IF u = t /\ st.entry[t] = "WAITING" THEN x ELSE st.entry[u]
    BY Zenon, <1>1 DEF schedule, Schedules, Entries
  <1> HIDE DEF st2
  <1>3. ScheduleOk(st2, m, W, X)
    BY <1>2, EntryChange
  <1> QED BY <1>2, <1>3 DEF st2

\* A task leaves the front of a queue.
LEMMA PopOk ==
  ASSUME NEW st, NEW m, NEW W \in SUBSET Tasks, NEW X, ScheduleOk(st, m, W, X),
         NEW g \in Gathers, st.waitq[g] # <<>>,
         Head(st.waitq[g]) \in W => st.entry[Head(st.waitq[g])] # "WAITING"
  PROVE  ScheduleOk(Pop(st, g), m, W, X)
  <1> DEFINE st2 == Pop(st, g)
  <1>1. st \in Schedules
    BY DEF ScheduleOk
  <1>2. st2 \in Schedules /\ st2.group = st.group /\ st2.global = st.global /\ st2.entry = st.entry
        /\ \A x \in Gathers : st2.waitq[x] = IF x = g THEN Tail(st.waitq[g]) ELSE st.waitq[x]
    <2>1. st.waitq \in [Gathers -> Seq(Tasks)]
      BY <1>1, ScheduleFields
    <2>2. Tail(st.waitq[g]) \in Seq(Tasks)
      BY <2>1
    <2> DEFINE wq == [st.waitq EXCEPT ![g] = Tail(@)]
    <2>3. wq \in [Gathers -> Seq(Tasks)]
          /\ \A x \in Gathers : wq[x] = IF x = g THEN Tail(st.waitq[g]) ELSE st.waitq[x]
      BY <2>1, <2>2
    <2>4. st2 = [st EXCEPT !.waitq = wq]
      BY <1>1 DEF Pop, Schedules
    <2> HIDE DEF wq, st2
    <2>5. st2 \in Schedules /\ st2.group = st.group /\ st2.global = st.global /\ st2.entry = st.entry /\ st2.waitq = wq
      BY Zenon, <1>1, <2>3, <2>4 DEF Schedules
    <2> QED BY <2>3, <2>5
  <1> HIDE DEF st2
  <1> DEFINE s == st.waitq[g]
  <1>3. s \in Seq(Tasks) /\ s # <<>>
    BY <1>1, ScheduleFields
  <1>4. Range(Tail(s)) \subseteq Range(s) /\ \A t \in Range(s) : t = Head(s) \/ t \in Range(Tail(s))
    <2> HIDE DEF s
    <2>1. Len(s) \in Nat \ {0} /\ Len(Tail(s)) = Len(s) - 1 /\ \A i \in 1 .. Len(s) - 1 : Tail(s)[i] = s[i + 1]
      BY <1>3
    <2>2. Range(s) = {s[i] : i \in 1 .. Len(s)} /\ Range(Tail(s)) = {Tail(s)[i] : i \in 1 .. Len(s) - 1}
      <3>1. \A u \in Seq(Tasks) : DOMAIN u = 1 .. Len(u)
        OBVIOUS
      <3>2. Tail(s) \in Seq(Tasks)
        BY <1>3
      <3> QED BY <1>3, <2>1, <3>1, <3>2 DEF Range
    <2>3. ASSUME NEW i \in 1 .. Len(s) PROVE s[i] = Head(s) \/ s[i] \in Range(Tail(s))
      <3>1. CASE i = 1
        BY <1>3, <3>1
      <3>2. CASE i # 1
        <4>1. i - 1 \in 1 .. Len(s) - 1 /\ Tail(s)[i - 1] = s[i]
          BY <2>1, <3>2
        <4> QED BY Zenon, <2>2, <4>1
      <3> QED BY <3>1, <3>2
    <2> QED BY <2>1, <2>2, <2>3
  <1>5. \A x \in Gathers : Range(st2.waitq[x]) \subseteq Range(st.waitq[x])
    BY <1>2, <1>4
  <1>6. ASSUME NEW t \in W, st2.entry[t] = "WAITING", t \in Range(st.waitq[GatherOf[t]])
        PROVE  t \in Range(st2.waitq[GatherOf[t]])
    BY <1>2, <1>4, <1>6, Belongs
  <1>7. ScheduleOk(st2, m, W, X)
    BY <1>2, <1>5, <1>6, EntryChange
  <1> QED BY <1>7 DEF st2

\* A task that is scheduled is one more in the sets it belongs to.
LEMMA ScheduledAdd ==
  ASSUME Counting, NEW entry \in [Tasks -> Entries], NEW entry2 \in [Tasks -> Entries], NEW t \in Tasks,
         entry[t] # "SCHEDULED", entry2[t] = "SCHEDULED",
         \A u \in Tasks : u # t => entry2[u] = entry[u],
         NEW n \in Nodes, NEW rs \in SUBSET Groups
  PROVE  Threads(ScheduledOf(entry2, n, rs)) =
            IF NodeOf[GatherOf[t]] = n /\ GroupOf[QueryOf[GatherOf[t]]] \in rs
            THEN Threads(ScheduledOf(entry, n, rs)) + needed_threads[t]
            ELSE Threads(ScheduledOf(entry, n, rs))
  <1> DEFINE S == ScheduledOf(entry, n, rs)
  <1>1. S \in SUBSET Tasks /\ t \notin S
    BY DEF ScheduledOf
  <1>2. CASE NodeOf[GatherOf[t]] = n /\ GroupOf[QueryOf[GatherOf[t]]] \in rs
    <2>1. ScheduledOf(entry2, n, rs) = S \cup {t}
      BY Zenon, <1>2 DEF ScheduledOf
    <2> QED BY <1>1, <1>2, <2>1, ThreadsAdd
  <1>3. CASE ~(NodeOf[GatherOf[t]] = n /\ GroupOf[QueryOf[GatherOf[t]]] \in rs)
    <2>1. ScheduledOf(entry2, n, rs) = S
      BY Zenon, <1>3 DEF ScheduledOf
    <2> QED BY <1>3, <2>1
  <1> QED BY <1>2, <1>3

\* The tasks that are counted are tasks, and a group counts no more than its node.
LEMMA ScheduledType ==
  ASSUME Counting, NEW entry, NEW n, NEW rs
  PROVE  ScheduledOf(entry, n, rs) \in SUBSET Tasks /\ Threads(ScheduledOf(entry, n, rs)) \in Nat
  <1>1. ScheduledOf(entry, n, rs) \in SUBSET Tasks
    BY Zenon DEF ScheduledOf
  <1> QED BY Zenon, <1>1, ThreadsType

LEMMA GroupBelowNode ==
  ASSUME Counting, NEW entry, NEW n, NEW r \in Groups
  PROVE  Threads(ScheduledOf(entry, n, {r})) <= Threads(ScheduledOf(entry, n, Groups))
  <1>1. ScheduledOf(entry, n, {r}) \in SUBSET ScheduledOf(entry, n, Groups)
    BY DEF ScheduledOf
  <1> QED BY Zenon, <1>1, ScheduledType, ThreadsMonotone

\* The group of an admitted query, which becomes its min_query_id if it is older.
LEMMA QueriesAdmit ==
  ASSUME NEW e, NEW f, NEW n, NEW r, NEW m, NEW X, QueriesOk(e, n, r, m, X),
         NEW q \in Nat, GroupOf[q] = r, ManagedIn(m, X, n, q), e.min_query_id \in Nat,
         \A z \in e.active_set \cup e.waiting_set : z \in Nat,
         f.waiting_set = e.waiting_set, f.active_set = e.active_set \cup {q},
         f.min_query_id = IF q < e.min_query_id THEN q ELSE e.min_query_id
  PROVE  QueriesOk(f, n, r, m, X)
  BY DEF QueriesOk

\* What Admit does: the entry of the group becomes e2.
Admitted(st2, st, n, q, t, threads) ==
  LET r == GroupOf[q]
      e == st.group[n][r]
      e2 == st2.group[n][r]
  IN  /\ st2 \in Schedules /\ st2.waitq = st.waitq
      /\ \A u \in Tasks : st2.entry[u] = IF u = t /\ st.entry[t] = "WAITING" THEN "SCHEDULED" ELSE st.entry[u]
      /\ \A x \in Nodes : st2.global[x] = IF x = n THEN st.global[x] + threads ELSE st.global[x]
      /\ \A x \in Nodes, y \in Groups : x # n \/ y # r => st2.group[x][y] = st.group[x][y]
      /\ e2.exists /\ e2.waiting_set = e.waiting_set /\ e2.active_set = e.active_set \cup {q}
      /\ e2.estimated_thread_usage = e.estimated_thread_usage + threads
      /\ e2.min_query_id = IF q < e.min_query_id THEN q ELSE e.min_query_id

\* It leaves the rest alone.
LEMMA AdmitShape ==
  ASSUME NEW st \in Schedules, NEW n \in Nodes, NEW q \in Queries, NEW t \in Tasks,
         NEW threads \in Nat, threads = IF st.entry[t] = "WAITING" THEN needed_threads[t] ELSE 0
  PROVE  Admitted(Admit(st, n, q, t), st, n, q, t, threads)
  <1> DEFINE r == GroupOf[q]
             e == st.group[n][r]
             c == getOrCreateGroupEntry(st, n, r)
             e2 == [c EXCEPT !.min_query_id = IF q < @ THEN q ELSE @, !.active_set = @ \cup {q},
                             !.estimated_thread_usage = @ + threads]
             mid == schedule(st, t, "SCHEDULED")
             st2 == Admit(st, n, q, t)
  <1>1. /\ mid \in Schedules /\ mid.waitq = st.waitq /\ mid.group = st.group /\ mid.global = st.global
        /\ \A u \in Tasks : mid.entry[u] = IF u = t /\ st.entry[t] = "WAITING" THEN "SCHEDULED" ELSE st.entry[u]
    BY Zenon DEF schedule, Schedules, Entries
  <1>2. e \in GroupSet /\ r \in Groups /\ q \in QueryIds
    BY ScheduleFields, Belongs DEF QueryIds
  <1>3. /\ c \in GroupSet /\ c.exists /\ c.waiting_set = e.waiting_set /\ c.active_set = e.active_set
        /\ c.min_query_id = e.min_query_id /\ c.estimated_thread_usage = e.estimated_thread_usage
    <2> HIDE DEF e, r
    <2>1. c = [e EXCEPT !.exists = TRUE]
      BY DEF getOrCreateGroupEntry, e
    <2> HIDE DEF c
    <2> QED BY Zenon, <1>2, <2>1 DEF GroupSet
  <1>4. st2 = [mid EXCEPT !.group[n][r] = e2, !.global[n] = @ + threads]
    BY DEF Admit
  <1> HIDE DEF st2, mid, c, e, r
  <1>5. /\ e2 \in GroupSet /\ e2.exists /\ e2.waiting_set = c.waiting_set /\ e2.active_set = c.active_set \cup {q}
        /\ e2.estimated_thread_usage = c.estimated_thread_usage + threads
        /\ e2.min_query_id = IF q < c.min_query_id THEN q ELSE c.min_query_id
    <2> DEFINE mq == IF q < c.min_query_id THEN q ELSE c.min_query_id
               ac == c.active_set \cup {q}
               us == c.estimated_thread_usage + threads
    <2>1. mq \in QueryIds /\ ac \in SUBSET Queries /\ us \in Int
      BY <1>2, <1>3, GroupFields
    <2>2. e2 = [c EXCEPT !.min_query_id = mq, !.active_set = ac, !.estimated_thread_usage = us]
      OBVIOUS
    <2> HIDE DEF mq, ac, us, e2
    <2>3. /\ e2 \in GroupSet /\ e2.exists /\ e2.waiting_set = c.waiting_set /\ e2.active_set = ac
          /\ e2.estimated_thread_usage = us /\ e2.min_query_id = mq
      BY Zenon, <1>3, <2>1, <2>2 DEF GroupSet
    <2> QED BY <2>3 DEF mq, ac, us
  <1> HIDE DEF e2
  <1> DEFINE st1 == WithGroup(mid, n, r, e2)
  <1>6. st2 = [st1 EXCEPT !.global[n] = @ + threads]
    BY <1>4 DEF WithGroup
  <1>7. GroupIs(st1, mid, n, r, e2)
    BY <1>1, <1>2, <1>5, GroupShape
  <1> HIDE DEF st1
  <1>8. /\ st2 \in Schedules /\ st2.waitq = st1.waitq /\ st2.group = st1.group /\ st2.entry = st1.entry
        /\ \A x \in Nodes : st2.global[x] = IF x = n THEN st1.global[x] + threads ELSE st1.global[x]
    <2>1. st1 \in Schedules
      BY <1>7 DEF GroupIs
    <2>2. st1.global \in [Nodes -> Int]
      BY <2>1, ScheduleFields
    <2> DEFINE gl == [st1.global EXCEPT ![n] = @ + threads]
    <2>3. gl \in [Nodes -> Int] /\ \A x \in Nodes : gl[x] = IF x = n THEN st1.global[x] + threads ELSE st1.global[x]
      BY <2>2
    <2>4. st2 = [st1 EXCEPT !.global = gl]
      BY <1>6
    <2> HIDE DEF gl
    <2>5. st2 \in Schedules /\ st2.waitq = st1.waitq /\ st2.group = st1.group /\ st2.entry = st1.entry /\ st2.global = gl
      BY Zenon, <2>1, <2>3, <2>4 DEF Schedules
    <2> QED BY <2>3, <2>5
  <1>9. /\ st2.group[n][r] = e2 /\ st2.waitq = st.waitq /\ st2.entry = mid.entry
        /\ \A x \in Nodes : st2.global[x] = IF x = n THEN st.global[x] + threads ELSE st.global[x]
        /\ \A x \in Nodes, y \in Groups : x # n \/ y # r => st2.group[x][y] = st.group[x][y]
    BY <1>1, <1>7, <1>8 DEF GroupIs
  <1>10. Admitted(st2, st, n, q, t, threads)
    <2>1. \A u \in Tasks : st2.entry[u] = IF u = t /\ st.entry[t] = "WAITING" THEN "SCHEDULED" ELSE st.entry[u]
      BY <1>1, <1>9
    <2> DEFINE f == st2.group[n][r]
    <2>2. /\ f.exists /\ f.waiting_set = e.waiting_set /\ f.active_set = e.active_set \cup {q}
          /\ f.estimated_thread_usage = e.estimated_thread_usage + threads
          /\ f.min_query_id = IF q < e.min_query_id THEN q ELSE e.min_query_id
      BY Zenon, <1>3, <1>5, <1>9
    <2> QED BY Zenon, <1>8, <1>9, <2>1, <2>2 DEF Admitted, r, e
  <1> QED BY <1>10 DEF st2

\* scheduleImp admits a task: its group and its node count its threads, within
\* the hard limit, and the group knows its query.
LEMMA AdmitOk ==
  ASSUME Counting, NEW st, NEW m, NEW W \in SUBSET Tasks, NEW X, ScheduleOk(st, m, W, X),
         NEW t \in Tasks, NEW n \in Nodes, n = NodeOf[GatherOf[t]],
         NEW q \in Queries, q = QueryOf[GatherOf[t]],
         ManagedIn(m, X, n, q), CanSchedule(st, n, q, t)
  PROVE  /\ ScheduleOk(Admit(st, n, q, t), m, W, X)
         /\ Admit(st, n, q, t).entry[t] # "WAITING"
         /\ Admit(st, n, q, t).waitq = st.waitq
  <1> DEFINE st2 == Admit(st, n, q, t)
             r == GroupOf[q]
             e == st.group[n][r]
             e2 == st2.group[n][r]
             threads == IF st.entry[t] = "WAITING" THEN needed_threads[t] ELSE 0
  <1>1. st \in Schedules /\ r \in Groups /\ threads \in Nat /\ needed_threads[t] \in Nat
    BY Belongs DEF ScheduleOk
  <1>0. Admitted(st2, st, n, q, t, threads)
    BY <1>1, AdmitShape
  <1> HIDE DEF st2
  <1>2. /\ st2 \in Schedules /\ st2.waitq = st.waitq
        /\ \A u \in Tasks : st2.entry[u] = IF u = t /\ st.entry[t] = "WAITING" THEN "SCHEDULED" ELSE st.entry[u]
        /\ \A x \in Nodes : st2.global[x] = IF x = n THEN st.global[x] + threads ELSE st.global[x]
        /\ \A x \in Nodes, y \in Groups : x # n \/ y # r => st2.group[x][y] = st.group[x][y]
    BY ZenonT(40), <1>0 DEF Admitted
  <1>3. /\ e2.exists /\ e2.waiting_set = e.waiting_set /\ e2.active_set = e.active_set \cup {q}
        /\ e2.estimated_thread_usage = e.estimated_thread_usage + threads
        /\ e2.min_query_id = IF q < e.min_query_id THEN q ELSE e.min_query_id
    BY ZenonT(40), <1>0 DEF Admitted
  <1>4. e \in GroupSet /\ e2 \in GroupSet
    BY <1>1, <1>2, ScheduleFields
  <1>5. st.entry \in [Tasks -> Entries] /\ st2.entry \in [Tasks -> Entries] /\ st.global \in [Nodes -> Int]
    BY <1>1, <1>2, ScheduleFields
  <1>6. ASSUME NEW x \in Nodes, NEW rs \in SUBSET Groups
        PROVE  Threads(ScheduledOf(st2.entry, x, rs)) =
                  Threads(ScheduledOf(st.entry, x, rs)) + IF x = n /\ r \in rs THEN threads ELSE 0
    <2>1. Threads(ScheduledOf(st.entry, x, rs)) \in Nat
      BY Zenon, ScheduledType
    <2>2. CASE st.entry[t] = "WAITING"
      <3>1. st2.entry[t] = "SCHEDULED" /\ \A u \in Tasks : u # t => st2.entry[u] = st.entry[u]
        BY <1>2, <2>2
      <3>2. Threads(ScheduledOf(st2.entry, x, rs)) =
              IF n = x /\ r \in rs THEN Threads(ScheduledOf(st.entry, x, rs)) + needed_threads[t]
              ELSE Threads(ScheduledOf(st.entry, x, rs))
        BY <1>5, <2>2, <3>1, ScheduledAdd
      <3> HIDE DEF st2, r
      <3> QED BY <2>1, <2>2, <3>2
    <2>3. CASE st.entry[t] # "WAITING"
      <3>1. \A u \in Tasks : st2.entry[u] = st.entry[u]
        BY <1>2, <2>3
      <3>2. ScheduledOf(st2.entry, x, rs) = ScheduledOf(st.entry, x, rs)
        BY Zenon, <3>1 DEF ScheduledOf
      <3> QED BY <2>1, <2>3, <3>2
    <2> QED BY <2>2, <2>3
  <1>7. CountsOk(st)
    BY DEF ScheduleOk
  <1>8. e2.estimated_thread_usage <= thread_hard_limit
    <2>1. UsageOk(e, st.entry, n, r) /\ st.global[n] = Threads(ScheduledOf(st.entry, n, Groups))
      BY <1>1, <1>7 DEF CountsOk
    <2>2. e.estimated_thread_usage <= st.global[n]
      <3>1. Threads(ScheduledOf(st.entry, n, {r})) <= Threads(ScheduledOf(st.entry, n, Groups))
        BY Zenon, <1>1, GroupBelowNode
      <3> QED BY Zenon, <2>1, <3>1 DEF UsageOk
    <2>3. getOrCreateGroupEntry(st, n, r).estimated_thread_usage = e.estimated_thread_usage
      BY ZenonT(40), <1>4 DEF getOrCreateGroupEntry, GroupSet
    <2>4. \/ st.global[n] + needed_threads[t] <= thread_hard_limit
          \/ e.estimated_thread_usage + needed_threads[t] <= thread_soft_limit
      BY ZenonT(40), <2>3 DEF CanSchedule
    <2>5. e.estimated_thread_usage \in Int /\ st.global[n] \in Int
          /\ thread_soft_limit \in Nat /\ thread_hard_limit \in Nat /\ thread_soft_limit < thread_hard_limit
      BY Zenon, <1>4, <1>5, GroupFields, LimitsAssumption
    <2>6. threads <= needed_threads[t]
      BY <1>1
    <2> HIDE DEF e, e2, threads
    <2> QED BY <1>1, <1>3, <2>2, <2>4, <2>5, <2>6
  <1>9. CountsOk(st2)
    <2>1. ASSUME NEW x \in Nodes PROVE st2.global[x] = Threads(ScheduledOf(st2.entry, x, Groups))
      <3>1. st.global[x] = Threads(ScheduledOf(st.entry, x, Groups)) /\ st.global[x] \in Int
        BY <1>5, <1>7 DEF CountsOk
      <3>2. Threads(ScheduledOf(st2.entry, x, Groups)) =
              Threads(ScheduledOf(st.entry, x, Groups)) + IF x = n THEN threads ELSE 0
        BY <1>1, <1>6
      <3>3. st2.global[x] = IF x = n THEN st.global[x] + threads ELSE st.global[x]
        BY <1>2
      <3> HIDE DEF threads
      <3> QED BY <3>1, <3>2, <3>3
    <2>2. ASSUME NEW x \in Nodes, NEW y \in Groups PROVE UsageOk(st2.group[x][y], st2.entry, x, y)
      <3>1. UsageOk(st.group[x][y], st.entry, x, y)
        BY Zenon, <1>7 DEF CountsOk
      <3> HIDE DEF threads, r, e, e2
      <3>2. Threads(ScheduledOf(st2.entry, x, {y})) =
              Threads(ScheduledOf(st.entry, x, {y})) + IF x = n /\ y = r THEN threads ELSE 0
        BY <1>6
      <3>3. CASE x = n /\ y = r
        <4>1. st2.group[x][y] = e2 /\ st.group[x][y] = e
          BY Zenon, <3>3 DEF e2, e
        <4>2. e2.exists /\ e2.estimated_thread_usage = Threads(ScheduledOf(st2.entry, x, {y}))
          BY Zenon, <1>3, <3>1, <3>2, <3>3, <4>1 DEF UsageOk
        <4> QED BY Zenon, <1>8, <4>1, <4>2 DEF UsageOk
      <3>4. CASE ~(x = n /\ y = r)
        <4>1. st2.group[x][y] = st.group[x][y]
          BY Zenon, <1>2, <3>4
        <4>2. Threads(ScheduledOf(st.entry, x, {y})) + 0 = Threads(ScheduledOf(st.entry, x, {y}))
          <5>1. Threads(ScheduledOf(st.entry, x, {y})) \in Nat
            BY Zenon, ScheduledType
          <5> QED BY ONLY <5>1
        <4> QED BY <3>1, <3>2, <3>4, <4>1, <4>2 DEF UsageOk
      <3> QED BY <3>3, <3>4
    <2> QED BY <2>1, <2>2 DEF CountsOk
  <1>10. GroupsOk(st2, m, X)
    <2>1. GroupsOk(st, m, X)
      BY Zenon DEF ScheduleOk
    <2>2. ASSUME NEW x \in Nodes, NEW y \in Groups PROVE QueriesOk(st2.group[x][y], x, y, m, X)
      <3>1. QueriesOk(st.group[x][y], x, y, m, X)
        BY Zenon, <2>1 DEF GroupsOk
      <3>2. CASE x = n /\ y = r
        <4>1. e.min_query_id \in Nat /\ q \in Nat /\ \A z \in e.active_set \cup e.waiting_set : z \in Nat
          BY Zenon, <1>4, GroupFields, Belongs
        <4>2. GroupOf[q] = r /\ QueriesOk(e, n, r, m, X)
          BY Zenon, <3>1, <3>2
        <4> HIDE DEF e2, r, e
        <4>3. QueriesOk(e2, n, r, m, X)
          BY Zenon, <1>3, <4>1, <4>2, QueriesAdmit
        <4> QED BY Zenon, <3>2, <4>3 DEF e2
      <3>3. CASE ~(x = n /\ y = r)
        BY Zenon, <1>2, <3>1, <3>3
      <3> QED BY Zenon, <3>2, <3>3
    <2> QED BY <2>2 DEF GroupsOk
  <1>11. WaitersOk(st2, m, W)
    <2>1. WaitersOk(st, m, W)
      BY Zenon DEF ScheduleOk
    <2>2. \A x \in Nodes, y \in Groups : st2.group[x][y].waiting_set = st.group[x][y].waiting_set
      <3>1. e2.waiting_set = e.waiting_set
        BY Zenon, <1>3
      <3>2. \A x \in Nodes, y \in Groups : ~(x = n /\ y = r) => st2.group[x][y].waiting_set = st.group[x][y].waiting_set
        BY <1>2
      <3> QED BY ZenonT(40), <3>1, <3>2
    <2>3. ASSUME NEW u \in W, st2.entry[u] = "WAITING"
          PROVE  WaiterOk(st2, m, u)
      <3>1. st.entry[u] = "WAITING"
        BY <1>2, <2>3
      <3>2. WaiterOk(st, m, u)
        BY <2>1, <3>1 DEF WaitersOk
      <3>3. NodeOf[GatherOf[u]] \in Nodes /\ GroupOf[QueryOf[GatherOf[u]]] \in Groups
        BY Belongs
      <3> QED BY Zenon, <1>2, <2>2, <3>2, <3>3 DEF WaiterOk
    <2> QED BY Zenon, <1>2, <2>1, <2>3 DEF WaitersOk
  <1>12. st2.entry[t] # "WAITING"
    BY Zenon, <1>2
  <1>13. ScheduleOk(st2, m, W, X)
    BY <1>2, <1>9, <1>10, <1>11 DEF ScheduleOk
  <1> QED BY <1>2, <1>12, <1>13 DEF st2

\* getOrCreateGroupEntry in a section that does nothing else to the group.
LEMMA ExistsOk ==
  ASSUME NEW st, NEW m, NEW W \in SUBSET Tasks, NEW X, ScheduleOk(st, m, W, X),
         NEW n \in Nodes, NEW r \in Groups, NEW st2, st2 = [st EXCEPT !.group[n][r].exists = TRUE]
  PROVE  ScheduleOk(st2, m, W, X) /\ st2.waitq = st.waitq /\ st2.entry = st.entry
  <1> DEFINE e == st.group[n][r]
             e2 == [e EXCEPT !.exists = TRUE]
  <1>1. st \in Schedules /\ e \in GroupSet
    BY ScheduleFields DEF ScheduleOk
  <1>2. st2 = WithGroup(st, n, r, e2)
    BY DEF WithGroup
  <1> HIDE DEF e
  <1>3. /\ e2 \in GroupSet /\ e2.exists /\ e2.waiting_set = e.waiting_set /\ e2.active_set = e.active_set
        /\ e2.min_query_id = e.min_query_id /\ e2.estimated_thread_usage = e.estimated_thread_usage
    BY Zenon, <1>1 DEF GroupSet
  <1> HIDE DEF e2
  <1>4. GroupIs(st2, st, n, r, e2)
    BY ZenonT(40), <1>1, <1>2, <1>3, GroupShape
  <1>5. UsageOk(e, st.entry, n, r) /\ QueriesOk(e, n, r, m, X) /\ WaitersOk(st, m, W)
    BY DEF ScheduleOk, CountsOk, GroupsOk, e
  <1>6. UsageOk(e2, st.entry, n, r)
    BY <1>3, <1>5 DEF UsageOk
  <1>7. QueriesOk(e2, n, r, m, X)
    BY <1>3, <1>5 DEF QueriesOk
  <1>8. ASSUME NEW t \in W, st.entry[t] = "WAITING", NodeOf[GatherOf[t]] = n,
               GroupOf[QueryOf[GatherOf[t]]] = r
        PROVE  QueryOf[GatherOf[t]] \in e2.waiting_set
    BY Zenon, <1>3, <1>5, <1>8 DEF WaitersOk, WaiterOk, e
  <1>9. ScheduleOk(st2, m, W, X)
    BY <1>3, <1>4, <1>6, <1>7, <1>8, GroupChange
  <1> QED BY <1>4, <1>9 DEF GroupIs
=============================================================================
