-------------------------- MODULE ScheduleRelease --------------------------
(*****************************************************************************)
(* The scheduler stays correct when a query or a gather is deleted and when  *)
(* the threads of a task are released.                                       *)
(*****************************************************************************)
EXTENDS ScheduleQueue

\* The query that is dropped may have been excused.
LEMMA Excused ==
  ASSUME NEW m, NEW n \in Nodes, NEW q, NEW x, NEW p, ManagedIn(m, {<<n, q>>}, x, p), x # n \/ p # q
  PROVE  ManagedIn(m, {}, x, p)
  BY DEF ManagedIn

\* The end of deleteQuery: the query leaves its group, which elects another
\* oldest one.
LEMMA DropQueryOk ==
  ASSUME Counting, NEW st, NEW m, NEW W \in SUBSET Tasks, NEW n \in Nodes, NEW q \in Queries,
         ScheduleOk(st, m, W, {<<n, q>>}),
         \A t \in W : st.entry[t] = "WAITING" /\ NodeOf[GatherOf[t]] = n => QueryOf[GatherOf[t]] # q
  PROVE  ScheduleOk(DropQuery(st, n, q, m), m, W, {})
  <1> DEFINE r == GroupOf[q]
             X == {<<n, q>>}
             e == st.group[n][r]
             left == [getOrCreateGroupEntry(st, n, r) EXCEPT !.active_set = @ \ {q}, !.waiting_set = @ \ {q}]
             e2 == RetireMinQueryId(left, q)
             st2 == WithGroup(st, n, r, e2)
  <1>1. st \in Schedules /\ r \in Groups /\ e \in GroupSet
    BY Belongs, ScheduleFields DEF ScheduleOk
  <1>2. UsageOk(e, st.entry, n, r) /\ QueriesOk(e, n, r, m, X)
    BY Zenon, <1>1 DEF ScheduleOk, CountsOk, GroupsOk
  <1>3. DropQuery(st, n, q, m) = st2 \/ DropQuery(st, n, q, m) = scheduleWaitingQueries(st2, n, r, m)
    BY DEF DropQuery, WithGroup
  <1>4. /\ left \in GroupSet /\ left.exists /\ left.active_set = e.active_set \ {q}
        /\ left.waiting_set = e.waiting_set \ {q} /\ left.min_query_id = e.min_query_id
        /\ left.estimated_thread_usage = e.estimated_thread_usage
    <2>1. left = [e EXCEPT !.exists = TRUE, !.active_set = @ \ {q}, !.waiting_set = @ \ {q}]
      BY DEF getOrCreateGroupEntry
    <2> HIDE DEF left, e
    <2> QED BY Zenon, <1>1, <2>1 DEF GroupSet
  <1> HIDE DEF left, e, r
  <1> DEFINE all == {Max_Query_Id} \cup left.active_set \cup left.waiting_set
             mq == Smallest(all)
  <1>5. mq \in all /\ mq \in QueryIds /\ \A y \in all : mq <= y
    <2>1. all \in SUBSET QueryIds /\ all # {}
      BY <1>4, GroupFields DEF QueryIds
    <2> QED BY <2>1, SmallestOf
  <1>6. /\ e2 \in GroupSet /\ e2.exists /\ e2.active_set = e.active_set \ {q}
        /\ e2.waiting_set = e.waiting_set \ {q} /\ e2.estimated_thread_usage = e.estimated_thread_usage
        /\ e2.min_query_id = IF q # e.min_query_id THEN e.min_query_id ELSE mq
    <2>1. e2 = IF q # left.min_query_id THEN left ELSE [left EXCEPT !.min_query_id = mq]
      BY DEF RetireMinQueryId
    <2> HIDE DEF e2, mq
    <2> QED BY <1>4, <1>5, <2>1 DEF GroupSet
  <1> HIDE DEF e2
  <1>7. UsageOk(e2, st.entry, n, r)
    BY <1>2, <1>6 DEF UsageOk
  <1>8. QueriesOk(e2, n, r, m, {})
    <2>1. ASSUME NEW p \in e2.active_set \cup e2.waiting_set
          PROVE  GroupOf[p] = r /\ e2.min_query_id <= p /\ ManagedIn(m, {}, n, p)
      <3>1. p \in e.active_set \cup e.waiting_set /\ p # q /\ p \in all
        BY <1>4, <1>6
      <3>2. GroupOf[p] = r /\ e.min_query_id <= p /\ ManagedIn(m, X, n, p)
        BY Zenon, <1>2, <3>1 DEF QueriesOk
      <3>3. ManagedIn(m, {}, n, p)
        BY Zenon, <3>1, <3>2, Excused
      <3> HIDE DEF all, mq
      <3> QED BY <1>5, <1>6, <3>1, <3>2, <3>3
    <2>2. ASSUME e2.min_query_id # Max_Query_Id
          PROVE  GroupOf[e2.min_query_id] = r /\ ManagedIn(m, {}, n, e2.min_query_id)
      <3>1. CASE q # e.min_query_id
        <4>1. e2.min_query_id = e.min_query_id
          BY <1>6, <3>1
        <4>2. GroupOf[e.min_query_id] = r /\ ManagedIn(m, X, n, e.min_query_id)
          BY <1>2, <2>2, <4>1 DEF QueriesOk
        <4>3. ManagedIn(m, {}, n, e.min_query_id)
          BY Zenon, <3>1, <4>2, Excused
        <4> QED BY <4>1, <4>2, <4>3
      <3>2. CASE q = e.min_query_id
        <4>1. e2.min_query_id = mq
          BY <1>6, <3>2
        <4>2. mq \in e2.active_set \cup e2.waiting_set
          BY <1>4, <1>5, <1>6, <2>2, <4>1
        <4> HIDE DEF mq
        <4> QED BY <2>1, <4>1, <4>2
      <3> QED BY <3>1, <3>2
    <2> QED BY <2>1, <2>2 DEF QueriesOk
  <1>9. QueriesOk(e2, n, r, m, X)
    BY <1>8 DEF QueriesOk, ManagedIn
  <1>10. GroupIs(st2, st, n, r, e2)
    BY <1>1, <1>6, GroupShape
  <1>11. ASSUME NEW t \in W, st.entry[t] = "WAITING", NodeOf[GatherOf[t]] = n, GroupOf[QueryOf[GatherOf[t]]] = r
         PROVE  QueryOf[GatherOf[t]] \in e2.waiting_set
    <2>1. WaiterOk(st, m, t)
      BY <1>11 DEF ScheduleOk, WaitersOk
    <2>2. QueryOf[GatherOf[t]] \in e.waiting_set
      BY <1>11, <2>1 DEF WaiterOk, e
    <2> QED BY <1>6, <1>11, <2>2
  <1> HIDE DEF st2
  <1>12. ScheduleOk(st2, m, W, X)
    BY <1>1, <1>6, <1>7, <1>9, <1>10, <1>11, GroupChange
  <1>13. GroupsOk(st2, m, {})
    <2>1. ASSUME NEW x \in Nodes, NEW y \in Groups PROVE QueriesOk(st2.group[x][y], x, y, m, {})
      <3>1. CASE x = n /\ y = r
        <4>1. st2.group[x][y] = e2
          BY <1>10, <3>1 DEF GroupIs
        <4> QED BY Zenon, <1>8, <3>1, <4>1
      <3>2. CASE x # n \/ y # r
        <4> DEFINE d == st2.group[x][y]
        <4>1. QueriesOk(d, x, y, m, X)
          BY Zenon, <1>12 DEF ScheduleOk, GroupsOk
        <4> HIDE DEF d
        <4>2. \A p : GroupOf[p] = y => x # n \/ p # q
          BY <3>2 DEF r
        <4>3. \A p : GroupOf[p] = y /\ ManagedIn(m, X, x, p) => ManagedIn(m, {}, x, p)
          BY <4>2, Excused
        <4>4. QueriesOk(d, x, y, m, {})
          BY Zenon, <4>1, <4>3 DEF QueriesOk
        <4> QED BY <4>4 DEF d
      <3> QED BY Zenon, <3>1, <3>2
    <2> QED BY <2>1 DEF GroupsOk
  <1>14. ScheduleOk(st2, m, W, {})
    BY <1>12, <1>13 DEF ScheduleOk
  <1>15. ScheduleOk(scheduleWaitingQueries(st2, n, r, m), m, W, {})
    BY <1>1, <1>14, ScheduleWaitingOk
  <1> QED BY <1>3, <1>14, <1>15

\* A query that is excused need not be.
LEMMA Excuse ==
  ASSUME NEW st, NEW m, NEW W, NEW X, ScheduleOk(st, m, W, {})
  PROVE  ScheduleOk(st, m, W, X)
  BY DEF ScheduleOk, GroupsOk, QueriesOk, ManagedIn

\* A query that is in the manager needs no excuse.
LEMMA Unexcuse ==
  ASSUME NEW st, NEW m, NEW W, NEW n \in Nodes, NEW q, ScheduleOk(st, m, W, {<<n, q>>}),
         \E g \in Gathers : QueryOf[g] = q /\ NodeOf[g] = n /\ m[g].state # "None"
  PROVE  ScheduleOk(st, m, W, {})
  <1>1. \A x \in Nodes : \A p : ManagedIn(m, {<<n, q>>}, x, p) => ManagedIn(m, {}, x, p)
    BY DEF ManagedIn
  <1>2. ASSUME NEW x \in Nodes, NEW y \in Groups PROVE QueriesOk(st.group[x][y], x, y, m, {})
    <2> DEFINE d == st.group[x][y]
    <2>1. QueriesOk(d, x, y, m, {<<n, q>>})
      BY DEF ScheduleOk, GroupsOk
    <2> HIDE DEF d
    <2>2. QueriesOk(d, x, y, m, {})
      BY Zenon, <1>1, <2>1 DEF QueriesOk
    <2> QED BY <2>2 DEF d
  <1> QED BY <1>2 DEF ScheduleOk, GroupsOk

\* deleteQuery: the waiting tasks of the gathers gs fail, and the query leaves
\* its group unless it has other gathers.
LEMMA DeleteQueryOk ==
  ASSUME Counting, NEW st, NEW m, NEW W \in SUBSET Tasks, NEW n \in Nodes, NEW q \in Queries,
         ScheduleOk(st, m, W, {<<n, q>>}),
         NEW b \in BOOLEAN, NEW gs \in SUBSET Gathers, ~b => gs = {}
  PROVE  ScheduleOk(deleteQuery(st, n, q, b, gs, m), m, W, {})
  <1> DEFINE X == {<<n, q>>}
             present == {g \in Gathers : QueryOf[g] = q /\ NodeOf[g] = n /\ m[g].state # "None"}
             made == [st EXCEPT !.group[n][GroupOf[q]].exists = TRUE]
             freed == IF b THEN FailWaiting(made, gs, m) ELSE made
  <1>1. deleteQuery(st, n, q, b, gs, m) = IF present \subseteq gs THEN DropQuery(freed, n, q, m) ELSE freed
    BY Zenon DEF deleteQuery
  <1>2. ScheduleOk(made, m, W, X)
    BY Belongs, ExistsOk
  <1> HIDE DEF made
  <1>3. ScheduleOk(freed, m, W, X) /\ \A t \in W : freed.entry[t] = "WAITING" => GatherOf[t] \notin gs
    <2>1. CASE ~b
      BY <1>2, <2>1
    <2>2. CASE b
      <3> DEFINE en == [t \in Tasks |->
                    IF /\ GatherOf[t] \in gs /\ t \in m[GatherOf[t]].visible
                       /\ t \in Range(made.waitq[GatherOf[t]]) /\ made.entry[t] = "WAITING"
                    THEN "FAILED" ELSE made.entry[t]]
                 wq == [g \in Gathers |-> IF g \in gs THEN <<>> ELSE made.waitq[g]]
      <3>1. made \in Schedules /\ WaitersOk(made, m, W)
        BY <1>2 DEF ScheduleOk
      <3>2. freed = [made EXCEPT !.entry = en, !.waitq = wq]
        BY <2>2 DEF FailWaiting
      <3>3. en \in [Tasks -> Entries] /\ wq \in [Gathers -> Seq(Tasks)]
        BY <3>1, ScheduleFields DEF Entries
      <3>4. ASSUME NEW t \in Tasks
            PROVE  \/ en[t] = made.entry[t]
                   \/ made.entry[t] = "WAITING" /\ en[t] \in {"FAILED", "EXCEEDED"}
        OBVIOUS
      <3>5. ASSUME NEW g \in Gathers
            PROVE  Range(wq[g]) \subseteq Range(made.waitq[g]) /\ (g \notin gs => wq[g] = made.waitq[g])
        <4>1. CASE g \in gs
          <5>1. wq[g] = <<>>
            BY <4>1
          <5>2. Range(<<>>) = {}
            BY DEF Range
          <5> QED BY <4>1, <5>1, <5>2
        <4>2. CASE g \notin gs
          <5>1. wq[g] = made.waitq[g]
            BY <4>2
          <5> HIDE DEF wq
          <5> QED BY <4>2, <5>1
        <4> QED BY <4>1, <4>2
      <3>6. ASSUME NEW t \in W, en[t] = "WAITING" PROVE GatherOf[t] \notin gs
        <4>1. made.entry[t] = "WAITING"
          BY Zenon, <3>4, <3>6
        <4>2. t \in Range(made.waitq[GatherOf[t]]) /\ t \in m[GatherOf[t]].visible
          BY <3>1, <4>1 DEF WaitersOk, WaiterOk
        <4> QED BY <3>6, <4>1, <4>2
      <3> HIDE DEF en, wq, freed
      <3>7. /\ freed \in Schedules /\ freed.group = made.group /\ freed.global = made.global
            /\ freed.entry = en /\ freed.waitq = wq
        BY Zenon, <3>1, <3>2, <3>3 DEF Schedules
      <3>8. ScheduleOk(freed, m, W, X)
        <4>1. \A t \in W : freed.entry[t] = "WAITING" /\ t \in Range(made.waitq[GatherOf[t]])
                           => t \in Range(freed.waitq[GatherOf[t]])
          BY <3>5, <3>6, <3>7, Belongs
        <4> QED BY <1>2, <3>4, <3>5, <3>7, <4>1, EntryChange
      <3> QED BY <3>6, <3>7, <3>8
    <2> QED BY <2>1, <2>2
  <1> HIDE DEF freed
  <1>4. CASE present \subseteq gs
    <2>1. ASSUME NEW t \in W, freed.entry[t] = "WAITING", NodeOf[GatherOf[t]] = n
          PROVE  QueryOf[GatherOf[t]] # q
      <3>1. m[GatherOf[t]].state # "None"
        BY Zenon, <1>3, <2>1 DEF ScheduleOk, WaitersOk, WaiterOk
      <3>2. GatherOf[t] \notin gs /\ GatherOf[t] \in Gathers
        BY <1>3, <2>1, Belongs
      <3> QED BY <1>4, <2>1, <3>1, <3>2
    <2>2. ScheduleOk(DropQuery(freed, n, q, m), m, W, {})
      BY <1>3, <2>1, DropQueryOk
    <2> QED BY <1>1, <1>4, <2>2
  <1>5. CASE ~(present \subseteq gs)
    <2>1. \E g \in Gathers : QueryOf[g] = q /\ NodeOf[g] = n /\ m[g].state # "None"
      BY <1>5
    <2>2. ScheduleOk(freed, m, W, {})
      BY <1>3, <2>1, Unexcuse
    <2> QED BY <1>1, <1>5, <2>2
  <1> QED BY <1>4, <1>5

\* removeMPPGatherTaskSet: the gather g goes with its queue.
LEMMA GatherGone ==
  ASSUME NEW st, NEW m, NEW W \in SUBSET Tasks, ScheduleOk(st, m, W, {}),
         NEW g \in Gathers, \A t \in W : GatherOf[t] # g,
         NEW m2, \A x \in Gathers : x # g => m2[x] = m[x]
  PROVE  ScheduleOk([st EXCEPT !.waitq[g] = <<>>], m2, W, {<<NodeOf[g], QueryOf[g]>>})
  <1> DEFINE st2 == [st EXCEPT !.waitq[g] = <<>>]
             X == {<<NodeOf[g], QueryOf[g]>>}
             wq == [st.waitq EXCEPT ![g] = <<>>]
  <1>1. st \in Schedules /\ st.waitq \in [Gathers -> Seq(Tasks)]
    BY ScheduleFields DEF ScheduleOk
  <1>2. wq \in [Gathers -> Seq(Tasks)] /\ \A x \in Gathers : wq[x] = IF x = g THEN <<>> ELSE st.waitq[x]
    BY <1>1
  <1>3. st2 = [st EXCEPT !.waitq = wq]
    OBVIOUS
  <1> HIDE DEF wq, st2
  <1>4. /\ st2 \in Schedules /\ st2.group = st.group /\ st2.global = st.global
        /\ st2.entry = st.entry /\ st2.waitq = wq
    BY Zenon, <1>1, <1>2, <1>3 DEF Schedules
  <1>5. ScheduleOk(st2, m, W, {})
    <2>1. Range(<<>>) = {}
      BY DEF Range
    <2>2. \A x \in Gathers : Range(st2.waitq[x]) \subseteq Range(st.waitq[x])
      BY <1>2, <1>4, <2>1
    <2>3. \A t \in W : t \in Range(st.waitq[GatherOf[t]]) => t \in Range(st2.waitq[GatherOf[t]])
      BY <1>2, <1>4, Belongs
    <2> QED BY <1>4, <2>2, <2>3, EntryChange
  <1>6. \A x \in Nodes : \A p : ManagedIn(m, {}, x, p) => ManagedIn(m2, X, x, p)
    BY DEF ManagedIn
  <1>7. GroupsOk(st2, m2, X)
    <2>1. \A x \in Nodes, y \in Groups : QueriesOk(st2.group[x][y], x, y, m, {})
      BY <1>5 DEF ScheduleOk, GroupsOk
    <2>2. \A x \in Nodes, y \in Groups : QueriesOk(st2.group[x][y], x, y, m2, X)
      <3> SUFFICES ASSUME NEW x \in Nodes, NEW y \in Groups PROVE QueriesOk(st2.group[x][y], x, y, m2, X)
        OBVIOUS
      <3> DEFINE d == st2.group[x][y]
      <3>1. QueriesOk(d, x, y, m, {})
        BY <2>1
      <3> HIDE DEF d, X
      <3>2. QueriesOk(d, x, y, m2, X)
        BY <1>6, <3>1 DEF QueriesOk
      <3> QED BY <3>2 DEF d
    <2> QED BY Zenon, <2>2 DEF GroupsOk
  <1>8. WaitersOk(st2, m2, W)
    BY Zenon, <1>5, Belongs DEF ScheduleOk, WaitersOk, WaiterOk
  <1>9. ScheduleOk(st2, m2, W, X)
    BY <1>5, <1>7, <1>8 DEF ScheduleOk
  <1> QED BY <1>9 DEF st2

\* An entry without queries and threads may be erased.
LEMMA EraseOk ==
  ASSUME NEW st, NEW m, NEW W \in SUBSET Tasks, ScheduleOk(st, m, W, {}), NEW n \in Nodes, NEW r \in Groups
  PROVE  ScheduleOk(EraseIfIdle(st, n, r), m, W, {})
  <1> DEFINE e == st.group[n][r]
             idle == e.active_set \cup e.waiting_set = {} /\ e.estimated_thread_usage = 0
             st2 == WithGroup(st, n, r, NewGroup)
  <1>1. st \in Schedules /\ UsageOk(e, st.entry, n, r)
    BY DEF ScheduleOk, CountsOk
  <1>2. EraseIfIdle(st, n, r) = IF idle THEN st2 ELSE st
    BY Zenon DEF EraseIfIdle, WithGroup
  <1>3. ASSUME idle PROVE ScheduleOk(st2, m, W, {})
    <2>1. /\ NewGroup \in GroupSet /\ NewGroup.estimated_thread_usage = 0 /\ NewGroup.active_set = {}
          /\ NewGroup.waiting_set = {} /\ NewGroup.min_query_id = Max_Query_Id
      BY Belongs DEF NewGroup, GroupSet
    <2>2. GroupIs(st2, st, n, r, NewGroup)
      BY <1>1, <2>1, GroupShape
    <2> HIDE DEF st2
    <2>3. UsageOk(NewGroup, st.entry, n, r)
      BY <1>1, <1>3, <2>1 DEF UsageOk
    <2>4. QueriesOk(NewGroup, n, r, m, {})
      BY <2>1 DEF QueriesOk
    <2>5. ASSUME NEW t \in W, st.entry[t] = "WAITING", NodeOf[GatherOf[t]] = n, GroupOf[QueryOf[GatherOf[t]]] = r
          PROVE  FALSE
      <3>1. WaiterOk(st, m, t)
        BY <2>5 DEF ScheduleOk, WaitersOk
      <3>2. QueryOf[GatherOf[t]] \in e.waiting_set
        BY <2>5, <3>1 DEF WaiterOk
      <3> QED BY <1>3, <3>2
    <2> QED BY <2>1, <2>2, <2>3, <2>4, <2>5, GroupChange
  <1> HIDE DEF idle, st2
  <1> QED BY <1>2, <1>3

\* What the start of releaseThreadsThenSchedule does.
Released(st2, st, n, r, t) ==
  LET e == st.group[n][r]
      e2 == st2.group[n][r]
  IN  /\ st2 \in Schedules /\ st2.waitq = st.waitq
      /\ \A u \in Tasks : st2.entry[u] = IF u = t THEN "COMPLETED" ELSE st.entry[u]
      /\ \A x \in Nodes : st2.global[x] = IF x = n THEN st.global[x] - needed_threads[t] ELSE st.global[x]
      /\ \A x \in Nodes, y \in Groups : x # n \/ y # r => st2.group[x][y] = st.group[x][y]
      /\ e2.exists = e.exists /\ e2.waiting_set = e.waiting_set /\ e2.active_set = e.active_set
      /\ e2.min_query_id = e.min_query_id
      /\ e2.estimated_thread_usage = e.estimated_thread_usage - needed_threads[t]

\* It leaves the rest alone.
LEMMA ReleaseShape ==
  ASSUME NEW st \in Schedules, NEW n \in Nodes, NEW r \in Groups, NEW t \in Tasks
  PROVE  Released([[st EXCEPT !.entry[t] = "COMPLETED"] EXCEPT
                      !.group[n][r].estimated_thread_usage = @ - needed_threads[t],
                      !.global[n] = @ - needed_threads[t]], st, n, r, t)
  <1> DEFINE mid == [st EXCEPT !.entry[t] = "COMPLETED"]
             threads == needed_threads[t]
             e == mid.group[n][r]
             e2 == [e EXCEPT !.estimated_thread_usage = @ - threads]
             st2 == [mid EXCEPT !.group[n][r].estimated_thread_usage = @ - threads, !.global[n] = @ - threads]
  <1>1. /\ mid \in Schedules /\ mid.waitq = st.waitq /\ mid.group = st.group /\ mid.global = st.global
        /\ \A u \in Tasks : mid.entry[u] = IF u = t THEN "COMPLETED" ELSE st.entry[u]
    BY Zenon DEF Schedules, Entries
  <1>2. e \in GroupSet /\ threads \in Nat
    BY <1>1, ScheduleFields, Belongs
  <1> DEFINE st1 == WithGroup(mid, n, r, e2)
  <1>3. st2 = [st1 EXCEPT !.global[n] = @ - threads]
    BY DEF WithGroup
  <1> HIDE DEF st2, mid, threads, e
  <1>4. /\ e2 \in GroupSet /\ e2.exists = e.exists /\ e2.waiting_set = e.waiting_set /\ e2.active_set = e.active_set
        /\ e2.min_query_id = e.min_query_id /\ e2.estimated_thread_usage = e.estimated_thread_usage - threads
    <2> DEFINE us == e.estimated_thread_usage - threads
    <2>1. us \in Int
      BY <1>2, GroupFields
    <2>2. e2 = [e EXCEPT !.estimated_thread_usage = us]
      OBVIOUS
    <2> HIDE DEF us, e2
    <2>3. /\ e2 \in GroupSet /\ e2.exists = e.exists /\ e2.waiting_set = e.waiting_set /\ e2.active_set = e.active_set
          /\ e2.min_query_id = e.min_query_id /\ e2.estimated_thread_usage = us
      BY <1>2, <2>1, <2>2 DEF GroupSet
    <2> QED BY <2>3 DEF us
  <1> HIDE DEF e2
  <1>5. GroupIs(st1, mid, n, r, e2)
    BY <1>1, <1>4, GroupShape
  <1> HIDE DEF st1
  <1>6. /\ st2 \in Schedules /\ st2.waitq = st1.waitq /\ st2.group = st1.group /\ st2.entry = st1.entry
        /\ \A x \in Nodes : st2.global[x] = IF x = n THEN st1.global[x] - threads ELSE st1.global[x]
    <2>1. st1 \in Schedules
      BY <1>5 DEF GroupIs
    <2>2. st1.global \in [Nodes -> Int]
      BY <2>1, ScheduleFields
    <2> DEFINE gl == [st1.global EXCEPT ![n] = @ - threads]
    <2>3. gl \in [Nodes -> Int] /\ \A x \in Nodes : gl[x] = IF x = n THEN st1.global[x] - threads ELSE st1.global[x]
      BY <1>2, <2>2
    <2>4. st2 = [st1 EXCEPT !.global = gl]
      BY <1>3
    <2> HIDE DEF gl
    <2>5. st2 \in Schedules /\ st2.waitq = st1.waitq /\ st2.group = st1.group /\ st2.entry = st1.entry /\ st2.global = gl
      BY Zenon, <2>1, <2>3, <2>4 DEF Schedules
    <2> QED BY <2>3, <2>5
  <1>7. /\ st2.group[n][r] = e2 /\ st2.waitq = st.waitq /\ st2.entry = mid.entry /\ e = st.group[n][r]
        /\ \A x \in Nodes : st2.global[x] = IF x = n THEN st.global[x] - threads ELSE st.global[x]
        /\ \A x \in Nodes, y \in Groups : x # n \/ y # r => st2.group[x][y] = st.group[x][y]
    BY <1>1, <1>5, <1>6 DEF GroupIs, e
  <1>8. \A u \in Tasks : st2.entry[u] = IF u = t THEN "COMPLETED" ELSE st.entry[u]
    BY <1>1, <1>7
  <1>9. Released(st2, st, n, r, t)
    BY Zenon, <1>4, <1>6, <1>7, <1>8 DEF Released, threads
  <1> QED BY <1>9 DEF st2, mid, threads

\* releaseThreadsThenSchedule for a task that is scheduled: its assertions
\* hold and it keeps the scheduler correct.
LEMMA ReleaseOk ==
  ASSUME Counting, NEW st, NEW m, NEW W \in SUBSET Tasks, ScheduleOk(st, m, W, {}),
         NEW t \in Tasks, st.entry[t] = "SCHEDULED",
         NEW n \in Nodes, n = NodeOf[GatherOf[t]],
         NEW r \in Groups, r = GroupOf[QueryOf[GatherOf[t]]]
  PROVE  /\ releaseThreadsOk(st, n, r, needed_threads[t])
         /\ ScheduleOk(releaseThreadsThenSchedule([st EXCEPT !.entry[t] = "COMPLETED"],
                                                  n, r, needed_threads[t], m), m, W, {})
  <1> DEFINE st2 == [[st EXCEPT !.entry[t] = "COMPLETED"] EXCEPT
                        !.group[n][r].estimated_thread_usage = @ - needed_threads[t],
                        !.global[n] = @ - needed_threads[t]]
             st3 == scheduleWaitingQueries(st2, n, r, m)
             threads == needed_threads[t]
             e == st.group[n][r]
             e2 == st2.group[n][r]
  <1>1. st \in Schedules /\ threads \in Nat \ {0} /\ e \in GroupSet
    BY IdsAssumption, ScheduleFields DEF ScheduleOk
  <1>2. Released(st2, st, n, r, t)
    BY Zenon, <1>1, ReleaseShape
  <1>3. releaseThreadsThenSchedule([st EXCEPT !.entry[t] = "COMPLETED"], n, r, threads, m) = EraseIfIdle(st3, n, r)
    <2>1. releaseThreadsThenSchedule([st EXCEPT !.entry[t] = "COMPLETED"], n, r, threads, m)
            = CHOOSE x \in {EraseIfIdle(y, n, r) : y \in {st3}} : TRUE
      BY Zenon DEF releaseThreadsThenSchedule
    <2> HIDE DEF st3
    <2> DEFINE S == {EraseIfIdle(y, n, r) : y \in {st3}}
               z == EraseIfIdle(st3, n, r)
               c == CHOOSE x \in S : TRUE
    <2>2. z \in S /\ \A x \in S : x = z
      OBVIOUS
    <2> HIDE DEF S, z
    <2>3. c \in S
      BY <2>2
    <2> QED BY <2>1, <2>2, <2>3 DEF S, z
  <1> HIDE DEF st2, st3
  <1>4. /\ st2 \in Schedules /\ st2.waitq = st.waitq
        /\ \A u \in Tasks : st2.entry[u] = IF u = t THEN "COMPLETED" ELSE st.entry[u]
        /\ \A x \in Nodes : st2.global[x] = IF x = n THEN st.global[x] - threads ELSE st.global[x]
        /\ \A x \in Nodes, y \in Groups : x # n \/ y # r => st2.group[x][y] = st.group[x][y]
    BY ZenonT(40), <1>2 DEF Released
  <1>5. /\ e2.exists = e.exists /\ e2.waiting_set = e.waiting_set /\ e2.active_set = e.active_set
        /\ e2.min_query_id = e.min_query_id /\ e2.estimated_thread_usage = e.estimated_thread_usage - threads
    BY ZenonT(40), <1>2 DEF Released
  <1>6. e2 \in GroupSet /\ st.entry \in [Tasks -> Entries] /\ st2.entry \in [Tasks -> Entries] /\ st.global \in [Nodes -> Int]
    BY Zenon, <1>1, <1>4, ScheduleFields
  <1> HIDE DEF e, e2, threads
  <1>7. ASSUME NEW x \in Nodes, NEW rs \in SUBSET Groups
        PROVE  /\ Threads(ScheduledOf(st2.entry, x, rs)) \in Nat
               /\ Threads(ScheduledOf(st.entry, x, rs)) =
                    Threads(ScheduledOf(st2.entry, x, rs)) + IF x = n /\ r \in rs THEN threads ELSE 0
    <2>1. Threads(ScheduledOf(st2.entry, x, rs)) \in Nat
      BY Zenon, ScheduledType
    <2>2. st2.entry[t] # "SCHEDULED" /\ \A u \in Tasks : u # t => st.entry[u] = st2.entry[u]
      BY <1>4
    <2>3. Threads(ScheduledOf(st.entry, x, rs)) =
            IF n = x /\ r \in rs THEN Threads(ScheduledOf(st2.entry, x, rs)) + needed_threads[t]
            ELSE Threads(ScheduledOf(st2.entry, x, rs))
      BY <1>6, <2>2, ScheduledAdd
    <2> QED BY <2>1, <2>3 DEF threads
  <1>8. CountsOk(st) /\ UsageOk(e, st.entry, n, r)
    BY Zenon DEF ScheduleOk, CountsOk, e
  <1>9. /\ e.exists /\ e.estimated_thread_usage >= threads
        /\ e2.estimated_thread_usage = Threads(ScheduledOf(st2.entry, n, {r}))
        /\ e2.estimated_thread_usage <= thread_hard_limit
    <2>1. /\ Threads(ScheduledOf(st2.entry, n, {r})) \in Nat
          /\ Threads(ScheduledOf(st.entry, n, {r})) = Threads(ScheduledOf(st2.entry, n, {r})) + threads
      BY <1>7
    <2>2. e.estimated_thread_usage = Threads(ScheduledOf(st.entry, n, {r})) /\ e.estimated_thread_usage <= thread_hard_limit
          /\ (~e.exists => e = NewGroup)
      BY Zenon, <1>8 DEF UsageOk
    <2>3. thread_hard_limit \in Nat
      BY LimitsAssumption
    <2>4. e.estimated_thread_usage >= threads /\ e.estimated_thread_usage # 0
      BY <1>1, <2>1, <2>2
    <2>5. e.exists
      BY <2>2, <2>4 DEF NewGroup
    <2> QED BY <1>1, <1>5, <2>1, <2>2, <2>3, <2>4, <2>5
  <1>10. CountsOk(st2)
    <2>1. ASSUME NEW x \in Nodes PROVE st2.global[x] = Threads(ScheduledOf(st2.entry, x, Groups))
      <3>1. st.global[x] = Threads(ScheduledOf(st.entry, x, Groups))
        BY Zenon, <1>8 DEF CountsOk
      <3>2. /\ Threads(ScheduledOf(st2.entry, x, Groups)) \in Nat
            /\ Threads(ScheduledOf(st.entry, x, Groups)) =
                 Threads(ScheduledOf(st2.entry, x, Groups)) + IF x = n THEN threads ELSE 0
        BY <1>7
      <3>3. st2.global[x] = IF x = n THEN st.global[x] - threads ELSE st.global[x]
        BY Zenon, <1>4
      <3> QED BY <1>1, <3>1, <3>2, <3>3
    <2>2. ASSUME NEW x \in Nodes, NEW y \in Groups PROVE UsageOk(st2.group[x][y], st2.entry, x, y)
      <3>1. CASE x = n /\ y = r
        <4>1. st2.group[x][y] = e2
          BY Zenon, <3>1 DEF e2
        <4>2. UsageOk(e2, st2.entry, n, r)
          BY <1>5, <1>9 DEF UsageOk
        <4> QED BY Zenon, <3>1, <4>1, <4>2
      <3>2. CASE ~(x = n /\ y = r)
        <4>1. st2.group[x][y] = st.group[x][y] /\ UsageOk(st.group[x][y], st.entry, x, y)
          BY Zenon, <1>4, <1>8, <3>2 DEF CountsOk
        <4>2. /\ Threads(ScheduledOf(st2.entry, x, {y})) \in Nat
              /\ Threads(ScheduledOf(st.entry, x, {y})) =
                   Threads(ScheduledOf(st2.entry, x, {y})) + IF x = n /\ y = r THEN threads ELSE 0
          BY <1>7
        <4>3. Threads(ScheduledOf(st.entry, x, {y})) = Threads(ScheduledOf(st2.entry, x, {y}))
          BY <3>2, <4>2
        <4> QED BY Zenon, <4>1, <4>3 DEF UsageOk
      <3> QED BY Zenon, <3>1, <3>2
    <2> QED BY <2>1, <2>2 DEF CountsOk
  <1>11. GroupsOk(st2, m, {})
    <2>1. ASSUME NEW x \in Nodes, NEW y \in Groups PROVE QueriesOk(st2.group[x][y], x, y, m, {})
      <3>1. QueriesOk(st.group[x][y], x, y, m, {})
        BY Zenon DEF ScheduleOk, GroupsOk
      <3>2. CASE x = n /\ y = r
        <4>1. st2.group[x][y] = e2 /\ st.group[x][y] = e
          BY Zenon, <3>2 DEF e2, e
        <4> QED BY <1>5, <3>1, <4>1 DEF QueriesOk
      <3>3. CASE ~(x = n /\ y = r)
        BY Zenon, <1>4, <3>1, <3>3
      <3> QED BY Zenon, <3>2, <3>3
    <2> QED BY <2>1 DEF GroupsOk
  <1>12. WaitersOk(st2, m, W)
    <2>1. WaitersOk(st, m, W)
      BY DEF ScheduleOk
    <2>2. \A x \in Nodes, y \in Groups : st2.group[x][y].waiting_set = st.group[x][y].waiting_set
      <3>1. e2.waiting_set = e.waiting_set
        BY Zenon, <1>5
      <3>2. \A x \in Nodes, y \in Groups : ~(x = n /\ y = r) => st2.group[x][y].waiting_set = st.group[x][y].waiting_set
        BY <1>4
      <3> QED BY ZenonT(40), <3>1, <3>2 DEF e, e2
    <2>3. ASSUME NEW u \in W, st2.entry[u] = "WAITING"
          PROVE  WaiterOk(st2, m, u)
      <3>1. st.entry[u] = "WAITING"
        BY Zenon, <1>4, <2>3
      <3>2. WaiterOk(st, m, u)
        BY Zenon, <2>1, <3>1 DEF WaitersOk
      <3>3. NodeOf[GatherOf[u]] \in Nodes /\ GroupOf[QueryOf[GatherOf[u]]] \in Groups
        BY Belongs
      <3> QED BY ZenonT(40), <1>4, <2>2, <3>2, <3>3 DEF WaiterOk
    <2> QED BY Zenon, <1>4, <2>1, <2>3 DEF WaitersOk
  <1>13. ScheduleOk(st2, m, W, {})
    BY Zenon, <1>4, <1>10, <1>11, <1>12 DEF ScheduleOk
  <1>14. ScheduleOk(EraseIfIdle(st3, n, r), m, W, {})
    <2>1. ScheduleOk(st3, m, W, {})
      BY Zenon, <1>13, ScheduleWaitingOk DEF st3
    <2> QED BY Zenon, <2>1, EraseOk
  <1>15. releaseThreadsOk(st, n, r, threads)
    BY Zenon, <1>9 DEF releaseThreadsOk, e
  <1> QED BY <1>3, <1>14, <1>15 DEF threads
=============================================================================
