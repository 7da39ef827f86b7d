--------------------------- MODULE ScheduleQueue ---------------------------
(*****************************************************************************)
(* The scheduler stays correct when a query is put into a waiting queue and  *)
(* when scheduleWaitingQueries takes queries from it; the loop of            *)
(* scheduleWaitingQueries is handled by an induction over its iterations.    *)
(*****************************************************************************)
EXTENDS ScheduleAdmit

\* What Enqueue does.
Enqueued(st2, st, n, q, t) ==
  LET r == GroupOf[q]
      e == st.group[n][r]
      e2 == st2.group[n][r]
  IN  /\ st2 \in Schedules /\ st2.global = st.global /\ st2.entry = st.entry
      /\ \A g \in Gathers : st2.waitq[g] = IF g = GatherOf[t] THEN Append(st.waitq[g], t) ELSE st.waitq[g]
      /\ \A x \in Nodes, y \in Groups : x # n \/ y # r => st2.group[x][y] = st.group[x][y]
      /\ e2.exists /\ e2.waiting_set = e.waiting_set \cup {q} /\ e2.active_set = e.active_set
      /\ e2.min_query_id = e.min_query_id /\ e2.estimated_thread_usage = e.estimated_thread_usage

\* It leaves the rest alone.
LEMMA EnqueueShape ==
  ASSUME NEW st \in Schedules, NEW n \in Nodes, NEW q \in Queries, NEW t \in Tasks
  PROVE  Enqueued(Enqueue(st, n, q, t), st, n, q, t)
  <1> DEFINE r == GroupOf[q]
             h == GatherOf[t]
             e == st.group[n][r]
             c == getOrCreateGroupEntry(st, n, r)
             e2 == [c EXCEPT !.waiting_set = @ \cup {q}]
             st2 == Enqueue(st, n, q, t)
  <1>1. e \in GroupSet /\ r \in Groups /\ h \in Gathers
    BY ScheduleFields, Belongs
  <1>2. /\ c \in GroupSet /\ c.exists /\ c.waiting_set = e.waiting_set /\ c.active_set = e.active_set
        /\ c.min_query_id = e.min_query_id /\ c.estimated_thread_usage = e.estimated_thread_usage
    <2> HIDE DEF e, r, h
    <2>1. c = [e EXCEPT !.exists = TRUE]
      BY DEF getOrCreateGroupEntry, e
    <2> HIDE DEF c
    <2> QED BY Zenon, <1>1, <2>1 DEF GroupSet
  <1>3. st2 = [st EXCEPT !.group[n][r] = e2, !.waitq[h] = Append(@, t)]
    BY DEF Enqueue
  <1> HIDE DEF st2, c, e, r, h
  <1>4. /\ e2 \in GroupSet /\ e2.exists /\ e2.waiting_set = c.waiting_set \cup {q} /\ e2.active_set = c.active_set
        /\ e2.estimated_thread_usage = c.estimated_thread_usage /\ e2.min_query_id = c.min_query_id
    BY <1>2 DEF GroupSet
  <1> HIDE DEF e2
  <1> DEFINE st1 == WithGroup(st, n, r, e2)
  <1>5. st2 = [st1 EXCEPT !.waitq[h] = Append(@, t)]
    BY <1>3 DEF WithGroup
  <1>6. GroupIs(st1, st, n, r, e2)
    BY <1>1, <1>4, GroupShape
  <1> HIDE DEF st1
  <1>7. /\ st2 \in Schedules /\ st2.global = st1.global /\ st2.group = st1.group /\ st2.entry = st1.entry
        /\ \A g \in Gathers : st2.waitq[g] = IF g = h THEN Append(st1.waitq[g], t) ELSE st1.waitq[g]
    <2>1. st1 \in Schedules
      BY <1>6 DEF GroupIs
    <2>2. st1.waitq \in [Gathers -> Seq(Tasks)]
      BY <2>1, ScheduleFields
    <2> DEFINE wq == [st1.waitq EXCEPT ![h] = Append(@, t)]
    <2>3. Append(st1.waitq[h], t) \in Seq(Tasks)
      BY <1>1, <2>2
    <2>4. wq \in [Gathers -> Seq(Tasks)]
          /\ \A g \in Gathers : wq[g] = IF g = h THEN Append(st1.waitq[g], t) ELSE st1.waitq[g]
      BY Zenon, <2>2, <2>3
    <2>5. st2 = [st1 EXCEPT !.waitq = wq]
      BY <1>5
    <2> HIDE DEF wq
    <2>6. st2 \in Schedules /\ st2.global = st1.global /\ st2.group = st1.group /\ st2.entry = st1.entry /\ st2.waitq = wq
      BY Zenon, <2>1, <2>4, <2>5 DEF Schedules
    <2> QED BY <2>4, <2>6
  <1>8. /\ st2.group[n][r] = e2 /\ st2.global = st.global /\ st2.entry = st.entry
        /\ \A g \in Gathers : st2.waitq[g] = IF g = h THEN Append(st.waitq[g], t) ELSE st.waitq[g]
        /\ \A x \in Nodes, y \in Groups : x # n \/ y # r => st2.group[x][y] = st.group[x][y]
    BY <1>6, <1>7 DEF GroupIs
  <1>9. Enqueued(st2, st, n, q, t)
    <2> DEFINE f == st2.group[n][r]
    <2>1. /\ f.exists /\ f.waiting_set = e.waiting_set \cup {q} /\ f.active_set = e.active_set
          /\ f.min_query_id = e.min_query_id /\ f.estimated_thread_usage = e.estimated_thread_usage
      BY <1>2, <1>4, <1>8
    <2> QED BY Zenon, <1>7, <1>8, <2>1 DEF Enqueued, r, e, h
  <1> QED BY <1>9 DEF st2

\* scheduleImp makes a task wait: it is queued, and its group knows its query.
LEMMA EnqueueOk ==
  ASSUME NEW st, NEW m, NEW W \in SUBSET Tasks, NEW X, ScheduleOk(st, m, W, X),
         NEW t \in Tasks, NEW n \in Nodes, n = NodeOf[GatherOf[t]],
         NEW q \in Queries, q = QueryOf[GatherOf[t]],
         t \in m[GatherOf[t]].visible, m[GatherOf[t]].state # "None",
         ~MustNotWait(st, n, q)
  PROVE  ScheduleOk(Enqueue(st, n, q, t), m, W \cup {t}, X)
  <1> DEFINE st2 == Enqueue(st, n, q, t)
             r == GroupOf[q]
             h == GatherOf[t]
             e == st.group[n][r]
             e2 == st2.group[n][r]
  <1>1. st \in Schedules /\ r \in Groups /\ h \in Gathers /\ e \in GroupSet
    BY Belongs, ScheduleFields DEF ScheduleOk
  <1>2. Enqueued(st2, st, n, q, t)
    BY <1>1, EnqueueShape
  <1> HIDE DEF st2
  <1>3. /\ st2 \in Schedules /\ st2.global = st.global /\ st2.entry = st.entry
        /\ \A g \in Gathers : st2.waitq[g] = IF g = h THEN Append(st.waitq[g], t) ELSE st.waitq[g]
        /\ \A x \in Nodes, y \in Groups : x # n \/ y # r => st2.group[x][y] = st.group[x][y]
        /\ e2.exists /\ e2.waiting_set = e.waiting_set \cup {q} /\ e2.active_set = e.active_set
        /\ e2.min_query_id = e.min_query_id /\ e2.estimated_thread_usage = e.estimated_thread_usage
    BY Zenon, <1>2 DEF Enqueued
  <1>4. e.min_query_id < q /\ GroupOf[q] = r /\ ManagedIn(m, X, n, q)
    <2>1. getOrCreateGroupEntry(st, n, r).min_query_id = e.min_query_id
      <3> HIDE DEF e, r
      <3> QED BY <1>1 DEF getOrCreateGroupEntry, GroupSet, e
    <2>2. ~(q <= e.min_query_id)
      BY ZenonT(40), <2>1 DEF MustNotWait
    <2>3. e.min_query_id \in Nat /\ q \in Nat
      BY Zenon, <1>1, GroupFields, Belongs
    <2>4. ManagedIn(m, X, n, q)
      BY <1>1 DEF ManagedIn
    <2> HIDE DEF e
    <2> QED BY <2>2, <2>3, <2>4
  <1> HIDE DEF e, e2, h, r
  <1>5. CountsOk(st2)
    <2>1. CountsOk(st)
      BY DEF ScheduleOk
    <2>2. UsageOk(e, st.entry, n, r)
      BY <1>1, <2>1 DEF CountsOk, e
    <2>3. UsageOk(e2, st.entry, n, r)
      BY <1>3, <2>2 DEF UsageOk
    <2>4. ASSUME NEW x \in Nodes, NEW y \in Groups PROVE UsageOk(st2.group[x][y], st.entry, x, y)
      <3>1. CASE x = n /\ y = r
        BY <2>3, <3>1 DEF e2
      <3>2. CASE ~(x = n /\ y = r)
        BY <1>3, <2>1, <3>2 DEF CountsOk
      <3> QED BY <3>1, <3>2
    <2> QED BY <1>3, <2>1, <2>4 DEF CountsOk
  <1>6. GroupsOk(st2, m, X)
    <2>1. GroupsOk(st, m, X)
      BY DEF ScheduleOk
    <2>2. QueriesOk(e, n, r, m, X)
      BY <1>1, <2>1 DEF GroupsOk, e
    <2>3. QueriesOk(e2, n, r, m, X)
      <3>1. e.min_query_id <= q
        <4>1. e.min_query_id \in Nat /\ q \in Nat
          BY <1>1, GroupFields, Belongs
        <4> QED BY <1>4, <4>1
      <3>2. ASSUME NEW x \in e2.active_set \cup e2.waiting_set
            PROVE  GroupOf[x] = r /\ e.min_query_id <= x /\ ManagedIn(m, X, n, x)
        <4>1. x = q \/ x \in e.active_set \cup e.waiting_set
          BY <1>3
        <4> QED BY Zenon, <1>4, <2>2, <3>1, <4>1 DEF QueriesOk
      <3> QED BY Zenon, <1>3, <2>2, <3>2 DEF QueriesOk
    <2>4. ASSUME NEW x \in Nodes, NEW y \in Groups PROVE QueriesOk(st2.group[x][y], x, y, m, X)
      <3>1. CASE x = n /\ y = r
        BY <2>3, <3>1 DEF e2
      <3>2. CASE ~(x = n /\ y = r)
        BY <1>3, <2>1, <3>2 DEF GroupsOk
      <3> QED BY <3>1, <3>2
    <2> QED BY <2>4 DEF GroupsOk
  <1>7. WaitersOk(st2, m, W \cup {t})
    <2>1. WaitersOk(st, m, W)
      BY DEF ScheduleOk
    <2>2. \A x \in Nodes, y \in Groups : st.group[x][y].waiting_set \subseteq st2.group[x][y].waiting_set
      <3>1. ASSUME NEW x \in Nodes, NEW y \in Groups
            PROVE  st.group[x][y].waiting_set \subseteq st2.group[x][y].waiting_set
        <4>1. CASE x = n /\ y = r
          <5>1. st.group[x][y] = e /\ st2.group[x][y] = e2
            BY <4>1 DEF e, e2
          <5> QED BY <1>3, <5>1
        <4>2. CASE ~(x = n /\ y = r)
          BY <1>3, <4>2
        <4> QED BY <4>1, <4>2
      <3> QED BY <3>1
    <2>3. \A g \in Gathers : Range(st2.waitq[g]) = IF g = h THEN Range(st.waitq[g]) \cup {t} ELSE Range(st.waitq[g])
      <3>1. st.waitq[h] \in Seq(Tasks)
        BY <1>1, ScheduleFields
      <3> DEFINE s == st.waitq[h]
                 a == Append(s, t)
      <3>2. /\ Len(a) = Len(s) + 1 /\ Len(s) \in Nat /\ a[Len(s) + 1] = t
            /\ \A i \in 1 .. Len(s) : a[i] = s[i]
        BY <3>1
      <3>3. DOMAIN s = 1 .. Len(s) /\ DOMAIN a = 1 .. Len(a)
        BY <3>1
      <3> HIDE DEF s, a
      <3>4. Range(a) = Range(s) \cup {t}
        <4>1. ASSUME NEW i \in 1 .. Len(s) + 1 PROVE a[i] \in Range(s) \cup {t}
          <5>1. i \in 1 .. Len(s) \/ i = Len(s) + 1
            BY <3>2
          <5> QED BY <3>2, <3>3, <5>1 DEF Range
        <4>2. t \in Range(a) /\ \A i \in 1 .. Len(s) : s[i] \in Range(a)
          <5>1. Len(s) + 1 \in DOMAIN a /\ \A i \in 1 .. Len(s) : i \in DOMAIN a
            BY <3>2, <3>3
          <5> QED BY <3>2, <5>1 DEF Range
        <4> QED BY <3>2, <3>3, <4>1, <4>2 DEF Range
      <3> QED BY Zenon, <1>3, <3>4 DEF s, a
    <2>4. GatherOf[t] = h /\ QueryOf[h] = q /\ NodeOf[h] = n
      BY DEF h
    <2>5. ASSUME NEW u \in W \cup {t}, st2.entry[u] = "WAITING"
          PROVE  WaiterOk(st2, m, u)
      <3>1. CASE u = t
        <4>1. t \in Range(st2.waitq[h]) /\ t \in m[h].visible /\ m[h].state # "None"
          BY Zenon, <1>1, <2>3 DEF h
        <4>2. q \in st2.group[n][r].waiting_set
          BY Zenon, <1>3 DEF e2
        <4> QED BY Zenon, <2>4, <3>1, <4>1, <4>2 DEF WaiterOk, r
      <3>2. CASE u \in W
        <4>1. WaiterOk(st, m, u)
          BY Zenon, <1>3, <2>1, <2>5, <3>2 DEF WaitersOk
        <4>2. GatherOf[u] \in Gathers /\ NodeOf[GatherOf[u]] \in Nodes /\ GroupOf[QueryOf[GatherOf[u]]] \in Groups
          BY <3>2, Belongs
        <4>3. Range(st.waitq[GatherOf[u]]) \subseteq Range(st2.waitq[GatherOf[u]])
          BY Zenon, <2>3, <4>2
        <4> QED BY Zenon, <2>2, <4>1, <4>2, <4>3 DEF WaiterOk
      <3> QED BY Zenon, <3>1, <3>2
    <2>6. \A g \in Gathers : \A u \in Range(st2.waitq[g]) : GatherOf[u] = g
      BY ZenonT(40), <2>1, <2>3, <2>4 DEF WaitersOk
    <2> QED BY Zenon, <2>5, <2>6 DEF WaitersOk
  <1>8. ScheduleOk(st2, m, W \cup {t}, X)
    BY <1>3, <1>5, <1>6, <1>7 DEF ScheduleOk
  <1> QED BY <1>8 DEF st2

Loops == [st : Schedules, stop : BOOLEAN, error : SUBSET Gathers]

\* The cases of one iteration of scheduleWaitingQueries.
NextIs(loop, n, r, m, next) ==
    LET st == loop.st
        e == st.group[n][r]
        q == Smallest(e.waiting_set)
        local == {g \in Gathers : QueryOf[g] = q /\ NodeOf[g] = n}
        busy == {g \in local : m[g].state # "None" /\ st.waitq[g] # <<>>}
        g == CHOOSE x \in busy : TRUE
        t == Head(st.waitq[g])
    IN
    \/ /\ loop.stop \/ e.waiting_set = {}
       /\ next = loop
    \/ /\ e.waiting_set # {}
       /\ \A x \in local : m[x].state = "None"
    \/ /\ e.waiting_set # {} /\ busy = {}
       /\ next = [loop EXCEPT !.st.group[n][r].waiting_set = @ \ {q}]
    \/ /\ e.waiting_set # {} /\ busy # {} /\ t \notin m[g].visible
       /\ next = [loop EXCEPT !.st = Pop(st, g)]
    \/ /\ e.waiting_set # {} /\ busy # {} /\ t \in m[g].visible
       /\ \/ next = [loop EXCEPT !.st = Pop(schedule(st, t, "EXCEEDED"), g)]
          \/ next =
                [loop EXCEPT !.st = Pop(schedule(st, t, "EXCEEDED"), g), !.error = {g}]
          \/ /\ CanSchedule(st, n, q, t)
             /\ next = [loop EXCEPT !.st = Pop(Admit(st, n, q, t), g)]
          \/ next = [loop EXCEPT !.stop = TRUE]

\* These are all of them.
LEMMA NextCases ==
  ASSUME NEW loop, NEW n, NEW r, NEW m
  PROVE  NextIs(loop, n, r, m, ScheduleNext(loop, n, r, m))
  <1> DEFINE st == loop.st
             e == st.group[n][r]
             q == Smallest(e.waiting_set)
             local == {g \in Gathers : QueryOf[g] = q /\ NodeOf[g] = n}
             busy == {g \in local : m[g].state # "None" /\ st.waitq[g] # <<>>}
             g == CHOOSE x \in busy : TRUE
             t == Head(st.waitq[g])
  <1>1. ScheduleNext(loop, n, r, m) =
          IF loop.stop \/ e.waiting_set = {} THEN loop
          ELSE IF \A x \in local : m[x].state = "None"
          THEN [loop EXCEPT !.st.group[n][r] =
                  [RetireMinQueryId(e, q) EXCEPT !.active_set = @ \ {q}, !.waiting_set = @ \ {q}]]
          ELSE IF busy = {}
          THEN [loop EXCEPT !.st.group[n][r].waiting_set = @ \ {q}]
          ELSE IF t \notin m[g].visible
          THEN [loop EXCEPT !.st = Pop(st, g)]
          ELSE IF loop.error = {g}
          THEN [loop EXCEPT !.st = Pop(schedule(st, t, "EXCEEDED"), g)]
          ELSE IF CanSchedule(st, n, q, t)
          THEN [loop EXCEPT !.st = Pop(Admit(st, n, q, t), g)]
          ELSE IF MustNotWait(st, n, q)
          THEN [loop EXCEPT !.st = Pop(schedule(st, t, "EXCEEDED"), g), !.error = {g}]
          ELSE [loop EXCEPT !.stop = TRUE]
    BY Zenon DEF ScheduleNext
  <1> DEFINE next == ScheduleNext(loop, n, r, m)
             a1 == loop.stop \/ e.waiting_set = {}
             a2 == \A x \in local : m[x].state = "None"
             a3 == busy = {}
             a4 == t \notin m[g].visible
             a5 == loop.error = {g}
             a6 == CanSchedule(st, n, q, t)
             a7 == MustNotWait(st, n, q)
             b2 == [loop EXCEPT !.st.group[n][r] =
                      [RetireMinQueryId(e, q) EXCEPT !.active_set = @ \ {q}, !.waiting_set = @ \ {q}]]
             b3 == [loop EXCEPT !.st.group[n][r].waiting_set = @ \ {q}]
             b4 == [loop EXCEPT !.st = Pop(st, g)]
             b5 == [loop EXCEPT !.st = Pop(schedule(st, t, "EXCEEDED"), g)]
             b6 == [loop EXCEPT !.st = Pop(Admit(st, n, q, t), g)]
             b7 == [loop EXCEPT !.st = Pop(schedule(st, t, "EXCEEDED"), g), !.error = {g}]
             b8 == [loop EXCEPT !.stop = TRUE]
  <1>2. next = IF a1 THEN loop ELSE IF a2 THEN b2 ELSE IF a3 THEN b3 ELSE IF a4 THEN b4 ELSE IF a5 THEN b5
               ELSE IF a6 THEN b6 ELSE IF a7 THEN b7 ELSE b8
    BY Zenon, <1>1
  <1> HIDE DEF next, a1, a2, a3, a4, a5, a6, a7, b2, b3, b4, b5, b6, b7, b8
  <1>3. \/ a1 /\ next = loop
        \/ ~a1 /\ a2
        \/ ~a1 /\ a3 /\ next = b3
        \/ ~a1 /\ ~a3 /\ a4 /\ next = b4
        \/ ~a1 /\ ~a3 /\ ~a4 /\ (next = b5 \/ next = b7 \/ (a6 /\ next = b6) \/ next = b8)
    BY <1>2
  <1> QED BY Zenon, <1>3 DEF NextIs, next, a1, a2, a3, a4, a6, b3, b4, b5, b6, b7, b8

\* An iteration of scheduleWaitingQueries keeps the scheduler correct.
LEMMA ScheduleNextOk ==
  ASSUME Counting, NEW loop \in Loops, NEW m, NEW W \in SUBSET Tasks, ScheduleOk(loop.st, m, W, {}),
         NEW n \in Nodes, NEW r \in Groups
  PROVE  ScheduleNext(loop, n, r, m) \in Loops /\ ScheduleOk(ScheduleNext(loop, n, r, m).st, m, W, {})
  <1> DEFINE st == loop.st
             e == st.group[n][r]
             q == Smallest(e.waiting_set)
             local == {g \in Gathers : QueryOf[g] = q /\ NodeOf[g] = n}
             busy == {g \in local : m[g].state # "None" /\ st.waitq[g] # <<>>}
             g == CHOOSE x \in busy : TRUE
             t == Head(st.waitq[g])
             next == ScheduleNext(loop, n, r, m)
             Goal == next \in Loops /\ ScheduleOk(next.st, m, W, {})
  <1> SUFFICES Goal
    OBVIOUS
  <1>1. st \in Schedules /\ e \in GroupSet
    BY ScheduleFields DEF Loops
  <1>2. UsageOk(e, st.entry, n, r) /\ QueriesOk(e, n, r, m, {}) /\ WaitersOk(st, m, W)
    BY DEF ScheduleOk, CountsOk, GroupsOk
  <1>3. ASSUME NEW s, next = [loop EXCEPT !.st = s] \/ next = [loop EXCEPT !.st = s, !.error = {g}],
               ScheduleOk(s, m, W, {}), g \in Gathers
        PROVE  Goal
    <2>1. s \in Schedules
      BY <1>3 DEF ScheduleOk
    <2> HIDE DEF next, g
    <2>2. next \in Loops /\ next.st = s
      BY Zenon, <1>3, <2>1 DEF Loops
    <2> QED BY <1>3, <2>2
  <1>4. ASSUME e.waiting_set # {}
        PROVE  q \in e.waiting_set /\ q \in Queries /\ GroupOf[q] = r /\ \E x \in local : m[x].state # "None"
    <2>1. e.waiting_set \in SUBSET QueryIds /\ e.waiting_set \subseteq Queries
      BY <1>1, GroupFields DEF QueryIds
    <2>2. q \in e.waiting_set
      BY <1>4, <2>1, SmallestOf
    <2> HIDE DEF q
    <2>3. GroupOf[q] = r /\ ManagedIn(m, {}, n, q)
      BY Zenon, <1>2, <2>2 DEF QueriesOk
    <2> QED BY <2>1, <2>2, <2>3 DEF ManagedIn
  <1>5. ASSUME busy # {}
        PROVE  /\ g \in Gathers /\ QueryOf[g] = q /\ NodeOf[g] = n /\ m[g].state # "None" /\ st.waitq[g] # <<>>
               /\ t \in Tasks /\ GatherOf[t] = g
    <2>1. g \in busy
      BY <1>5
    <2> HIDE DEF g, q
    <2>2. g \in Gathers /\ QueryOf[g] = q /\ NodeOf[g] = n /\ m[g].state # "None" /\ st.waitq[g] # <<>>
      BY <2>1
    <2>3. st.waitq[g] \in Seq(Tasks)
      BY <1>1, <2>2, ScheduleFields
    <2>4. t \in Tasks /\ t \in Range(st.waitq[g])
      BY <2>2, <2>3 DEF Range
    <2>5. GatherOf[t] = g
      BY Zenon, <1>2, <2>2, <2>4 DEF WaitersOk
    <2> QED BY Zenon, <2>2, <2>4, <2>5
  <1>6. CASE loop.stop \/ next = loop \/ next = [loop EXCEPT !.stop = TRUE]
    <2>1. CASE next = loop
      BY <2>1
    <2>2. CASE next = [loop EXCEPT !.stop = TRUE]
      <3> HIDE DEF next
      <3> QED BY Zenon, <2>2 DEF Loops
    <2>3. CASE loop.stop
      <3>1. next = loop
        BY Zenon, <2>3 DEF ScheduleNext
      <3> QED BY <3>1
    <2> QED BY <1>6, <2>1, <2>2, <2>3
  <1>7. CASE e.waiting_set # {} /\ busy = {} /\ next = [loop EXCEPT !.st.group[n][r].waiting_set = @ \ {q}]
    <2> DEFINE e2 == [e EXCEPT !.waiting_set = @ \ {q}]
               st2 == WithGroup(st, n, r, e2)
    <2>1. next = [loop EXCEPT !.st = st2]
      BY <1>7 DEF WithGroup
    <2>2. q \in e.waiting_set /\ q \in Queries
      BY <1>4, <1>7
    <2>3. ASSUME NEW u \in W, st.entry[u] = "WAITING", NodeOf[GatherOf[u]] = n
          PROVE  QueryOf[GatherOf[u]] # q
      <3>1. WaiterOk(st, m, u)
        BY <1>2, <2>3 DEF WaitersOk
      <3>2. GatherOf[u] \in Gathers /\ st.waitq[GatherOf[u]] \in Seq(Tasks)
        BY <1>1, Belongs, ScheduleFields
      <3>3. st.waitq[GatherOf[u]] # <<>> /\ m[GatherOf[u]].state # "None"
        <4>1. u \in Range(st.waitq[GatherOf[u]]) /\ m[GatherOf[u]].state # "None"
          BY Zenon, <3>1 DEF WaiterOk
        <4>2. \A s \in Seq(Tasks) : u \in Range(s) => s # <<>>
          BY DEF Range
        <4> QED BY <3>2, <4>1, <4>2
      <3> HIDE DEF q
      <3> QED BY <1>7, <2>3, <3>2, <3>3
    <2> HIDE DEF e, q
    <2>4. /\ e2 \in GroupSet /\ e2.exists = e.exists /\ e2.waiting_set = e.waiting_set \ {q} /\ e2.active_set = e.active_set
          /\ e2.min_query_id = e.min_query_id /\ e2.estimated_thread_usage = e.estimated_thread_usage
      BY <1>1 DEF GroupSet
    <2>5. e.exists
      BY <1>2, <2>2 DEF UsageOk, NewGroup
    <2> HIDE DEF e2
    <2>6. UsageOk(e2, st.entry, n, r)
      BY <1>2, <2>4, <2>5 DEF UsageOk
    <2>7. QueriesOk(e2, n, r, m, {})
      BY <1>2, <2>4 DEF QueriesOk
    <2>8. GroupIs(st2, st, n, r, e2)
      BY <1>1, <2>4, GroupShape
    <2>9. ASSUME NEW u \in W, st.entry[u] = "WAITING", NodeOf[GatherOf[u]] = n, GroupOf[QueryOf[GatherOf[u]]] = r
          PROVE  QueryOf[GatherOf[u]] \in e2.waiting_set
      <3>1. WaiterOk(st, m, u)
        BY <1>2, <2>9 DEF WaitersOk
      <3>2. QueryOf[GatherOf[u]] \in e.waiting_set
        BY <2>9, <3>1 DEF WaiterOk, e
      <3> QED BY <2>3, <2>4, <2>9, <3>2
    <2> HIDE DEF st2
    <2>10. ScheduleOk(st2, m, W, {})
      BY <2>4, <2>6, <2>7, <2>8, <2>9, GroupChange
    <2>11. st2 \in Schedules
      BY <2>8 DEF GroupIs
    <2> HIDE DEF next
    <2>12. next \in Loops /\ next.st = st2
      BY <2>1, <2>11 DEF Loops
    <2> QED BY <2>10, <2>12
  <1>8. CASE busy # {} /\ t \notin m[g].visible /\ next = [loop EXCEPT !.st = Pop(st, g)]
    <2>1. /\ g \in Gathers /\ QueryOf[g] = q /\ NodeOf[g] = n /\ m[g].state # "None" /\ st.waitq[g] # <<>>
          /\ t \in Tasks /\ GatherOf[t] = g
      BY ZenonT(40), <1>5, <1>8
    <2>2. t \in W => st.entry[t] # "WAITING"
      BY ZenonT(40), <1>2, <1>8, <2>1 DEF WaitersOk, WaiterOk
    <2>3. ScheduleOk(Pop(st, g), m, W, {})
      BY ZenonT(40), <2>1, <2>2, PopOk
    <2> HIDE DEF next, g, Goal
    <2> QED BY ZenonT(40), <1>3, <1>8, <2>1, <2>3
  <1>9. CASE busy # {} /\ \/ next = [loop EXCEPT !.st = Pop(schedule(st, t, "EXCEEDED"), g)]
                          \/ next = [loop EXCEPT !.st = Pop(schedule(st, t, "EXCEEDED"), g), !.error = {g}]
    <2>1. g \in Gathers /\ st.waitq[g] # <<>> /\ t \in Tasks
      BY ZenonT(40), <1>5, <1>9
    <2> DEFINE s == schedule(st, t, "EXCEEDED")
    <2>2. ScheduleOk(s, m, W, {}) /\ s.entry[t] # "WAITING" /\ s.waitq = st.waitq
      BY ZenonT(40), <2>1, ScheduleFails
    <2>3. next = [loop EXCEPT !.st = Pop(s, g)] \/ next = [loop EXCEPT !.st = Pop(s, g), !.error = {g}]
      BY Zenon, <1>9
    <2> HIDE DEF s, g, next, Goal
    <2>4. ScheduleOk(Pop(s, g), m, W, {})
      BY <2>1, <2>2, PopOk
    <2> QED BY ZenonT(40), <1>3, <2>1, <2>3, <2>4
  <1>10. CASE /\ e.waiting_set # {} /\ busy # {} /\ CanSchedule(st, n, q, t)
              /\ next = [loop EXCEPT !.st = Pop(Admit(st, n, q, t), g)]
    <2>1. /\ g \in Gathers /\ QueryOf[g] = q /\ NodeOf[g] = n /\ m[g].state # "None" /\ st.waitq[g] # <<>>
          /\ t \in Tasks /\ GatherOf[t] = g
      BY ZenonT(40), <1>5, <1>10
    <2>2. q \in Queries
      BY ZenonT(40), <1>4, <1>10
    <2>3. ManagedIn(m, {}, n, q)
      BY ZenonT(40), <2>1 DEF ManagedIn
    <2> DEFINE s == Admit(st, n, q, t)
    <2>4. next = [loop EXCEPT !.st = Pop(s, g)] /\ CanSchedule(st, n, q, t)
      BY Zenon, <1>10
    <2>5. t = Head(st.waitq[g])
      OBVIOUS
    <2> HIDE DEF g, next, Goal, q, t
    <2>6. ScheduleOk(s, m, W, {}) /\ s.entry[t] # "WAITING" /\ s.waitq = st.waitq
      BY <2>1, <2>2, <2>3, <2>4, AdmitOk
    <2> HIDE DEF s
    <2>7. ScheduleOk(Pop(s, g), m, W, {})
      BY <2>1, <2>5, <2>6, PopOk
    <2> QED BY ZenonT(40), <1>3, <2>1, <2>4, <2>7
  <1>11. CASE e.waiting_set # {} /\ \A x \in local : m[x].state = "None"
    BY <1>4, <1>11
  <1> HIDE DEF Goal
  <1>12. NextIs(loop, n, r, m, next)
    BY NextCases
  <1> HIDE DEF next
  <1> QED BY Zenon, <1>6, <1>7, <1>8, <1>9, <1>10, <1>11, <1>12 DEF NextIs

\* The first k iterations of scheduleWaitingQueries.
Iterations(k, f, st, n, r, m) ==
    [i \in 0 .. k |->
        IF i = 0 THEN [st |-> st, stop |-> FALSE, error |-> {}]
        ELSE CHOOSE x \in {ScheduleNext(y, n, r, m) : y \in {f[i - 1]}} : TRUE]

\* What one iteration contributes.
LEMMA IterationValue ==
  ASSUME NEW y0, NEW n, NEW r, NEW m
  PROVE  (CHOOSE x \in {ScheduleNext(y, n, r, m) : y \in {y0}} : TRUE) = ScheduleNext(y0, n, r, m)
  <1> DEFINE S == {ScheduleNext(y, n, r, m) : y \in {y0}}
             z == ScheduleNext(y0, n, r, m)
             c == CHOOSE x \in S : TRUE
  <1>1. z \in S /\ \A x \in S : x = z
    OBVIOUS
  <1> HIDE DEF S, z
  <1>2. c \in S
    BY <1>1
  <1> QED BY <1>1, <1>2 DEF S, z

\* The iterations exist, however many there are.
LEMMA IterationsExist ==
  ASSUME Counting, NEW st, NEW n, NEW r, NEW m, NEW k \in Nat
  PROVE  \E f : f = Iterations(k, f, st, n, r, m)
  <1> DEFINE S == {j \in Nat : \E f : f = Iterations(j, f, st, n, r, m)}
             s0 == [st |-> st, stop |-> FALSE, error |-> {}]
             N(y0) == CHOOSE x \in {ScheduleNext(y, n, r, m) : y \in {y0}} : TRUE
  <1>0. \A j, f : Iterations(j, f, st, n, r, m) = [i \in 0 .. j |-> IF i = 0 THEN s0 ELSE N(f[i - 1])]
    BY Zenon DEF Iterations
  <1> HIDE DEF s0, N
  <1>1. 0 \in S
    <2> DEFINE f == [i \in 0 .. 0 |-> s0]
    <2>1. f = [i \in 0 .. 0 |-> IF i = 0 THEN s0 ELSE N(f[i - 1])]
      OBVIOUS
    <2> HIDE DEF f
    <2> QED BY <1>0, <2>1
  <1>2. ASSUME NEW j \in Nat, j \in S PROVE j + 1 \in S
    <2>1. PICK f : f = [i \in 0 .. j |-> IF i = 0 THEN s0 ELSE N(f[i - 1])]
      BY <1>0, <1>2
    <2> DEFINE h == [i \in 0 .. (j + 1) |-> IF i = j + 1 THEN N(f[j]) ELSE f[i]]
    <2>2. \A i \in 0 .. j : f[i] = IF i = 0 THEN s0 ELSE N(f[i - 1])
      BY <2>1
    <2>3. \A i \in 0 .. j : h[i] = f[i]
      OBVIOUS
    <2>4. ASSUME NEW i \in 0 .. (j + 1) PROVE h[i] = IF i = 0 THEN s0 ELSE N(h[i - 1])
      <3>1. CASE i = j + 1
        <4>1. h[i] = N(f[j]) /\ i - 1 = j /\ i # 0
          BY <3>1
        <4>2. h[i - 1] = f[j]
          BY <2>3, <4>1
        <4> HIDE DEF h
        <4> QED BY <4>1, <4>2
      <3>2. CASE i # j + 1
        <4>1. i \in 0 .. j /\ (i # 0 => i - 1 \in 0 .. j)
          BY <3>2
        <4>2. h[i] = f[i] /\ (i # 0 => h[i - 1] = f[i - 1])
          BY <2>3, <4>1
        <4> HIDE DEF h
        <4> QED BY <2>2, <4>1, <4>2
      <3> QED BY <3>1, <3>2
    <2>5. h = [i \in 0 .. (j + 1) |-> h[i]]
      OBVIOUS
    <2> HIDE DEF h
    <2>6. h = [i \in 0 .. (j + 1) |-> IF i = 0 THEN s0 ELSE N(h[i - 1])]
      BY Zenon, <2>4, <2>5
    <2> DEFINE nxt == j + 1
    <2> HIDE DEF nxt
    <2>7. h = Iterations(nxt, h, st, n, r, m)
      <3>1. Iterations(nxt, h, st, n, r, m) = [i \in 0 .. nxt |-> IF i = 0 THEN s0 ELSE N(h[i - 1])]
        BY Zenon DEF Iterations, N, s0
      <3>2. h = [i \in 0 .. nxt |-> IF i = 0 THEN s0 ELSE N(h[i - 1])]
        BY Zenon, <2>6 DEF nxt
      <3> QED BY Zenon, <3>1, <3>2
    <2>8. nxt \in Nat
      BY DEF nxt
    <2> QED BY Zenon, <2>7, <2>8 DEF nxt
  <1> HIDE DEF S
  <1>3. Nat \subseteq S
    BY <1>1, <1>2, NatInd
  <1> QED BY <1>3 DEF S

\* scheduleWaitingQueries keeps the scheduler correct.
LEMMA ScheduleWaitingOk ==
  ASSUME Counting, NEW st, NEW m, NEW W \in SUBSET Tasks, ScheduleOk(st, m, W, {}),
         NEW n \in Nodes, NEW r \in Groups
  PROVE  ScheduleOk(scheduleWaitingQueries(st, n, r, m), m, W, {})
  <1> DEFINE last == Cardinality(Tasks) + Cardinality(Queries)
             F == CHOOSE f : f = Iterations(last, f, st, n, r, m)
             s0 == [st |-> st, stop |-> FALSE, error |-> {}]
             S == {j \in Nat : j <= last => F[j] \in Loops /\ ScheduleOk(F[j].st, m, W, {})}
  <1>1. scheduleWaitingQueries(st, n, r, m) = F[last].st
    BY Zenon DEF scheduleWaitingQueries, Iterations
  <1>2. last \in Nat
    BY DEF Counting
  <1> HIDE DEF last
  <1>3. F = Iterations(last, F, st, n, r, m)
    BY <1>2, IterationsExist
  <1> HIDE DEF F
  <1>4. F[0] = s0
    BY <1>2, <1>3 DEF Iterations
  <1>5. ASSUME NEW j \in Nat, j + 1 <= last PROVE F[j + 1] = ScheduleNext(F[j], n, r, m)
    <2>1. j + 1 \in 0 .. last /\ j + 1 # 0 /\ (j + 1) - 1 = j
      BY <1>2, <1>5
    <2>2. F[j + 1] = CHOOSE x \in {ScheduleNext(y, n, r, m) : y \in {F[(j + 1) - 1]}} : TRUE
      BY Zenon, <1>3, <2>1 DEF Iterations
    <2> QED BY <2>1, <2>2, IterationValue
  <1>6. 0 \in S
    <2>1. st \in Schedules
      BY DEF ScheduleOk
    <2>2. s0 \in Loops /\ s0.st = st
      BY <2>1 DEF Loops
    <2> QED BY <1>4, <2>2
  <1>7. ASSUME NEW j \in Nat, j \in S PROVE j + 1 \in S
    <2>1. CASE j + 1 <= last
      <3>1. j <= last
        BY <1>2, <2>1
      <3>2. F[j] \in Loops /\ ScheduleOk(F[j].st, m, W, {})
        BY <1>7, <3>1
      <3>3. F[j + 1] \in Loops /\ ScheduleOk(F[j + 1].st, m, W, {})
        BY <1>5, <2>1, <3>2, ScheduleNextOk
      <3> QED BY <3>3
    <2>2. CASE ~(j + 1 <= last)
      BY <2>2
    <2> QED BY <2>1, <2>2
  <1> HIDE DEF S
  <1>8. Nat \subseteq S
    BY <1>6, <1>7, NatInd
  <1>9. last \in S /\ last <= last
    BY <1>2, <1>8
  <1> QED BY <1>1, <1>9 DEF S
=============================================================================
