------------------------------ MODULE MPPSets ------------------------------
(*****************************************************************************)
(* Lemmas about the gather task sets and the cache of aborted gathers, which *)
(* the proofs of the actions of MPPTaskManager share: what keeps the         *)
(* invariant of MPPInvariant when one task, one set or one abort changes.    *)
(*****************************************************************************)
EXTENDS ScheduleRelease

\* The fields of an MPPGatherTaskSet.
LEMMA SetFields ==
  ASSUME NEW s \in TaskSets
  PROVE  /\ s.state \in {"None", "Normal", "Aborting", "Aborted"} /\ s.tasks \in SUBSET Tasks
         /\ s.visible \in SUBSET Tasks /\ s.alarms \in SUBSET Calls /\ s.finished \in SUBSET Tasks
  BY DEF TaskSets

\* What the invariant says.
LEMMA Unpack ==
  ASSUME IInv
  PROVE  /\ Typed /\ ScheduleOk(sched, sets, Sleeping, {}) /\ ManagerOk
         /\ \A g \in Gathers : sets[g] \in TaskSets /\ SetOk(g) /\ GatherOk(g)
         /\ \A t \in Tasks : TaskOk(t) /\ GatherOf[t] \in Gathers
         /\ Sleeping \in SUBSET Tasks /\ ~failed
  BY Belongs DEF IInv, ManagerOk, Typed, Sleeping

\* A step concerns one gather: what it says of the others stays true.
LEMMA OthersOk ==
  ASSUME IInv, NEW g \in Gathers,
         \A x \in Gathers : x # g => sets'[x] = sets[x] /\ abort'[x] = abort[x],
         \A c \in Calls : GatherOf[SenderOf[c]] # g => call'[c] = call[c],
         \A t \in Tasks : GatherOf[t] # g => pc'[t] = pc[t],
         \A n \in Nodes : \/ cache'[n] = cache[n]
                          \/ /\ n = NodeOf[g] /\ Len(cache'[n]) <= CacheSize
                             /\ Range(cache'[n]) \subseteq Range(cache[n]) \cup {g},
         ~failed', SetOk(g)', GatherOk(g)',
         \A t \in Tasks : GatherOf[t] = g => TaskOk(t)'
  PROVE  ManagerOk'
  <1>1. ManagerOk /\ Typed
    BY DEF IInv
  <1>2. ASSUME NEW x \in Gathers PROVE SetOk(x)'
    <2>1. CASE x = g
      BY <2>1
    <2>2. CASE x # g
      <3>1. SetOk(x) /\ sets'[x] = sets[x] /\ sets[x].alarms \subseteq Calls
        BY <1>1, <2>2, SetFields DEF ManagerOk, Typed
      <3> QED BY <2>2, <3>1 DEF SetOk
    <2> QED BY <2>1, <2>2
  <1>3. ASSUME NEW x \in Gathers PROVE GatherOk(x)'
    <2>1. CASE x = g
      BY <2>1
    <2>2. CASE x # g
      <3>1. GatherOk(x) /\ sets'[x] = sets[x] /\ abort'[x] = abort[x] /\ NodeOf[x] \in Nodes
        BY <1>1, <2>2, Belongs DEF ManagerOk
      <3>2. x \in Range(cache'[NodeOf[x]]) => x \in Range(cache[NodeOf[x]])
        BY <2>2, <3>1
      <3> QED BY <3>1, <3>2 DEF GatherOk
    <2> QED BY <2>1, <2>2
  <1>4. ASSUME NEW t \in Tasks PROVE TaskOk(t)'
    <2>1. CASE GatherOf[t] = g
      BY <2>1
    <2>2. CASE GatherOf[t] # g
      BY <1>1, <2>2, Belongs DEF ManagerOk, TaskOk
    <2> QED BY <2>1, <2>2
  <1>5. \A n \in Nodes : Len(cache'[n]) <= CacheSize
    BY <1>1 DEF ManagerOk
  <1> QED BY <1>2, <1>3, <1>4, <1>5 DEF ManagerOk

\* A step of one task that leaves the gather task sets alone.
LEMMA TaskOnly ==
  ASSUME IInv, NEW t \in Tasks, NEW p \in Stages, pc' = [pc EXCEPT ![t] = p],
         status' \in [Tasks -> Statuses],
         UNCHANGED <<work, sets, cache, abort, call, failed>>,
         TaskOk(t)', ScheduleOk(sched', sets, Sleeping', {})
  PROVE  IInv'
  <1>1. Typed /\ \A g \in Gathers : sets[g] \in TaskSets /\ SetOk(g) /\ GatherOk(g)
    BY Unpack
  <1>2. \A u \in Tasks : TaskOk(u) /\ GatherOf[u] \in Gathers
    BY Unpack
  <1>3. pc' \in [Tasks -> Stages] /\ \A u \in Tasks : u # t => pc'[u] = pc[u]
    BY <1>1 DEF Typed
  <1>4. Typed'
    <2>1. sched' \in Schedules
      BY DEF ScheduleOk
    <2> QED BY <1>1, <1>3, <2>1 DEF Typed, Statuses
  <1>5. ManagerOk'
    <2> DEFINE g == GatherOf[t]
    <2>1. g \in Gathers
      BY <1>2
    <2>2. SetOk(g)' /\ GatherOk(g)'
      BY <1>1, <2>1 DEF SetOk, GatherOk
    <2>3. \A u \in Tasks : TaskOk(u)'
      BY <1>2, <1>3 DEF TaskOk
    <2>4. ~failed'
      BY Unpack
    <2> HIDE DEF g
    <2>5. \A u \in Tasks : GatherOf[u] # g => pc'[u] = pc[u]
      BY <1>3 DEF g
    <2> QED BY <2>1, <2>2, <2>3, <2>4, <2>5, OthersOk
  <1>6. ScheduleOk(sched', sets', Sleeping', {})
    OBVIOUS
  <1> QED BY <1>4, <1>5, <1>6 DEF IInv

\* Nobody starts to sleep.
LEMMA Awoken ==
  ASSUME IInv, NEW t \in Tasks, NEW p, p # "wait", pc' = [pc EXCEPT ![t] = p]
  PROVE  Sleeping' \in SUBSET Sleeping
  <1>1. pc \in [Tasks -> Stages]
    BY DEF IInv, Typed
  <1> QED BY <1>1 DEF Sleeping

\* MPPHandler and runImpl move a task on.
LEMMA MoveOk ==
  ASSUME IInv, NEW t \in Tasks, NEW p \in Stages, p # "wait", pc' = [pc EXCEPT ![t] = p],
         status' \in [Tasks -> Statuses],
         UNCHANGED <<work, sets, cache, sched, abort, call, failed>>,
         \/ p \in {"destroy", "gone"}
         \/ p = "unregister" /\ t \in sets[GatherOf[t]].tasks
         \/ p # "registered" /\ t \in sets[GatherOf[t]].tasks /\ t \in sets[GatherOf[t]].visible
  PROVE  IInv'
  <1>1. /\ Typed /\ ScheduleOk(sched, sets, Sleeping, {}) /\ Sleeping \in SUBSET Tasks
        /\ pc \in [Tasks -> Stages]
    BY Unpack DEF Typed
  <1>2. Sleeping' \in SUBSET Sleeping
    BY Zenon, Awoken
  <1>3. ScheduleOk(sched', sets, Sleeping', {})
    BY <1>1, <1>2, ManagerChange
  <1>4. TaskOk(t)'
    BY <1>1 DEF TaskOk
  <1> QED BY Zenon, <1>3, <1>4, TaskOnly

\* A step that gives one gather task set another value.
LEMMA SetStep ==
  ASSUME IInv, NEW g \in Gathers, NEW s \in TaskSets, sets' = [sets EXCEPT ![g] = s]
  PROVE  /\ sets' \in [Gathers -> TaskSets] /\ sets'[g] = s
         /\ \A x \in Gathers : x # g => sets'[x] = sets[x]
  <1>1. sets \in [Gathers -> TaskSets]
    BY DEF IInv, Typed
  <1> QED BY <1>1

\* The gather task set that is not there.
LEMMA NoSetType == /\ NoSet \in TaskSets /\ NoSet.state = "None" /\ NoSet.tasks = {} /\ NoSet.visible = {}
                   /\ NoSet.alarms = {} /\ NoSet.finished = {}
  BY DEF NoSet, TaskSets

\* The scheduler does not mind a gather that only grows.
LEMMA GrowOk ==
  ASSUME IInv, NEW g \in Gathers, \A x \in Gathers : x # g => sets'[x] = sets[x],
         sets'[g].state # "None" \/ sets[g].state = "None",
         \A t \in Sleeping' : GatherOf[t] = g /\ t \in sets[g].visible => t \in sets'[g].visible,
         sched' = sched, Sleeping' \in SUBSET Sleeping
  PROVE  ScheduleOk(sched', sets', Sleeping', {})
  <1>1. ScheduleOk(sched, sets, Sleeping, {}) /\ Sleeping \in SUBSET Tasks
    BY Unpack
  <1>2. \A x \in Gathers : sets[x].state # "None" => sets'[x].state # "None"
    OBVIOUS
  <1>3. \A t \in Sleeping' : t \in sets[GatherOf[t]].visible => t \in sets'[GatherOf[t]].visible
    BY <1>1, Belongs
  <1>4. ScheduleOk(sched, sets', Sleeping', {})
    BY <1>1, <1>2, <1>3, ManagerChange
  <1> QED BY <1>4

\* The invariant from its parts.
LEMMA Pack ==
  ASSUME IInv, UNCHANGED work, NEW g \in Gathers,
         sets' \in [Gathers -> TaskSets], \A x \in Gathers : x # g => sets'[x] = sets[x],
         cache' = cache, abort' = abort,
         pc' \in [Tasks -> Stages], \A t \in Tasks : GatherOf[t] # g => pc'[t] = pc[t],
         status' \in [Tasks -> Statuses],
         call' \in [Calls -> {"NEW_REQUEST", "WAIT_TUNNEL", "answered"}],
         \A c \in Calls : GatherOf[SenderOf[c]] # g => call'[c] = call[c],
         failed' = FALSE, SetOk(g)', GatherOk(g)',
         \A t \in Tasks : GatherOf[t] = g => TaskOk(t)',
         ScheduleOk(sched', sets', Sleeping', {})
  PROVE  IInv'
  <1>1. Typed
    BY DEF IInv
  <1>2. sched' \in Schedules
    BY DEF ScheduleOk
  <1>3. Typed'
    BY Zenon, <1>1, <1>2 DEF Typed, Statuses
  <1>4. ManagerOk'
    BY OthersOk
  <1> QED BY <1>3, <1>4 DEF IInv

\* removeMPPGatherTaskSet for a gather without sleeping tasks.
LEMMA RemoveOk ==
  ASSUME Counting, IInv, NEW g \in Gathers, NEW m \in [Gathers -> TaskSets],
         \A x \in Gathers : x # g => m[x] = sets[x], NEW b \in BOOLEAN,
         removeMPPGatherTaskSet(g, m, b),
         \A t \in Tasks : GatherOf[t] = g => pc[t] # "wait"
  PROVE  /\ sets' \in [Gathers -> TaskSets] /\ sets'[g] = NoSet
         /\ \A x \in Gathers : x # g => sets'[x] = sets[x]
         /\ ScheduleOk(sched', sets', Sleeping, {})
  <1> DEFINE q == QueryOf[g]
             n == NodeOf[g]
             st == [sched EXCEPT !.waitq[g] = <<>>]
             there == \E x \in Gathers : QueryOf[x] = q /\ NodeOf[x] = n /\ sets'[x].state # "None"
  <1>1. /\ sets' = [m EXCEPT ![g] = NoSet]
        /\ sched' = IF there THEN st ELSE deleteQuery(st, n, q, b, {}, sets')
    BY DEF removeMPPGatherTaskSet
  <1>2. /\ sets' \in [Gathers -> TaskSets] /\ sets'[g] = NoSet
        /\ \A x \in Gathers : x # g => sets'[x] = sets[x]
    BY <1>1, NoSetType
  <1>3. ScheduleOk(sched, sets, Sleeping, {}) /\ Sleeping \in SUBSET Tasks
    BY Unpack
  <1>4. \A t \in Sleeping : GatherOf[t] # g
    BY DEF Sleeping
  <1>5. ScheduleOk(st, sets', Sleeping, {<<n, q>>})
    BY Zenon, <1>2, <1>3, <1>4, GatherGone
  <1>6. n \in Nodes /\ q \in Queries
    BY Belongs
  <1> HIDE DEF st
  <1>7. CASE there
    <2>1. ScheduleOk(st, sets', Sleeping, {})
      BY Zenon, <1>5, <1>6, <1>7, Unexcuse
    <2> QED BY Zenon, <1>1, <1>2, <1>7, <2>1
  <1>8. CASE ~there
    <2>1. ScheduleOk(deleteQuery(st, n, q, b, {}, sets'), sets', Sleeping, {})
      BY <1>3, <1>5, <1>6, DeleteQueryOk
    <2> HIDE DEF there
    <2> QED BY <1>1, <1>2, <1>8, <2>1
  <1> QED BY <1>7, <1>8

\* AbortedMPPGatherCache::add adds the gather and never exceeds its size.
LEMMA CacheAddOk ==
  ASSUME NEW c \in Seq(Gathers), Len(c) <= CacheSize, NEW g \in Gathers
  PROVE  /\ CacheAdd(c, g) \in Seq(Gathers) /\ Len(CacheAdd(c, g)) <= CacheSize
         /\ Range(CacheAdd(c, g)) \subseteq Range(c) \cup {g}
  <1>0. CacheSize \in Nat /\ CacheSize # 0
    BY CallsAssumption
  <1>1. CASE g \in Range(c)
    <2>1. CacheAdd(c, g) = c
      BY <1>1 DEF CacheAdd
    <2> QED BY <2>1
  <1>2. CASE g \notin Range(c)
    <2> DEFINE k == IF Len(c) >= CacheSize THEN CacheSize - 1 ELSE Len(c)
               d == SubSeq(c, 1, k)
    <2>1. k \in Nat /\ k <= Len(c) /\ k + 1 <= CacheSize
      BY <1>0
    <2>2. CacheAdd(c, g) = <<g>> \o d
      BY Zenon, <1>2 DEF CacheAdd
    <2> HIDE DEF k
    <2>3. d \in Seq(Gathers) /\ Len(d) = k /\ \A i \in 1 .. k : d[i] = c[i]
      BY <2>1
    <2> HIDE DEF d
    <2> DEFINE f == <<g>> \o d
    <2>4. f \in Seq(Gathers) /\ Len(f) = k + 1 /\ f[1] = g /\ \A i \in 2 .. k + 1 : f[i] = d[i - 1]
      BY <2>1, <2>3
    <2> HIDE DEF f
    <2>5. ASSUME NEW x \in Range(f) PROVE x \in Range(c) \cup {g}
      <3>1. PICK i \in 1 .. k + 1 : x = f[i]
        BY <2>1, <2>4 DEF Range
      <3>2. CASE i = 1
        BY <2>4, <3>1, <3>2
      <3>3. CASE i # 1
        <4>1. i - 1 \in 1 .. k /\ i \in 2 .. k + 1
          BY <2>1, <3>1, <3>3
        <4>2. x = c[i - 1] /\ i - 1 \in DOMAIN c
          BY <2>1, <2>3, <2>4, <3>1, <4>1
        <4> QED BY <4>2 DEF Range
      <3> QED BY <3>2, <3>3
    <2> QED BY <2>1, <2>2, <2>4, <2>5 DEF f
  <1> QED BY <1>1, <1>2

\* A step of abortMPPGather, from its parts.
LEMMA PackAbort ==
  ASSUME IInv, UNCHANGED <<work, pc, call, failed>>, NEW g \in Gathers,
         sets' \in [Gathers -> TaskSets], \A x \in Gathers : x # g => sets'[x] = sets[x],
         cache' = cache \/ cache' = [cache EXCEPT ![NodeOf[g]] = CacheAdd(@, g)],
         NEW a \in Aborts, abort' = [abort EXCEPT ![g] = a],
         status' \in [Tasks -> Statuses], SetOk(g)',
         a.at = "loop" => sets'[g].state = "Aborting",
         sets'[g].state = "Normal" => cache' = cache /\ sets[g].state = "Normal",
         \A t \in Tasks : GatherOf[t] = g => TaskOk(t)',
         ScheduleOk(sched', sets', Sleeping', {})
  PROVE  IInv'
  <1> DEFINE n == NodeOf[g]
  <1>1. Typed /\ ManagerOk /\ n \in Nodes /\ GatherOk(g)
    BY Belongs DEF IInv, ManagerOk
  <1>2. sched' \in Schedules
    BY DEF ScheduleOk
  <1>3. abort' \in [Gathers -> Aborts] /\ abort'[g] = a /\ \A x \in Gathers : x # g => abort'[x] = abort[x]
    <2>1. abort \in [Gathers -> Aborts]
      BY <1>1 DEF Typed, Aborts
    <2> QED BY <2>1
  <1>4. /\ cache' \in [Nodes -> Seq(Gathers)]
        /\ \A x \in Nodes : \/ cache'[x] = cache[x]
                            \/ /\ x = n /\ Len(cache'[x]) <= CacheSize
                               /\ Range(cache'[x]) \subseteq Range(cache[x]) \cup {g}
    <2>1. cache \in [Nodes -> Seq(Gathers)] /\ Len(cache[n]) <= CacheSize
      BY <1>1 DEF Typed, ManagerOk
    <2>2. CASE cache' = cache
      BY <2>1, <2>2
    <2>3. CASE cache' = [cache EXCEPT ![n] = CacheAdd(@, g)]
      <3> DEFINE c == CacheAdd(cache[n], g)
      <3>1. /\ c \in Seq(Gathers) /\ Len(c) <= CacheSize
            /\ Range(c) \subseteq Range(cache[n]) \cup {g}
        BY <1>1, <2>1, CacheAddOk
      <3>2. cache' = [cache EXCEPT ![n] = c]
        BY Zenon, <2>3
      <3> HIDE DEF c, n
      <3>3. /\ cache' \in [Nodes -> Seq(Gathers)] /\ cache'[n] = c
            /\ \A x \in Nodes : x # n => cache'[x] = cache[x]
        BY ONLY <1>1, <2>1, <3>1, <3>2
      <3> QED BY Zenon, <3>1, <3>3
    <2> QED BY Zenon, <2>2, <2>3
  <1>5. Typed'
    BY Zenon, <1>1, <1>2, <1>3, <1>4 DEF Typed
  <1>6. GatherOk(g)'
    BY Zenon, <1>1, <1>3 DEF GatherOk
  <1>7. ManagerOk'
    BY Zenon, <1>3, <1>4, <1>6, OthersOk, Unpack
  <1> QED BY <1>5, <1>7 DEF IInv

\* At the start nothing is scheduled and no gather is there.
LEMMA InitOk ==
  ASSUME Counting, Init
  PROVE  IInv
  <1>1. sets = [g \in Gathers |-> NoSet] /\ sched = NoSchedule /\ failed = FALSE /\ cache = [n \in Nodes |-> <<>>]
    BY DEF Init
  <1>2. /\ pc \in [Tasks -> {"new", "gone"}]
        /\ abort \in [Gathers -> Aborts] /\ \A g \in Gathers : abort[g].at # "loop"
    <2>1. pc \in [Tasks -> {"new", "gone"}]
      BY DEF Init
    <2>2. NoAbort \in Aborts /\ NoAbort.at = "none" /\ [NoAbort EXCEPT !.at = "done"] \in Aborts
          /\ [NoAbort EXCEPT !.at = "done"].at = "done"
      BY DEF NoAbort, Aborts
    <2>3. abort = [g \in Gathers |-> IF \E t \in work.tasks : GatherOf[t] = g
                                     THEN NoAbort ELSE [NoAbort EXCEPT !.at = "done"]]
      BY DEF Init
    <2>4. \A g \in Gathers : abort[g] \in Aborts /\ abort[g].at # "loop"
      BY Zenon, <2>2, <2>3
    <2> QED BY <2>1, <2>3, <2>4
  <1>3. NewGroup \in GroupSet /\ NewGroup.estimated_thread_usage = 0 /\ NewGroup.active_set = {}
        /\ NewGroup.waiting_set = {} /\ NewGroup.min_query_id = Max_Query_Id
    BY Belongs DEF NewGroup, GroupSet
  <1>4. /\ sched \in Schedules /\ \A t \in Tasks : sched.entry[t] = "WAITING"
        /\ \A n \in Nodes : sched.global[n] = 0
        /\ \A n \in Nodes, r \in Groups : sched.group[n][r] = NewGroup
        /\ \A g \in Gathers : sched.waitq[g] = <<>>
    BY <1>1, <1>3 DEF NoSchedule, Schedules, Entries
  <1>5. Sleeping = {}
    BY <1>2 DEF Sleeping
  <1>6. ScheduleOk(sched, sets, Sleeping, {})
    <2>1. \A n, rs : ScheduledOf(sched.entry, n, rs) = {}
      BY <1>4 DEF ScheduledOf
    <2>2. thread_hard_limit \in Nat /\ Threads({}) = 0
      BY LimitsAssumption DEF Counting
    <2>3. CountsOk(sched)
      <3>1. \A n \in Nodes, r \in Groups : UsageOk(NewGroup, sched.entry, n, r)
        BY <1>3, <2>1, <2>2 DEF UsageOk
      <3> QED BY Zenon, <1>4, <2>1, <2>2, <3>1 DEF CountsOk
    <2>4. GroupsOk(sched, sets, {})
      <3>1. \A n \in Nodes, r \in Groups : QueriesOk(NewGroup, n, r, sets, {})
        BY <1>3 DEF QueriesOk
      <3> QED BY <1>4, <3>1 DEF GroupsOk
    <2>5. WaitersOk(sched, sets, Sleeping)
      <3>1. Range(<<>>) = {}
        BY DEF Range
      <3> QED BY <1>4, <1>5, <3>1 DEF WaitersOk
    <2> QED BY <1>4, <2>3, <2>4, <2>5 DEF ScheduleOk
  <1>7. Typed
    <2>1. /\ work \in Workloads /\ status = [t \in Tasks |-> "INITIALIZING"]
          /\ call = [c \in Calls |-> IF c \in work.calls THEN "NEW_REQUEST" ELSE "answered"]
      BY DEF Init
    <2>2. cache \in [Nodes -> Seq(Gathers)] /\ sets \in [Gathers -> TaskSets] /\ pc \in [Tasks -> Stages]
      BY <1>1, <1>2, NoSetType DEF Stages
    <2>3. /\ status \in [Tasks -> Statuses]
          /\ call \in [Calls -> {"NEW_REQUEST", "WAIT_TUNNEL", "answered"}] /\ failed \in BOOLEAN
      BY Zenon, <1>1, <2>1 DEF Statuses
    <2>4. abort \in [Gathers -> Aborts]
      BY Zenon, <1>2
    <2> QED BY Zenon, <1>4, <2>1, <2>2, <2>3, <2>4 DEF Typed
  <1>8. ManagerOk
    <2>1. \A g \in Gathers : SetOk(g)
      BY <1>1, NoSetType DEF SetOk
    <2>2. \A g \in Gathers : GatherOk(g)
      BY <1>1, <1>2, NoSetType DEF GatherOk
    <2>3. \A t \in Tasks : TaskOk(t)
      BY <1>2 DEF TaskOk
    <2>4. \A n \in Nodes : Len(cache[n]) <= CacheSize
      BY <1>1, CallsAssumption
    <2> QED BY <1>1, <2>1, <2>2, <2>3, <2>4 DEF ManagerOk
  <1> QED BY <1>6, <1>7, <1>8 DEF IInv
=============================================================================
