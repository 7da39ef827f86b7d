--------------------------- MODULE MinTSOScheduler ---------------------------
(***************************************************************************)
(* MinTSOScheduler: which MPP tasks of a node may start their threads. The *)
(* methods are operators on a state                                        *)
(*                                                                         *)
(*   group   the GroupEntry of each resource group of each node            *)
(*   global  global_estimated_thread_usage of each node                    *)
(*   waitq   waiting_tasks of each MPPGatherTaskSet                        *)
(*   entry   schedule_state of the MPPTaskScheduleEntry of each task       *)
(*                                                                         *)
(* All of them run under the mutex of the MPPTaskManager of their node,    *)
(* whose map of gather task sets is the parameter `sets`. A gather is an   *)
(* MPP gather on one node. The limits are not both zero: the scheduler is  *)
(* not disabled.                                                           *)
(***************************************************************************)
EXTENDS Integers, Sequences, FiniteSets, Functions

CONSTANTS
    Queries,          \* MPPQueryIds, in the order of their start timestamps
    Max_Query_Id,     \* MPPTaskId::Max_Query_Id
    Gathers, Tasks, Nodes, Groups,
    GroupOf,          \* the resource group of each query
    QueryOf, NodeOf,  \* the query and the node of each gather
    GatherOf,         \* the gather of each task
    needed_threads,   \* the estimated number of threads of each task
    thread_soft_limit, thread_hard_limit, active_set_soft_limit

ASSUME IdsAssumption ==
    /\ Queries \subseteq Nat /\ IsFiniteSet(Queries) /\ IsFiniteSet(Tasks)
    /\ Max_Query_Id \in Nat /\ \A q \in Queries : q < Max_Query_Id
    /\ GroupOf \in [Queries -> Groups]
    /\ QueryOf \in [Gathers -> Queries] /\ NodeOf \in [Gathers -> Nodes]
    /\ GatherOf \in [Tasks -> Gathers]
    /\ needed_threads \in [Tasks -> Nat \ {0}]

ASSUME LimitsAssumption ==
    /\ thread_soft_limit \in Nat /\ thread_hard_limit \in Nat
    /\ thread_soft_limit < thread_hard_limit
    /\ active_set_soft_limit \in Nat \ {0}

Smallest(S) == CHOOSE x \in S : \A y \in S : x <= y

\* An entry of group_entries; getOrCreateGroupEntry gives a missing one these
\* values.
NewGroup ==
    [exists |-> FALSE, waiting_set |-> {}, active_set |-> {},
     min_query_id |-> Max_Query_Id, estimated_thread_usage |-> 0]

NoSchedule ==
    [group |-> [n \in Nodes |-> [r \in Groups |-> NewGroup]],
     global |-> [n \in Nodes |-> 0],
     waitq |-> [g \in Gathers |-> <<>>],
     entry |-> [t \in Tasks |-> "WAITING"]]

getOrCreateGroupEntry(st, n, r) == [st.group[n][r] EXCEPT !.exists = TRUE]

\* MPPTaskScheduleEntry::schedule: only a waiting entry changes.
schedule(st, t, state) ==
    [st EXCEPT !.entry[t] = IF @ = "WAITING" THEN state ELSE @]

\* Mutant of RetireMinQueryId: waiting queries are not considered.
RetireAmongActive(e, q) ==
    IF q # e.min_query_id THEN e
    ELSE [e EXCEPT !.min_query_id = Smallest({Max_Query_Id} \cup e.active_set)]

\* updateMinQueryId with retired = true: elect the oldest query that is left.
RetireMinQueryId(e, q) ==
    IF q # e.min_query_id THEN e
    ELSE [e EXCEPT !.min_query_id =
             Smallest({Max_Query_Id} \cup e.active_set \cup e.waiting_set)]

\* Its result: the new oldest query has waiting tasks.
ForceScheduling(e, q) ==
    q = e.min_query_id /\ RetireMinQueryId(e, q).min_query_id \in e.waiting_set

\* Mutant of CanSchedule: the hard limit is checked before the new threads.
CanScheduleOneMore(st, n, q, t) ==
    LET e == getOrCreateGroupEntry(st, n, GroupOf[q])
    IN  \/ q <= e.min_query_id /\ st.global[n] <= thread_hard_limit
        \/ e.estimated_thread_usage + needed_threads[t] <= thread_soft_limit

\* check_for_new_min_tso || check_for_not_min_tso.
CanSchedule(st, n, q, t) ==
    LET e == getOrCreateGroupEntry(st, n, GroupOf[q])
    IN  \/ /\ q <= e.min_query_id
           /\ st.global[n] + needed_threads[t] <= thread_hard_limit
        \/ /\ Cardinality(e.active_set) < active_set_soft_limit \/ q \in e.active_set
           /\ e.estimated_thread_usage + needed_threads[t] <= thread_soft_limit

\* The branch of scheduleImp that admits the task. A task that has been
\* failed in the meantime uses no threads.
Admit(st, n, q, t) ==
    LET r == GroupOf[q]
        e == getOrCreateGroupEntry(st, n, r)
        threads == IF st.entry[t] = "WAITING" THEN needed_threads[t] ELSE 0
    IN  [schedule(st, t, "SCHEDULED") EXCEPT
            !.group[n][r] = [e EXCEPT
                !.min_query_id = IF q < @ THEN q ELSE @,
                !.active_set = @ \cup {q},
                !.estimated_thread_usage = @ + threads],
            !.global[n] = @ + threads]

\* Mutant of MustNotWait: a query that is older than the oldest one waits.
MustNotWaitIfMin(st, n, q) ==
    q = getOrCreateGroupEntry(st, n, GroupOf[q]).min_query_id

\* is_query_id_min of scheduleImp: too old to wait.
MustNotWait(st, n, q) ==
    q <= getOrCreateGroupEntry(st, n, GroupOf[q]).min_query_id

\* Mutant of Enqueue: the query is not put into the waiting set.
EnqueueTaskOnly(st, n, q, t) == [st EXCEPT !.waitq[GatherOf[t]] = Append(@, t)]

\* The branch of scheduleImp that makes a task wait.
Enqueue(st, n, q, t) ==
    LET r == GroupOf[q]
        e == getOrCreateGroupEntry(st, n, r)
    IN  [st EXCEPT !.group[n][r] = [e EXCEPT !.waiting_set = @ \cup {q}],
                   !.waitq[GatherOf[t]] = Append(@, t)]

Pop(st, g) == [st EXCEPT !.waitq[g] = Tail(@)]

\* One iteration of the loops of scheduleWaitingQueries. `stop` is its return,
\* `error` the gather for which has_error is set.
ScheduleNext(loop, n, r, sets) ==
    LET st == loop.st
        e == st.group[n][r]
        q == Smallest(e.waiting_set)
        local == {g \in Gathers : QueryOf[g] = q /\ NodeOf[g] = n}
        busy == {g \in local : sets[g].state # "None" /\ st.waitq[g] # <<>>}
        g == CHOOSE x \in busy : TRUE
        t == Head(st.waitq[g])
    IN  IF loop.stop \/ e.waiting_set = {} THEN loop
        ELSE IF \A x \in local : sets[x].state = "None"
        THEN [loop EXCEPT !.st.group[n][r] =
                 [RetireMinQueryId(e, q) EXCEPT !.active_set = @ \ {q},
                                                !.waiting_set = @ \ {q}]]
        ELSE IF busy = {}
        THEN [loop EXCEPT !.st.group[n][r].waiting_set = @ \ {q}]
        ELSE IF t \notin sets[g].visible
        THEN [loop EXCEPT !.st = Pop(st, g)]
        ELSE IF loop.error = {g}
        THEN [loop EXCEPT !.st = Pop(schedule(st, t, "EXCEEDED"), g)]
        ELSE IF CanSchedule(st, n, q, t)
        THEN [loop EXCEPT !.st = Pop(Admit(st, n, q, t), g)]
        ELSE IF MustNotWait(st, n, q)
        THEN [loop EXCEPT !.st = Pop(schedule(st, t, "EXCEEDED"), g), !.error = {g}]
        ELSE [loop EXCEPT !.stop = TRUE]

\* Each iteration but the last one removes a task or a query that waits.
scheduleWaitingQueries(st, n, r, sets) ==
    LET last == Cardinality(Tasks) + Cardinality(Queries)
        after[i \in 0 .. last] ==
            IF i = 0 THEN [st |-> st, stop |-> FALSE, error |-> {}]
            ELSE CHOOSE x \in {ScheduleNext(y, n, r, sets) : y \in {after[i - 1]}} : TRUE
    IN  after[last].st

\* deleteQuery, first part: the waiting tasks of cancelled gathers fail.
FailWaiting(st, gs, sets) ==
    [st EXCEPT
        !.entry = [t \in Tasks |->
            IF /\ GatherOf[t] \in gs /\ t \in sets[GatherOf[t]].visible
               /\ t \in Range(st.waitq[GatherOf[t]]) /\ st.entry[t] = "WAITING"
            THEN "FAILED" ELSE st.entry[t]],
        !.waitq = [g \in Gathers |-> IF g \in gs THEN <<>> ELSE st.waitq[g]]]

\* deleteQuery, last part: all gathers of the query are deleted.
DropQuery(st, n, q, sets) ==
    LET r == GroupOf[q]
        e == getOrCreateGroupEntry(st, n, r)
        left == [e EXCEPT !.active_set = @ \ {q}, !.waiting_set = @ \ {q}]
        dropped == [st EXCEPT !.group[n][r] = RetireMinQueryId(left, q)]
    IN  IF ForceScheduling(left, q)
        THEN scheduleWaitingQueries(dropped, n, r, sets)
        ELSE dropped

\* deleteQuery for the gathers gs of the query that are still in the map.
deleteQuery(st, n, q, is_cancelled, gs, sets) ==
    LET present == {g \in Gathers : /\ QueryOf[g] = q /\ NodeOf[g] = n
                                    /\ sets[g].state # "None"}
        made == [st EXCEPT !.group[n][GroupOf[q]].exists = TRUE]
        freed == IF is_cancelled THEN FailWaiting(made, gs, sets) ELSE made
    IN  IF present \subseteq gs THEN DropQuery(freed, n, q, sets) ELSE freed

\* An entry without queries and threads is erased.
EraseIfIdle(st, n, r) ==
    LET e == st.group[n][r]
    IN  IF e.active_set \cup e.waiting_set = {} /\ e.estimated_thread_usage = 0
        THEN [st EXCEPT !.group[n][r] = NewGroup]
        ELSE st

releaseThreadsThenSchedule(st, n, r, threads, sets) ==
    LET released == [st EXCEPT !.group[n][r].estimated_thread_usage = @ - threads,
                               !.global[n] = @ - threads]
        after == {scheduleWaitingQueries(released, n, r, sets)}
    IN  CHOOSE x \in {EraseIfIdle(y, n, r) : y \in after} : TRUE

\* Its RUNTIME_CHECK and RUNTIME_ASSERT.
releaseThreadsOk(st, n, r, threads) ==
    st.group[n][r].exists /\ st.group[n][r].estimated_thread_usage >= threads

\* The threads that a set of tasks needs.
Threads(S) == Cardinality(UNION {{t} \X (1 .. needed_threads[t]) : t \in S})

============================================================================
