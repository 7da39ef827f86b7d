------------------------- MODULE ScheduleInvariant -------------------------
(***************************************************************************)
(* What makes MinTSOScheduler correct for every set of nodes, resource      *)
(* groups, queries and tasks: an invariant of its state st, given the gather*)
(* task sets m of the managers, the tasks W that sleep in waitForSchedule   *)
(* and the queries X that are about to be dropped. Each of its operators    *)
(* keeps it.                                                                *)
(***************************************************************************)
EXTENDS MinTSOScheduler

QueryIds == Queries \cup {Max_Query_Id}
GroupSet == [exists : BOOLEAN, waiting_set : SUBSET Queries, active_set : SUBSET Queries,
             min_query_id : QueryIds, estimated_thread_usage : Int]
Entries == {"WAITING", "SCHEDULED", "FAILED", "EXCEEDED", "COMPLETED"}
Schedules == [group : [Nodes -> [Groups -> GroupSet]], global : [Nodes -> Int],
              waitq : [Gathers -> Seq(Tasks)], entry : [Tasks -> Entries]]

\* A query is in the manager of n whose gather task sets are m, or it is excused
\* (X) because it is about to be dropped.
ManagedIn(m, X, n, q) ==
    <<n, q>> \in X \/ \E g \in Gathers : QueryOf[g] = q /\ NodeOf[g] = n /\ m[g].state # "None"

ScheduledOf(entry, n, rs) ==
    {t \in Tasks : /\ NodeOf[GatherOf[t]] = n /\ GroupOf[QueryOf[GatherOf[t]]] \in rs
                   /\ entry[t] = "SCHEDULED"}

\* The queries of a group belong to it and are in the manager; min_query_id is
\* the oldest of them or older, and is in the manager too.
QueriesOk(e, n, r, m, X) ==
    /\ \A q \in e.active_set \cup e.waiting_set :
          GroupOf[q] = r /\ e.min_query_id <= q /\ ManagedIn(m, X, n, q)
    /\ e.min_query_id # Max_Query_Id =>
          GroupOf[e.min_query_id] = r /\ ManagedIn(m, X, n, e.min_query_id)

\* A group counts the threads of its tasks, and is erased only without any.
UsageOk(e, entry, n, r) ==
    /\ ~e.exists => e = NewGroup
    /\ e.estimated_thread_usage = Threads(ScheduledOf(entry, n, {r}))
    /\ e.estimated_thread_usage <= thread_hard_limit

\* A queued task is queued at its own gather, and a sleeping one (W) that nobody
\* has woken is queued, visible and known to its group.
WaiterOk(st, m, t) ==
    LET g == GatherOf[t] IN
    /\ t \in Range(st.waitq[g]) /\ t \in m[g].visible /\ m[g].state # "None"
    /\ QueryOf[g] \in st.group[NodeOf[g]][GroupOf[QueryOf[g]]].waiting_set

WaitersOk(st, m, W) ==
    /\ \A g \in Gathers : \A t \in Range(st.waitq[g]) : GatherOf[t] = g
    /\ \A t \in W : st.entry[t] = "WAITING" => WaiterOk(st, m, t)

CountsOk(st) ==
    \A n \in Nodes :
        /\ st.global[n] = Threads(ScheduledOf(st.entry, n, Groups))
        /\ \A r \in Groups : UsageOk(st.group[n][r], st.entry, n, r)

GroupsOk(st, m, X) == \A n \in Nodes, r \in Groups : QueriesOk(st.group[n][r], n, r, m, X)

ScheduleOk(st, m, W, X) ==
    st \in Schedules /\ CountsOk(st) /\ GroupsOk(st, m, X) /\ WaitersOk(st, m, W)
============================================================================
