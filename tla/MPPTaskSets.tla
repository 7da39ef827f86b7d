---------------------------- MODULE MPPTaskSets ----------------------------
(***************************************************************************)
(* The state of the MPPTaskManagers of all nodes and of what runs on them, *)
(* and the helpers of the sections under their mutexes: looking up, adding *)
(* and removing an MPPGatherTaskSet, and the cache of aborted gathers.     *)
(***************************************************************************)
EXTENDS MinTSOScheduler

CONSTANTS
    Calls,      \* EstablishMPPConnection requests
    SenderOf,   \* the task whose tunnel a request asks for
    CacheSize,  \* ABORTED_MPPGATHER_CACHE_SIZE
    Workloads   \* records [tasks, calls, cancels, faults]: the tasks TiDB dispatches, the
                \* requests, the gathers TiDB may cancel although nothing failed, the
                \* tasks that may fail while they prepare or execute

ASSUME CallsAssumption ==
    /\ SenderOf \in [Calls -> Tasks]
    /\ CacheSize \in Nat \ {0}
    /\ Workloads \subseteq [tasks : SUBSET Tasks, calls : SUBSET Calls,
                             cancels : SUBSET Gathers, faults : SUBSET Tasks]

VARIABLES
    work,    \* the workload, never changes
    sets,    \* mpp_query_map: the MPPGatherTaskSet of each gather
    cache,   \* aborted_query_gather_cache of each node, newest first
    sched,   \* the schedulers
    pc,      \* where the threads of each task are
    status,  \* MPPTask::status
    abort,   \* the call of abortMPPGather for each gather
    call,    \* the state of each EstablishCallData
    failed   \* TRUE: an assertion has failed

vars == <<work, sets, cache, sched, pc, status, abort, call, failed>>

\* A query is in mpp_query_map exactly when one of its gathers is.
NoSet == [state |-> "None", tasks |-> {}, visible |-> {}, alarms |-> {},
          finished |-> {}]
NewSet == [NoSet EXCEPT !.state = "Normal"]

NoAbort == [at |-> "none", todo |-> {}, now |-> {}]

Init ==
    /\ work \in Workloads
    /\ sets = [g \in Gathers |-> NoSet]
    /\ cache = [n \in Nodes |-> <<>>]
    /\ sched = NoSchedule
    /\ pc = [t \in Tasks |-> IF t \in work.tasks THEN "new" ELSE "gone"]
    /\ status = [t \in Tasks |-> "INITIALIZING"]
    /\ abort = [g \in Gathers |-> IF \E t \in work.tasks : GatherOf[t] = g
                                  THEN NoAbort ELSE [NoAbort EXCEPT !.at = "done"]]
    /\ call = [c \in Calls |-> IF c \in work.calls THEN "NEW_REQUEST" ELSE "answered"]
    /\ failed = FALSE

----------------------------------------------------------------------------
(* Helpers of the sections under the mutex                                 *)

\* Mutant of Rejected: only the cache is asked.
RejectedByCache(g) == g \in Range(cache[NodeOf[g]])

\* getMPPQueryAndGatherTaskSet returns the reason of an abort.
Rejected(g) ==
    g \in Range(cache[NodeOf[g]]) \/ sets[g].state \in {"Aborting", "Aborted"}

\* addMPPQuery and addMPPGatherTaskSet, if they are not there.
SetOf(g) == IF sets[g].state = "None" THEN NewSet ELSE sets[g]

\* removeMPPGatherTaskSet: the scheduler hears of it when no gather of the
\* query is left. `m` are the gather task sets with the changes so far.
removeMPPGatherTaskSet(g, m, on_abort) ==
    LET q == QueryOf[g]
        n == NodeOf[g]
        st == [sched EXCEPT !.waitq[g] = <<>>]
    IN  /\ sets' = [m EXCEPT ![g] = NoSet]
        /\ sched' = IF \E x \in Gathers : /\ QueryOf[x] = q /\ NodeOf[x] = n
                                          /\ sets'[x].state # "None"
                    THEN st
                    ELSE deleteQuery(st, n, q, on_abort, {}, sets')

\* Mutant of CacheAdd: nothing is evicted.
CacheAddGrows(c, g) == IF g \in Range(c) THEN c ELSE <<g>> \o c

\* AbortedMPPGatherCache::add.
CacheAdd(c, g) ==
    IF g \in Range(c) THEN c
    ELSE <<g>> \o SubSeq(c, 1, IF Len(c) >= CacheSize THEN CacheSize - 1 ELSE Len(c))

============================================================================
