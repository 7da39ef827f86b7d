---------------------------- MODULE MPPInvariant ----------------------------
(***************************************************************************)
(* What makes MPPTaskManager correct for every set of nodes, queries and    *)
(* tasks: the invariant of its scheduler, and one that ties the tasks, the  *)
(* aborts and the requests to the gather task sets.                         *)
(***************************************************************************)
EXTENDS MPPTaskSets, ScheduleInvariant

TaskSets == [state : {"None", "Normal", "Aborting", "Aborted"}, tasks : SUBSET Tasks,
             visible : SUBSET Tasks, alarms : SUBSET Calls, finished : SUBSET Tasks]
Stages == {"new", "registered", "active", "preprocess", "wait", "scheduled", "execute",
           "unregister", "destroy", "gone"}

Statuses == {"INITIALIZING", "RUNNING", "FINISHED", "CANCELLED", "FAILED"}
Aborts == [at : {"none", "loop", "done"}, todo : SUBSET Tasks, now : SUBSET Tasks]

Typed ==
    /\ work \in Workloads
    /\ sets \in [Gathers -> TaskSets]
    /\ cache \in [Nodes -> Seq(Gathers)]
    /\ sched \in Schedules
    /\ pc \in [Tasks -> Stages]
    /\ status \in [Tasks -> Statuses]
    /\ abort \in [Gathers -> Aborts]
    /\ call \in [Calls -> {"NEW_REQUEST", "WAIT_TUNNEL", "answered"}]
    /\ failed \in BOOLEAN

Sleeping == {t \in Tasks : pc[t] = "wait"}

\* A set that is not there is empty; the alarms of a set are those of requests
\* that still wait, for tasks that are not visible; an abort has no alarms left.
SetOk(g) ==
    /\ sets[g].state = "None" => sets[g] = NoSet
    /\ sets[g].visible \subseteq sets[g].tasks
    /\ \A t \in sets[g].tasks : GatherOf[t] = g
    /\ \A c \in sets[g].alarms :
          /\ call[c] = "WAIT_TUNNEL" /\ GatherOf[SenderOf[c]] = g /\ SenderOf[c] \notin sets[g].visible
    /\ sets[g].state \in {"Aborting", "Aborted"} => sets[g].alarms = {}
    /\ sets[g].state # "None" => sets[g].tasks # {} \/ sets[g].alarms # {}

\* A task is in its set from registerTask to unregisterTask, and visible from
\* makeTaskActive until its pipelines are over.
TaskOk(t) ==
    LET g == GatherOf[t] IN
    /\ pc[t] \in {"registered", "active", "preprocess", "wait", "scheduled", "execute", "unregister"} =>
          t \in sets[g].tasks
    /\ pc[t] \in {"active", "preprocess", "wait", "scheduled", "execute"} => t \in sets[g].visible

\* An abort holds its gather in the map between its two sections; a gather that
\* is in the cache gets no set any more.
GatherOk(g) ==
    /\ abort[g].at = "loop" => sets[g].state = "Aborting"
    /\ g \in Range(cache[NodeOf[g]]) => sets[g].state # "Normal"

ManagerOk ==
    /\ \A g \in Gathers : SetOk(g) /\ GatherOk(g)
    /\ \A t \in Tasks : TaskOk(t)
    /\ \A n \in Nodes : Len(cache[n]) <= CacheSize
    /\ ~failed

IInv == Typed /\ ScheduleOk(sched, sets, Sleeping, {}) /\ ManagerOk
============================================================================
