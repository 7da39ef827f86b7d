--------------------------- MODULE MPPTaskManager ---------------------------
(***************************************************************************)
(* MPPTaskManager with the life of an MPPTask: MPPHandler::execute         *)
(* registers the task and makes it visible, runImpl prepares it, waits for *)
(* MinTSOScheduler, executes and unregisters it, and its destructor gives  *)
(* the threads back. TiDB cancels gathers (abortMPPGather: one section     *)
(* under the mutex, the tasks one by one without it, another section), and *)
(* receivers look for the tunnels of tasks that may not be there yet.      *)
(*                                                                         *)
(* There are several nodes, each with a manager of its own, because the    *)
(* tasks of a query wait for each other across nodes. A section under the  *)
(* mutex of a manager is one action.                                       *)
(***************************************************************************)
EXTENDS MPPTaskSets

\* MPPTask::abort on the task's own behalf or from abortMPPGather: only a task
\* that is not finished changes its status.
Live(t) == status[t] \in {"INITIALIZING", "RUNNING"}

----------------------------------------------------------------------------
(* The life of a task                                                      *)

\* registerTask. A refused task is destroyed by MPPHandler, which only has to
\* unregister what has been registered.
Register(t) ==
    LET g == GatherOf[t]
    IN  /\ pc[t] = "new"
        /\ IF Rejected(g)
           THEN /\ pc' = [pc EXCEPT ![t] = "destroy"]
                /\ status' = [status EXCEPT ![t] = "FAILED"]
                /\ UNCHANGED sets
           ELSE /\ pc' = [pc EXCEPT ![t] = "registered"]
                /\ sets' = [sets EXCEPT ![g] = [SetOf(g) EXCEPT !.tasks = @ \cup {t}]]
                /\ UNCHANGED status
        /\ UNCHANGED <<cache, sched, abort, call, failed>>

\* makeTaskActive; the receivers that wait for the task are woken.
MakeTaskActive(t) ==
    LET g == GatherOf[t]
    IN  /\ pc[t] = "registered"
        /\ ~Rejected(g)
        /\ pc' = [pc EXCEPT ![t] = "active"]
        /\ sets' = [sets EXCEPT ![g].visible = @ \cup {t},
                                ![g].alarms = {c \in @ : SenderOf[c] # t}]
        /\ failed' = (failed \/ sets[g].state = "None")
        /\ UNCHANGED <<cache, sched, status, abort, call>>

\* makeTaskActive refuses, or MPPHandler gives up for another reason before
\* the task runs: handleError and unregisterTask.
HandlerError(t) ==
    /\ \/ pc[t] = "registered" /\ (Rejected(GatherOf[t]) \/ t \in work.faults)
       \/ pc[t] = "active" /\ t \in work.faults
    /\ pc' = [pc EXCEPT ![t] = "unregister"]
    /\ status' = [status EXCEPT ![t] = IF Live(t) THEN "FAILED" ELSE @]
    /\ UNCHANGED <<sets, cache, sched, abort, call, failed>>

\* runImpl starts; an aborted task is only unregistered.
Run(t) ==
    /\ pc[t] = "active"
    /\ IF status[t] = "INITIALIZING"
       THEN /\ status' = [status EXCEPT ![t] = "RUNNING"]
            /\ pc' = [pc EXCEPT ![t] = "preprocess"]
       ELSE /\ pc' = [pc EXCEPT ![t] = "unregister"]
            /\ UNCHANGED status
    /\ UNCHANGED <<sets, cache, sched, abort, call, failed>>

\* runImpl catches an exception: a running task aborts itself, which also
\* fails its schedule entry if that is still waiting.
Caught(t, st) ==
    /\ pc' = [pc EXCEPT ![t] = "unregister"]
    /\ IF status[t] = "RUNNING"
       THEN /\ status' = [status EXCEPT ![t] = "FAILED"]
            /\ sched' = schedule(st, t, "FAILED")
       ELSE /\ sched' = st
            /\ UNCHANGED status

\* preprocess or the execution fails.
Fail(t) ==
    /\ pc[t] \in {"preprocess", "execute"}
    /\ t \in work.faults \/ status[t] # "RUNNING"
    /\ Caught(t, sched)
    /\ UNCHANGED <<sets, cache, abort, call, failed>>

\* scheduleOrWait, first part: tryToScheduleTask under the mutex.
TryToSchedule(t) ==
    LET g == GatherOf[t]
        q == QueryOf[g]
        n == NodeOf[g]
    IN  /\ pc[t] = "preprocess"
        /\ IF sets[g].state = "None" \/ Rejected(g)
           THEN pc' = [pc EXCEPT ![t] = "scheduled"] /\ UNCHANGED <<sched, status>>
           ELSE IF CanSchedule(sched, n, q, t)
           THEN /\ pc' = [pc EXCEPT ![t] = "scheduled"]
                /\ sched' = Admit(sched, n, q, t)
                /\ UNCHANGED status
           ELSE IF MustNotWait(sched, n, q)
           THEN Caught(t, [sched EXCEPT !.group[n][GroupOf[q]].exists = TRUE])
           ELSE /\ pc' = [pc EXCEPT ![t] = "wait"]
                /\ sched' = Enqueue(sched, n, q, t)
                /\ UNCHANGED status
        /\ UNCHANGED <<sets, cache, abort, call, failed>>

\* waitForSchedule returns, or throws when the task is failed or exceeded.
Awake(t) ==
    /\ pc[t] = "wait"
    /\ sched.entry[t] # "WAITING"
    /\ IF sched.entry[t] = "SCHEDULED"
       THEN pc' = [pc EXCEPT ![t] = "scheduled"] /\ UNCHANGED <<sched, status>>
       ELSE Caught(t, sched)
    /\ UNCHANGED <<sets, cache, abort, call, failed>>

\* The status is checked once more before the task executes.
Start(t) ==
    /\ pc[t] = "scheduled"
    /\ IF status[t] = "RUNNING"
       THEN pc' = [pc EXCEPT ![t] = "execute"] /\ UNCHANGED <<sched, status>>
       ELSE Caught(t, sched)
    /\ UNCHANGED <<sets, cache, abort, call, failed>>

\* The tasks of a query exchange data, so a task may depend on every other
\* task of its query, on every node: none finishes before all have started.
AllStarted(q) ==
    \A t \in Tasks : QueryOf[GatherOf[t]] = q => pc[t] \in {"execute", "unregister", "destroy", "gone"}

Finish(t) ==
    /\ pc[t] = "execute"
    /\ status[t] = "RUNNING"
    /\ AllStarted(QueryOf[GatherOf[t]])
    /\ status' = [status EXCEPT ![t] = "FINISHED"]
    /\ pc' = [pc EXCEPT ![t] = "unregister"]
    /\ UNCHANGED <<sets, cache, sched, abort, call, failed>>

\* Mutant of AllowUnregisterTask: tasks leave during an abort.
AllowAlways(g) == TRUE

\* cv.wait in unregisterTask.
AllowUnregisterTask(g) == sets[g].state # "Aborting"

\* unregisterTask. A gather without tasks and alarms goes.
Unregister(t) ==
    LET g == GatherOf[t]
        s == [sets[g] EXCEPT !.tasks = @ \ {t}, !.visible = @ \ {t},
                             !.finished = @ \cup {t},
                             !.alarms = {c \in @ : SenderOf[c] # t}]
    IN  /\ pc[t] = "unregister"
        /\ AllowUnregisterTask(g)
        /\ pc' = [pc EXCEPT ![t] = "destroy"]
        /\ IF t \notin sets[g].tasks THEN UNCHANGED <<sets, sched>>
           ELSE IF s.tasks = {} /\ s.alarms = {}
           THEN removeMPPGatherTaskSet(g, [sets EXCEPT ![g] = s], FALSE)
           ELSE sets' = [sets EXCEPT ![g] = s] /\ UNCHANGED sched
        /\ UNCHANGED <<cache, status, abort, call, failed>>

\* The destructor of MPPTaskScheduleEntry gives the threads back.
Destroy(t) ==
    LET g == GatherOf[t]
        r == GroupOf[QueryOf[g]]
        n == NodeOf[g]
    IN  /\ pc[t] = "destroy"
        /\ pc' = [pc EXCEPT ![t] = "gone"]
        /\ IF sched.entry[t] # "SCHEDULED" THEN UNCHANGED <<sched, failed>>
           ELSE /\ failed' = (failed \/ ~releaseThreadsOk(sched, n, r, needed_threads[t]))
                /\ sched' = releaseThreadsThenSchedule(
                       [sched EXCEPT !.entry[t] = "COMPLETED"], n, r, needed_threads[t], sets)
        /\ UNCHANGED <<sets, cache, status, abort, call>>

----------------------------------------------------------------------------
(* abortMPPGather                                                          *)

\* TiDB cancels all gathers of a query when it hears of an error.
ErrorIn(q) ==
    \E t \in Tasks : QueryOf[GatherOf[t]] = q /\ status[t] \in {"FAILED", "CANCELLED"}

\* The first section: later tasks and lookups of the gather are refused from
\* here on, and its waiting tasks fail.
AbortBegin(g) ==
    LET n == NodeOf[g]
        m == [sets EXCEPT ![g].state = "Aborting", ![g].alarms = {}]
        begun == [at |-> "loop", todo |-> sets[g].visible, now |-> {}]
    IN  /\ abort[g].at = "none"
        /\ g \in work.cancels \/ ErrorIn(QueryOf[g])
        /\ cache' = [cache EXCEPT ![n] = CacheAdd(@, g)]
        /\ IF sets[g].state # "Normal"
           THEN abort' = [abort EXCEPT ![g].at = "done"] /\ UNCHANGED <<sets, sched>>
           ELSE IF sets[g].tasks = {}
           THEN /\ abort' = [abort EXCEPT ![g].at = "done"]
                /\ removeMPPGatherTaskSet(g, m, TRUE)
           ELSE /\ abort' = [abort EXCEPT ![g] = begun]
                /\ sets' = m
                /\ sched' = deleteQuery(sched, n, QueryOf[g], TRUE, {g}, sets')
        /\ UNCHANGED <<pc, status, call, failed>>

\* MPPTask::abort for the next visible task, without the mutex. A task that
\* runs has its tunnels, receivers and executor cancelled ...
AbortTask(g) ==
    /\ abort[g].at = "loop" /\ abort[g].now = {}
    /\ \E t \in abort[g].todo :
          /\ status' = [status EXCEPT ![t] = IF Live(t) THEN "CANCELLED" ELSE @]
          /\ abort' = [abort EXCEPT ![g].todo = @ \ {t},
                                    ![g].now = IF status[t] = "RUNNING" THEN {t} ELSE {}]
    /\ UNCHANGED <<sets, cache, sched, pc, call, failed>>

\* ... and then its schedule entry.
AbortEntry(g) ==
    /\ \E t \in abort[g].now : sched' = schedule(sched, t, "FAILED")
    /\ abort' = [abort EXCEPT ![g].now = {}]
    /\ UNCHANGED <<sets, cache, pc, status, call, failed>>

\* The second section asserts that the gather is still there.
AbortEnd(g) ==
    /\ abort[g].at = "loop" /\ abort[g].todo = {} /\ abort[g].now = {}
    /\ abort' = [abort EXCEPT ![g].at = "done"]
    /\ IF sets[g].state = "None" THEN failed' = TRUE /\ UNCHANGED sets
       ELSE sets' = [sets EXCEPT ![g].state = "Aborted"] /\ UNCHANGED failed
    /\ UNCHANGED <<cache, sched, pc, status, call>>

----------------------------------------------------------------------------
(* findAsyncTunnel                                                         *)

\* A new request. Without a result it waits with an alarm in the gather.
Lookup(c) ==
    LET t == SenderOf[c]
        g == GatherOf[t]
    IN  /\ call[c] = "NEW_REQUEST"
        /\ IF Rejected(g) \/ t \in sets[g].visible \cup sets[g].finished
           THEN call' = [call EXCEPT ![c] = "answered"] /\ UNCHANGED sets
           ELSE /\ call' = [call EXCEPT ![c] = "WAIT_TUNNEL"]
                /\ sets' = [sets EXCEPT ![g] = [SetOf(g) EXCEPT !.alarms = @ \cup {c}]]
        /\ UNCHANGED <<cache, sched, pc, status, abort, failed>>

\* Mutant of LookupAgain: the gather is left to the tasks.
LookupAgainKeeps(c) ==
    LET g == GatherOf[SenderOf[c]]
    IN  /\ call[c] = "WAIT_TUNNEL"
        /\ call' = [call EXCEPT ![c] = "answered"]
        /\ sets' = [sets EXCEPT ![g].alarms = @ \ {c}]
        /\ UNCHANGED <<cache, sched, pc, status, abort, failed>>

\* The alarm has fired after ten seconds, or it has been cancelled.
LookupAgain(c) ==
    LET t == SenderOf[c]
        g == GatherOf[t]
        s == [sets[g] EXCEPT !.alarms = @ \ {c}]
    IN  /\ call[c] = "WAIT_TUNNEL"
        /\ call' = [call EXCEPT ![c] = "answered"]
        /\ IF Rejected(g) \/ t \in sets[g].visible \/ sets[g].state = "None"
           THEN UNCHANGED <<sets, sched>>
           ELSE IF s.alarms = {} /\ s.tasks = {}
           THEN removeMPPGatherTaskSet(g, [sets EXCEPT ![g] = s], FALSE)
           ELSE sets' = [sets EXCEPT ![g] = s] /\ UNCHANGED sched
        /\ UNCHANGED <<cache, pc, status, abort, failed>>

----------------------------------------------------------------------------
TaskStep(t) ==
    \/ Register(t) \/ MakeTaskActive(t) \/ HandlerError(t) \/ Run(t) \/ Fail(t)
    \/ TryToSchedule(t) \/ Awake(t) \/ Start(t) \/ Finish(t)
    \/ Unregister(t) \/ Destroy(t)

AbortStep(g) == AbortTask(g) \/ AbortEntry(g) \/ AbortEnd(g)

Next ==
    \/ (\E t \in Tasks : TaskStep(t)) /\ UNCHANGED work
    \/ (\E g \in Gathers : AbortBegin(g) \/ AbortStep(g)) /\ UNCHANGED work
    \/ (\E c \in Calls : Lookup(c) \/ LookupAgain(c)) /\ UNCHANGED work

Spec == Init /\ [][Next]_vars

\* TiDB dispatches all tasks and cancels a query in which a task has failed;
\* threads that can run do run; alarms fire. One condition for all of them is
\* enough, because no thread takes infinitely many steps.
FairSpec ==
    /\ Spec
    /\ WF_vars(/\ \/ \E t \in Tasks : TaskStep(t)
                  \/ \E g \in Gathers : (ErrorIn(QueryOf[g]) /\ AbortBegin(g)) \/ AbortStep(g)
                  \/ \E c \in Calls : LookupAgain(c)
               /\ UNCHANGED work)

----------------------------------------------------------------------------
(* Properties                                                              *)

\* The program counters, states and counters have values the code gives them.
TypeOK ==
    /\ \A g \in Gathers :
          /\ sets[g].state \in {"None", "Normal", "Aborting", "Aborted"}
          /\ sets[g].visible \subseteq sets[g].tasks /\ sets[g].tasks \subseteq Tasks
          /\ sched.waitq[g] \in Seq(Tasks)
    /\ \A n \in Nodes : Len(cache[n]) <= CacheSize
    /\ sched.entry \in [Tasks -> {"WAITING", "SCHEDULED", "FAILED", "EXCEEDED", "COMPLETED"}]
    /\ status \in [Tasks -> {"INITIALIZING", "RUNNING", "FINISHED", "CANCELLED", "FAILED"}]

\* None of the assertions of abortMPPGather (the gather is still there in the
\* second section), makeTaskActive and releaseThreadsThenSchedule (the group
\* exists and has that many threads in use) fails.
NoAssertionFails == ~failed

ScheduledIn(n, rs) ==
    {t \in Tasks : /\ NodeOf[GatherOf[t]] = n /\ GroupOf[QueryOf[GatherOf[t]]] \in rs
                   /\ sched.entry[t] = "SCHEDULED"}

\* The thread counts of a node and of its resource groups are those of the
\* tasks that are scheduled and not yet destroyed, and no group has more
\* than the hard limit.
ThreadsAreCounted ==
    \A n \in Nodes :
        /\ sched.global[n] = Threads(ScheduledIn(n, Groups))
        /\ \A r \in Groups :
              /\ sched.group[n][r].estimated_thread_usage = Threads(ScheduledIn(n, {r}))
              /\ sched.group[n][r].estimated_thread_usage <= thread_hard_limit

\* A task that sleeps in waitForSchedule is known to the scheduler: it is in
\* the queue of its gather, visible, and its query is in the waiting set.
NoForgottenWaiter ==
    \A t \in Tasks :
        LET g == GatherOf[t]
        IN  pc[t] = "wait" /\ sched.entry[t] = "WAITING" =>
                /\ t \in Range(sched.waitq[g]) /\ t \in sets[g].visible
                /\ QueryOf[g] \in
                      sched.group[NodeOf[g]][GroupOf[QueryOf[g]]].waiting_set

InManager(n, q) ==
    \E g \in Gathers : QueryOf[g] = q /\ NodeOf[g] = n /\ sets[g].state # "None"

\* min_query_id is not newer than any query the scheduler knows, and the
\* query it names is still there, so that its end will elect the next one.
MinQueryIsOldest ==
    \A n \in Nodes, r \in Groups :
        LET e == sched.group[n][r]
        IN  /\ \A q \in e.active_set \cup e.waiting_set : e.min_query_id <= q
            /\ e.min_query_id # Max_Query_Id => InManager(n, e.min_query_id)

\* A gather task set is there for a task or for a receiver that waits, and a
\* query is in the scheduler only while it is in the manager: nothing stays
\* behind when tasks, aborts and lookups come and go in any order.
NothingLeftBehind ==
    /\ \A g \in Gathers :
          sets[g].state # "None" =>
              sets[g].tasks # {} \/ \E c \in sets[g].alarms : call[c] = "WAIT_TUNNEL"
    /\ \A n \in Nodes, r \in Groups :
          \A q \in sched.group[n][r].active_set \cup sched.group[n][r].waiting_set :
              InManager(n, q)

\* While abortMPPGather walks over the tasks of a gather without the mutex the
\* task map does not change, although its entry in the cache may be evicted
\* meanwhile; and a gather that is in the cache gets no tasks.
AbortedGathersAreClosed ==
    [][\A g \in Gathers :
          sets'[g] # sets[g] =>
             /\ g \in Range(cache[NodeOf[g]]) => sets'[g].tasks \subseteq sets[g].tasks
             /\ abort[g].at = "loop" =>
                   sets'[g].tasks = sets[g].tasks /\ sets'[g].visible = sets[g].visible]_vars

\* No task hangs: although tasks wait for threads and for the other tasks of
\* their query on all nodes, each one finishes, fails or is cancelled.
EveryTaskEnds == <>(\A t \in Tasks : pc[t] = "gone")

============================================================================
