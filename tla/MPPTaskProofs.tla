--------------------------- MODULE MPPTaskProofs ---------------------------
(*****************************************************************************)
(* The steps of a task (MPPTask) from its registration on keep the invariant *)
(* of MPPInvariant. One lemma per action.                                    *)
(*****************************************************************************)
EXTENDS MPPTaskManager, MPPSets

\* runImpl catches an exception.
LEMMA CaughtOk ==
  ASSUME IInv, NEW t \in Tasks, NEW st, ScheduleOk(st, sets, Sleeping, {}), Caught(t, st),
         pc[t] \in {"preprocess", "wait", "scheduled", "execute"},
         UNCHANGED <<work, sets, cache, abort, call, failed>>
  PROVE  IInv'
  <1>1. pc' = [pc EXCEPT ![t] = "unregister"]
    BY DEF Caught
  <1>2. status' \in [Tasks -> Statuses] /\ (sched' = st \/ sched' = schedule(st, t, "FAILED"))
    BY DEF Caught, IInv, Typed, Statuses
  <1>3. Sleeping \in SUBSET Tasks /\ pc \in [Tasks -> Stages] /\ TaskOk(t)
    BY Unpack DEF Typed
  <1>4. ScheduleOk(sched', sets, Sleeping, {})
    BY <1>2, <1>3, ScheduleFails
  <1>5. Sleeping' \in SUBSET Sleeping
    BY Zenon, <1>1, Awoken
  <1>6. ScheduleOk(sched', sets, Sleeping', {})
    BY <1>3, <1>4, <1>5, ManagerChange
  <1>7. TaskOk(t)'
    BY <1>1, <1>3 DEF TaskOk
  <1>8. "unregister" \in Stages
    BY DEF Stages
  <1> QED BY Zenon, <1>1, <1>2, <1>6, <1>7, <1>8, TaskOnly

\* MPPHandler gives up and unregisters the task.
LEMMA HandlerErrorOk ==
  ASSUME IInv, NEW t \in Tasks, HandlerError(t), UNCHANGED work
  PROVE  IInv'
  <1>1. Typed /\ TaskOk(t)
    BY Unpack
  <1>2. pc' = [pc EXCEPT ![t] = "unregister"] /\ "unregister" \in Stages
        /\ UNCHANGED <<sets, cache, sched, abort, call, failed>>
    BY DEF HandlerError, Stages
  <1>3. status' \in [Tasks -> Statuses]
    BY <1>1 DEF HandlerError, Typed, Statuses
  <1>4. t \in sets[GatherOf[t]].tasks
    BY <1>1 DEF HandlerError, TaskOk
  <1> QED BY Zenon, <1>2, <1>3, <1>4, MoveOk

\* runImpl starts, or finds that the task has been aborted.
LEMMA RunOk ==
  ASSUME IInv, NEW t \in Tasks, Run(t), UNCHANGED work
  PROVE  IInv'
  <1>1. Typed /\ TaskOk(t)
    BY Unpack
  <1>2. PICK p \in {"preprocess", "unregister"} : pc' = [pc EXCEPT ![t] = p]
    BY DEF Run
  <1>3. p \in Stages /\ p # "wait" /\ p # "registered" /\ UNCHANGED <<sets, cache, sched, abort, call, failed>>
    BY <1>2 DEF Run, Stages
  <1>4. status' \in [Tasks -> Statuses]
    BY <1>1 DEF Run, Typed, Statuses
  <1>5. t \in sets[GatherOf[t]].tasks /\ t \in sets[GatherOf[t]].visible
    BY <1>1 DEF Run, TaskOk
  <1> QED BY Zenon, <1>2, <1>3, <1>4, <1>5, MoveOk

\* preprocess or the execution throws.
LEMMA FailOk ==
  ASSUME IInv, NEW t \in Tasks, Fail(t), UNCHANGED work
  PROVE  IInv'
  <1>1. ScheduleOk(sched, sets, Sleeping, {})
    BY Unpack
  <1> QED BY <1>1, CaughtOk DEF Fail

\* waitForSchedule returns or throws.
LEMMA AwakeOk ==
  ASSUME IInv, NEW t \in Tasks, Awake(t), UNCHANGED work
  PROVE  IInv'
  <1>1. Typed /\ TaskOk(t) /\ ScheduleOk(sched, sets, Sleeping, {})
    BY Unpack
  <1>2. CASE Caught(t, sched)
    BY <1>1, <1>2, CaughtOk DEF Awake
  <1>3. CASE pc' = [pc EXCEPT ![t] = "scheduled"] /\ UNCHANGED <<sched, status>>
    <2>1. "scheduled" \in Stages /\ UNCHANGED <<sets, cache, abort, call, failed>>
      BY DEF Awake, Stages
    <2>2. status' \in [Tasks -> Statuses]
      BY <1>1, <1>3 DEF Typed, Statuses
    <2>3. t \in sets[GatherOf[t]].tasks /\ t \in sets[GatherOf[t]].visible
      BY <1>1 DEF Awake, TaskOk
    <2> QED BY Zenon, <1>3, <2>1, <2>2, <2>3, MoveOk
  <1> QED BY <1>2, <1>3 DEF Awake

\* runImpl checks the status before it executes.
LEMMA StartOk ==
  ASSUME IInv, NEW t \in Tasks, Start(t), UNCHANGED work
  PROVE  IInv'
  <1>1. Typed /\ TaskOk(t) /\ ScheduleOk(sched, sets, Sleeping, {})
    BY Unpack
  <1>2. CASE Caught(t, sched)
    BY <1>1, <1>2, CaughtOk DEF Start
  <1>3. CASE pc' = [pc EXCEPT ![t] = "execute"] /\ UNCHANGED <<sched, status>>
    <2>1. "execute" \in Stages /\ UNCHANGED <<sets, cache, abort, call, failed>>
      BY DEF Start, Stages
    <2>2. status' \in [Tasks -> Statuses]
      BY <1>1, <1>3 DEF Typed, Statuses
    <2>3. t \in sets[GatherOf[t]].tasks /\ t \in sets[GatherOf[t]].visible
      BY <1>1 DEF Start, TaskOk
    <2> QED BY Zenon, <1>3, <2>1, <2>2, <2>3, MoveOk
  <1> QED BY <1>2, <1>3 DEF Start

\* runImpl has finished.
LEMMA FinishOk ==
  ASSUME IInv, NEW t \in Tasks, Finish(t), UNCHANGED work
  PROVE  IInv'
  <1>1. Typed /\ TaskOk(t)
    BY Unpack
  <1>2. pc' = [pc EXCEPT ![t] = "unregister"] /\ "unregister" \in Stages
        /\ UNCHANGED <<sets, cache, sched, abort, call, failed>>
    BY DEF Finish, Stages
  <1>3. status' \in [Tasks -> Statuses]
    BY <1>1 DEF Finish, Typed, Statuses
  <1>4. t \in sets[GatherOf[t]].tasks
    BY <1>1 DEF Finish, TaskOk
  <1> QED BY Zenon, <1>2, <1>3, <1>4, MoveOk

\* The destructor gives back the threads of a scheduled task.
LEMMA DestroyOk ==
  ASSUME Counting, IInv, NEW t \in Tasks, Destroy(t), UNCHANGED work
  PROVE  IInv'
  <1> DEFINE n == NodeOf[GatherOf[t]]
             r == GroupOf[QueryOf[GatherOf[t]]]
  <1>1. Typed /\ ScheduleOk(sched, sets, Sleeping, {}) /\ Sleeping \in SUBSET Tasks /\ ~failed
    BY Unpack
  <1>2. pc' = [pc EXCEPT ![t] = "gone"] /\ "gone" \in Stages
        /\ UNCHANGED <<sets, cache, status, abort, call>>
    BY DEF Destroy, Stages
  <1>3. status' \in [Tasks -> Statuses] /\ failed \in BOOLEAN
    BY <1>1, <1>2 DEF Typed, Statuses
  <1>4. CASE sched.entry[t] # "SCHEDULED"
    <2>1. UNCHANGED <<sched, failed>>
      BY <1>4 DEF Destroy
    <2> QED BY Zenon, <1>2, <1>3, <2>1, MoveOk
  <1>5. CASE sched.entry[t] = "SCHEDULED"
    <2>1. n \in Nodes /\ r \in Groups
      BY Belongs
    <2> DEFINE st2 == releaseThreadsThenSchedule([sched EXCEPT !.entry[t] = "COMPLETED"], n, r, needed_threads[t], sets)
               rok == releaseThreadsOk(sched, n, r, needed_threads[t])
    <2>2. failed' = (failed \/ ~rok) /\ sched' = st2
      BY <1>5 DEF Destroy
    <2>3. rok /\ ScheduleOk(st2, sets, Sleeping, {})
      BY <1>1, <1>5, <2>1, ReleaseOk
    <2> HIDE DEF st2, rok
    <2>4. failed' = failed
      BY <1>1, <1>3, <2>2, <2>3
    <2>5. Sleeping' \in SUBSET Sleeping
      BY Zenon, <1>2, Awoken
    <2>6. ScheduleOk(sched', sets, Sleeping', {})
      BY <1>1, <2>2, <2>3, <2>5, ManagerChange
    <2>7. TaskOk(t)'
      <3>1. pc \in [Tasks -> Stages]
        BY <1>1 DEF Typed
      <3> QED BY <1>2, <3>1 DEF TaskOk
    <2> QED BY Zenon, <1>2, <1>3, <2>4, <2>6, <2>7, TaskOnly
  <1> QED BY <1>4, <1>5

\* tryToScheduleTask: the task is admitted, fails, or waits where the
\* scheduler will find it.
LEMMA TryToScheduleOk ==
  ASSUME Counting, IInv, NEW t \in Tasks, TryToSchedule(t), UNCHANGED work
  PROVE  IInv'
  <1> DEFINE g == GatherOf[t]
             q == QueryOf[g]
             n == NodeOf[g]
             r == GroupOf[q]
  <1>1. /\ Typed /\ TaskOk(t) /\ ScheduleOk(sched, sets, Sleeping, {}) /\ Sleeping \in SUBSET Tasks
        /\ pc \in [Tasks -> Stages] /\ pc[t] = "preprocess"
    BY Zenon, Unpack DEF TryToSchedule, Typed
  <1>2. g \in Gathers /\ q \in Queries /\ n \in Nodes /\ r \in Groups
    BY Belongs
  <1>3. t \in sets[g].tasks /\ t \in sets[g].visible
    BY SMTT(30), <1>1 DEF TaskOk
  <1>4. UNCHANGED <<sets, cache, abort, call, failed>>
    BY Zenon DEF TryToSchedule
  <1>5. \/ pc' = [pc EXCEPT ![t] = "scheduled"] /\ UNCHANGED <<sched, status>>
        \/ /\ sets[g].state # "None"
           /\ \/ /\ pc' = [pc EXCEPT ![t] = "scheduled"] /\ CanSchedule(sched, n, q, t)
                 /\ sched' = Admit(sched, n, q, t) /\ UNCHANGED status
              \/ Caught(t, [sched EXCEPT !.group[n][r].exists = TRUE])
              \/ /\ pc' = [pc EXCEPT ![t] = "wait"] /\ ~MustNotWait(sched, n, q)
                 /\ sched' = Enqueue(sched, n, q, t) /\ UNCHANGED status
    BY Zenon DEF TryToSchedule
  <1>6. UNCHANGED status => status' \in [Tasks -> Statuses]
    BY <1>1 DEF Typed, Statuses
  <1>7. "scheduled" \in Stages /\ "wait" \in Stages
    BY DEF Stages
  <1>8. CASE pc' = [pc EXCEPT ![t] = "scheduled"] /\ UNCHANGED <<sched, status>>
    BY Zenon, <1>3, <1>4, <1>6, <1>7, <1>8, MoveOk
  <1>9. CASE /\ pc' = [pc EXCEPT ![t] = "scheduled"] /\ CanSchedule(sched, n, q, t)
             /\ sched' = Admit(sched, n, q, t) /\ UNCHANGED status /\ sets[g].state # "None"
    <2>1. ManagedIn(sets, {}, n, q)
      BY <1>2, <1>9 DEF ManagedIn
    <2>2. ScheduleOk(sched', sets, Sleeping, {})
      BY <1>1, <1>2, <1>9, <2>1, AdmitOk
    <2>3. Sleeping' \in SUBSET Sleeping
      BY Zenon, <1>9, Awoken
    <2>4. ScheduleOk(sched', sets, Sleeping', {})
      BY Zenon, <1>1, <2>2, <2>3, ManagerChange
    <2>5. TaskOk(t)'
      BY <1>1, <1>3, <1>4, <1>9 DEF TaskOk
    <2> QED BY Zenon, <1>4, <1>6, <1>7, <1>9, <2>4, <2>5, TaskOnly
  <1>10. CASE Caught(t, [sched EXCEPT !.group[n][r].exists = TRUE])
    <2> DEFINE st == [sched EXCEPT !.group[n][r].exists = TRUE]
    <2>1. ScheduleOk(st, sets, Sleeping, {})
      BY ZenonT(40), <1>1, <1>2, ExistsOk
    <2> HIDE DEF st
    <2>2. Caught(t, st)
      BY Zenon, <1>10 DEF st
    <2> QED BY <1>1, <1>4, <2>1, <2>2, CaughtOk
  <1>11. CASE /\ pc' = [pc EXCEPT ![t] = "wait"] /\ ~MustNotWait(sched, n, q)
              /\ sched' = Enqueue(sched, n, q, t) /\ UNCHANGED status /\ sets[g].state # "None"
    <2>1. ScheduleOk(sched', sets, Sleeping \cup {t}, {})
      BY <1>1, <1>2, <1>3, <1>11, EnqueueOk
    <2>2. Sleeping' = Sleeping \cup {t}
      BY <1>1, <1>11 DEF Sleeping
    <2>3. ScheduleOk(sched', sets, Sleeping', {})
      BY <2>1, <2>2
    <2>4. TaskOk(t)'
      BY <1>1, <1>3, <1>4, <1>11 DEF TaskOk
    <2> QED BY Zenon, <1>4, <1>6, <1>7, <1>11, <2>3, <2>4, TaskOnly
  <1> QED BY Zenon, <1>5, <1>8, <1>9, <1>10, <1>11

\* registerTask.
LEMMA RegisterOk ==
  ASSUME IInv, NEW t \in Tasks, Register(t), UNCHANGED work
  PROVE  IInv'
  <1> DEFINE g == GatherOf[t]
             s == [SetOf(g) EXCEPT !.tasks = @ \cup {t}]
  <1>1. /\ Typed /\ g \in Gathers /\ sets[g] \in TaskSets /\ SetOk(g) /\ GatherOk(g) /\ ~failed
        /\ \A u \in Tasks : TaskOk(u)
    BY Unpack
  <1>2. CASE Rejected(g)
    <2>1. pc' = [pc EXCEPT ![t] = "destroy"] /\ "destroy" \in Stages /\ status' = [status EXCEPT ![t] = "FAILED"]
          /\ UNCHANGED <<sets, cache, sched, abort, call, failed>>
      BY <1>2 DEF Register, Stages
    <2>2. status' \in [Tasks -> Statuses]
      BY <1>1, <2>1 DEF Typed, Statuses
    <2> QED BY Zenon, <2>1, <2>2, MoveOk
  <1>3. CASE ~Rejected(g)
    <2>1. /\ pc' = [pc EXCEPT ![t] = "registered"] /\ sets' = [sets EXCEPT ![g] = s]
          /\ UNCHANGED <<cache, sched, status, abort, call, failed>>
      BY <1>3 DEF Register
    <2>2. /\ s \in TaskSets /\ s.state = "Normal" /\ s.tasks = SetOf(g).tasks \cup {t}
          /\ s.visible = sets[g].visible /\ s.alarms = sets[g].alarms /\ SetOf(g).tasks = sets[g].tasks
      <3>1. sets[g].state \in {"None", "Normal"}
        BY <1>1, <1>3, SetFields DEF Rejected
      <3>2. SetOf(g) \in TaskSets /\ SetOf(g).state = "Normal" /\ SetOf(g).visible = sets[g].visible
            /\ SetOf(g).alarms = sets[g].alarms /\ SetOf(g).tasks = sets[g].tasks
        BY Zenon, <1>1, <3>1 DEF SetOf, SetOk, NewSet, NoSet, TaskSets
      <3> DEFINE s0 == SetOf(g)
      <3> HIDE DEF s0, g
      <3>3. s = [s0 EXCEPT !.tasks = @ \cup {t}]
        BY DEF s0
      <3>4. s0 \in TaskSets
        BY <3>2 DEF s0
      <3> HIDE DEF s
      <3>5. s \in TaskSets /\ s.state = s0.state /\ s.tasks = s0.tasks \cup {t} /\ s.visible = s0.visible /\ s.alarms = s0.alarms
        BY <3>3, <3>4 DEF TaskSets
      <3> QED BY <3>2, <3>5 DEF s0
    <2> HIDE DEF s
    <2>3. sets' \in [Gathers -> TaskSets] /\ sets'[g] = s /\ \A x \in Gathers : x # g => sets'[x] = sets[x]
      BY Zenon, <1>1, <2>1, <2>2, SetStep
    <2>4. pc' \in [Tasks -> Stages] /\ pc'[t] = "registered" /\ \A u \in Tasks : u # t => pc'[u] = pc[u]
      BY <1>1, <2>1 DEF Typed, Stages
    <2>5. Sleeping' \in SUBSET Sleeping
      BY Zenon, <2>1, Awoken
    <2>6. ScheduleOk(sched', sets', Sleeping', {})
      BY Zenon, <1>1, <2>1, <2>2, <2>3, <2>5, GrowOk
    <2>7. SetOk(g)'
      <3>1. s.visible \subseteq s.tasks /\ \A u \in s.tasks : GatherOf[u] = g
        BY Zenon, <1>1, <2>2 DEF SetOk
      <3>2. ASSUME NEW c \in s.alarms
            PROVE  call'[c] = "WAIT_TUNNEL" /\ GatherOf[SenderOf[c]] = g /\ SenderOf[c] \notin s.visible
        BY Zenon, <1>1, <2>1, <2>2 DEF SetOk
      <3>3. s.state = "Normal" /\ t \in s.tasks
        BY Zenon, <2>2
      <3> HIDE DEF g
      <3> QED BY <2>3, <3>1, <3>2, <3>3 DEF SetOk
    <2>8. GatherOk(g)'
      BY Zenon, <1>1, <1>3, <2>1, <2>2, <2>3 DEF GatherOk, Rejected
    <2>9. ASSUME NEW u \in Tasks, GatherOf[u] = g PROVE TaskOk(u)'
      BY <1>1, <2>2, <2>3, <2>4, <2>9 DEF TaskOk
    <2>10. failed' = FALSE /\ status' \in [Tasks -> Statuses]
           /\ call' \in [Calls -> {"NEW_REQUEST", "WAIT_TUNNEL", "answered"}]
      BY <1>1, <2>1 DEF Typed, Statuses
    <2> QED BY Zenon, <1>1, <2>1, <2>3, <2>4, <2>6, <2>7, <2>8, <2>9, <2>10, Pack
  <1> QED BY <1>2, <1>3

\* makeTaskActive.
LEMMA MakeTaskActiveOk ==
  ASSUME IInv, NEW t \in Tasks, MakeTaskActive(t), UNCHANGED work
  PROVE  IInv'
  <1> DEFINE g == GatherOf[t]
             al == {c \in sets[g].alarms : SenderOf[c] # t}
             vi == sets[g].visible \cup {t}
             s == [sets[g] EXCEPT !.visible = vi, !.alarms = al]
  <1>1. /\ Typed /\ g \in Gathers /\ sets[g] \in TaskSets /\ SetOk(g) /\ GatherOk(g) /\ ~failed
        /\ \A u \in Tasks : TaskOk(u)
    BY Unpack
  <1>2. /\ pc[t] = "registered" /\ ~Rejected(g) /\ pc' = [pc EXCEPT ![t] = "active"]
        /\ sets' = [sets EXCEPT ![g] = s] /\ failed' = (failed \/ sets[g].state = "None")
        /\ UNCHANGED <<cache, sched, status, abort, call>>
    BY Zenon DEF MakeTaskActive
  <1>3. al \in SUBSET Calls /\ vi \in SUBSET Tasks
    BY <1>1, SetFields
  <1>4. \A c \in al : c \in sets[g].alarms /\ SenderOf[c] # t
    OBVIOUS
  <1>5. vi = sets[g].visible \cup {t}
    OBVIOUS
  <1> HIDE DEF al, vi
  <1>6. s \in TaskSets /\ s.state = sets[g].state /\ s.tasks = sets[g].tasks /\ s.visible = vi /\ s.alarms = al
    BY Zenon, <1>1, <1>3 DEF TaskSets
  <1> HIDE DEF s
  <1>7. t \in sets[g].tasks
    BY <1>1, <1>2 DEF TaskOk
  <1>8. sets[g].state = "Normal" /\ failed' = FALSE
    BY Zenon, <1>1, <1>2, <1>7, SetFields, NoSetType DEF Rejected, SetOk
  <1>9. sets' \in [Gathers -> TaskSets] /\ sets'[g] = s /\ \A x \in Gathers : x # g => sets'[x] = sets[x]
    BY Zenon, <1>1, <1>2, <1>6, SetStep
  <1>10. pc' \in [Tasks -> Stages] /\ pc'[t] = "active" /\ \A u \in Tasks : u # t => pc'[u] = pc[u]
    BY <1>1, <1>2 DEF Typed, Stages
  <1>11. Sleeping' \in SUBSET Sleeping
    BY Zenon, <1>2, Awoken
  <1>12. ScheduleOk(sched', sets', Sleeping', {})
    BY ZenonT(40), <1>1, <1>2, <1>5, <1>6, <1>9, <1>11, GrowOk
  <1>13. SetOk(g)'
    <2>1. s.visible \subseteq s.tasks /\ \A u \in s.tasks : GatherOf[u] = g
      BY <1>1, <1>5, <1>6, <1>7 DEF SetOk
    <2>2. s.state = "Normal" /\ s.tasks # {}
      BY Zenon, <1>6, <1>7, <1>8
    <2>3. ASSUME NEW c \in al
          PROVE  /\ call'[c] = "WAIT_TUNNEL" /\ GatherOf[SenderOf[c]] = g /\ SenderOf[c] \notin s.visible
      <3>1. call[c] = "WAIT_TUNNEL" /\ GatherOf[SenderOf[c]] = g /\ SenderOf[c] \notin sets[g].visible
        BY Zenon, <1>1, <1>4 DEF SetOk
      <3>2. call'[c] = call[c]
        BY Zenon, <1>2, <1>3, <1>4
      <3> QED BY Zenon, <1>4, <1>5, <1>6, <3>1, <3>2
    <2> QED BY <1>6, <1>9, <2>1, <2>2, <2>3 DEF SetOk
  <1>14. GatherOk(g)'
    BY <1>1, <1>2, <1>6, <1>9 DEF GatherOk, Rejected
  <1>15. ASSUME NEW u \in Tasks, GatherOf[u] = g PROVE TaskOk(u)'
    BY <1>1, <1>5, <1>6, <1>7, <1>9, <1>10, <1>15 DEF TaskOk
  <1>16. status' \in [Tasks -> Statuses] /\ call' \in [Calls -> {"NEW_REQUEST", "WAIT_TUNNEL", "answered"}]
    BY <1>1, <1>2 DEF Typed, Statuses
  <1> QED BY Zenon, <1>1, <1>2, <1>8, <1>9, <1>10, <1>12, <1>13, <1>14, <1>15, <1>16, Pack
=============================================================================
