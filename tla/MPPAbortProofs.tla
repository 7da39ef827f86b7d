--------------------------- MODULE MPPAbortProofs ---------------------------
(*****************************************************************************)
(* The lookups of tunnels, the unregistration of tasks and the abort of a    *)
(* gather keep the invariant of MPPInvariant. One lemma per action.          *)
(*****************************************************************************)
EXTENDS MPPTaskManager, MPPSets

\* findAsyncTunnel for a new request.
LEMMA LookupOk ==
  ASSUME IInv, NEW c \in Calls, Lookup(c), UNCHANGED work
  PROVE  IInv'
  <1> DEFINE t == SenderOf[c]
             g == GatherOf[t]
             s == [SetOf(g) EXCEPT !.alarms = @ \cup {c}]
  <1>1. /\ Typed /\ g \in Gathers /\ sets[g] \in TaskSets /\ SetOk(g) /\ GatherOk(g) /\ ~failed
        /\ \A u \in Tasks : TaskOk(u)
    BY Unpack, CallsAssumption
  <1>2. call[c] = "NEW_REQUEST" /\ UNCHANGED <<cache, sched, pc, status, abort, failed>> /\ Sleeping' = Sleeping
    BY DEF Lookup, Sleeping
  <1>3. /\ failed' = FALSE /\ pc' \in [Tasks -> Stages] /\ status' \in [Tasks -> Statuses]
        /\ call \in [Calls -> {"NEW_REQUEST", "WAIT_TUNNEL", "answered"}] /\ sets \in [Gathers -> TaskSets]
    BY <1>1, <1>2 DEF Typed, Statuses
  <1>4. CASE call' = [call EXCEPT ![c] = "answered"] /\ UNCHANGED sets
    <2>1. /\ call' \in [Calls -> {"NEW_REQUEST", "WAIT_TUNNEL", "answered"}]
          /\ \A d \in Calls : d # c => call'[d] = call[d]
      BY <1>3, <1>4
    <2>2. c \notin sets[g].alarms
      BY <1>1, <1>2 DEF SetOk
    <2>3. SetOk(g)'
      BY ZenonT(40), <1>1, <1>3, <1>4, <2>1, <2>2, SetFields DEF SetOk
    <2>4. GatherOk(g)' /\ \A u \in Tasks : TaskOk(u)'
      BY <1>1, <1>2, <1>4 DEF GatherOk, TaskOk
    <2>5. ScheduleOk(sched', sets', Sleeping', {})
      BY <1>2, <1>4, Unpack
    <2> HIDE DEF g, t
    <2>6. \A d \in Calls : GatherOf[SenderOf[d]] # g => call'[d] = call[d]
      BY <2>1 DEF g, t
    <2> QED BY ZenonT(40), <1>1, <1>2, <1>3, <1>4, <2>1, <2>3, <2>4, <2>5, <2>6, Pack
  <1>5. CASE /\ ~Rejected(g) /\ t \notin sets[g].visible
             /\ call' = [call EXCEPT ![c] = "WAIT_TUNNEL"] /\ sets' = [sets EXCEPT ![g] = s]
    <2>1. /\ call' \in [Calls -> {"NEW_REQUEST", "WAIT_TUNNEL", "answered"}] /\ call'[c] = "WAIT_TUNNEL"
          /\ \A d \in Calls : d # c => call'[d] = call[d]
      BY <1>3, <1>5
    <2>2. /\ s \in TaskSets /\ s.state = "Normal" /\ s.tasks = sets[g].tasks
          /\ s.visible = sets[g].visible /\ s.alarms = sets[g].alarms \cup {c}
      <3>1. sets[g].state \in {"None", "Normal"}
        BY <1>1, <1>5, SetFields DEF Rejected
      <3>2. SetOf(g) \in TaskSets /\ SetOf(g).state = "Normal" /\ SetOf(g).visible = sets[g].visible
            /\ SetOf(g).alarms = sets[g].alarms /\ SetOf(g).tasks = sets[g].tasks
        BY Zenon, <1>1, <3>1 DEF SetOf, SetOk, NewSet, NoSet, TaskSets
      <3> DEFINE s0 == SetOf(g)
      <3> HIDE DEF s0, g
      <3>3. s = [s0 EXCEPT !.alarms = @ \cup {c}]
        BY DEF s0
      <3>4. s0 \in TaskSets
        BY <3>2 DEF s0
      <3> HIDE DEF s
      <3>5. s \in TaskSets /\ s.state = s0.state /\ s.tasks = s0.tasks /\ s.visible = s0.visible /\ s.alarms = s0.alarms \cup {c}
        BY <3>3, <3>4 DEF TaskSets
      <3> QED BY <3>2, <3>5 DEF s0
    <2> HIDE DEF s
    <2>3. sets' \in [Gathers -> TaskSets] /\ sets'[g] = s /\ \A x \in Gathers : x # g => sets'[x] = sets[x]
      BY ZenonT(40), <1>1, <1>5, <2>2, SetStep
    <2>4. ScheduleOk(sched', sets', Sleeping', {})
      BY <1>1, <1>2, <2>2, <2>3, GrowOk
    <2>5. SetOk(g)'
      BY ZenonT(40), <1>1, <1>5, <2>1, <2>2, <2>3, SetFields DEF SetOk
    <2>6. GatherOk(g)'
      BY Zenon, <1>1, <1>2, <1>5, <2>2, <2>3 DEF GatherOk, Rejected
    <2>7. ASSUME NEW u \in Tasks, GatherOf[u] = g PROVE TaskOk(u)'
      BY <1>1, <1>2, <2>2, <2>3, <2>7 DEF TaskOk
    <2> HIDE DEF g, t
    <2>8. \A d \in Calls : GatherOf[SenderOf[d]] # g => call'[d] = call[d]
      BY <2>1 DEF g, t
    <2> QED BY ZenonT(40), <1>1, <1>2, <1>3, <2>1, <2>3, <2>4, <2>5, <2>6, <2>7, <2>8, Pack
  <1> QED BY Zenon, <1>4, <1>5 DEF Lookup

\* unregisterTask.
LEMMA UnregisterOk ==
  ASSUME Counting, IInv, NEW t \in Tasks, Unregister(t), UNCHANGED work
  PROVE  IInv'
  <1> DEFINE g == GatherOf[t]
             ts == sets[g].tasks \ {t}
             vi == sets[g].visible \ {t}
             fi == sets[g].finished \cup {t}
             al == {c \in sets[g].alarms : SenderOf[c] # t}
             s == [sets[g] EXCEPT !.tasks = ts, !.visible = vi, !.finished = fi, !.alarms = al]
             m == [sets EXCEPT ![g] = s]
  <1>1. /\ Typed /\ g \in Gathers /\ sets[g] \in TaskSets /\ SetOk(g) /\ GatherOk(g) /\ ~failed
        /\ \A u \in Tasks : TaskOk(u)
    BY Unpack
  <1>2. /\ pc[t] = "unregister" /\ sets[g].state # "Aborting" /\ pc' = [pc EXCEPT ![t] = "destroy"]
        /\ UNCHANGED <<cache, status, abort, call, failed>>
        /\ \/ t \notin sets[g].tasks
           \/ s.tasks = {} /\ s.alarms = {} /\ removeMPPGatherTaskSet(g, m, FALSE)
           \/ ~(s.tasks = {} /\ s.alarms = {}) /\ sets' = m /\ UNCHANGED sched
    BY Zenon DEF Unregister, AllowUnregisterTask
  <1>3. ts \in SUBSET Tasks /\ vi \in SUBSET Tasks /\ fi \in SUBSET Tasks /\ al \in SUBSET Calls
    BY <1>1, SetFields
  <1>4. /\ ts = sets[g].tasks \ {t} /\ vi = sets[g].visible \ {t}
        /\ \A c \in al : c \in sets[g].alarms /\ SenderOf[c] # t
    OBVIOUS
  <1> HIDE DEF ts, vi, fi, al
  <1>5. s \in TaskSets /\ s.state = sets[g].state /\ s.tasks = ts /\ s.visible = vi /\ s.alarms = al
    BY Zenon, <1>1, <1>3 DEF TaskSets
  <1> HIDE DEF s
  <1>6. m \in [Gathers -> TaskSets] /\ \A x \in Gathers : x # g => m[x] = sets[x]
    BY <1>1, <1>5 DEF Typed
  <1>7. pc' \in [Tasks -> Stages] /\ pc'[t] = "destroy" /\ \A u \in Tasks : u # t => pc'[u] = pc[u]
    BY <1>1, <1>2 DEF Typed, Stages
  <1>8. Sleeping' \in SUBSET Sleeping /\ Sleeping \in SUBSET Tasks /\ \A u \in Sleeping' : u # t
    BY <1>2, <1>7, Awoken, Unpack DEF Sleeping
  <1>9. /\ failed' = FALSE /\ status' \in [Tasks -> Statuses]
        /\ call' \in [Calls -> {"NEW_REQUEST", "WAIT_TUNNEL", "answered"}]
    BY <1>1, <1>2 DEF Typed, Statuses
  <1>10. t \in sets[g].tasks
    BY <1>1, <1>2 DEF TaskOk
  <1>11. CASE s.tasks = {} /\ s.alarms = {} /\ removeMPPGatherTaskSet(g, m, FALSE)
    <2>1. ASSUME NEW u \in Tasks, GatherOf[u] = g, u # t
          PROVE  pc[u] \notin {"registered", "active", "preprocess", "wait", "scheduled", "execute", "unregister"}
      BY <1>1, <1>4, <1>5, <1>11, <2>1 DEF TaskOk
    <2>2. /\ sets' \in [Gathers -> TaskSets] /\ sets'[g] = NoSet
          /\ \A x \in Gathers : x # g => sets'[x] = sets[x]
          /\ ScheduleOk(sched', sets', Sleeping, {})
      <3>1. \A u \in Tasks : GatherOf[u] = g => pc[u] # "wait"
        BY <1>2, <2>1
      <3> HIDE DEF m, g
      <3> QED BY Zenon, <1>1, <1>6, <1>11, <3>1, RemoveOk
    <2>3. ScheduleOk(sched', sets', Sleeping', {})
      BY <1>8, <2>2, ManagerChange
    <2>4. SetOk(g)' /\ GatherOk(g)'
      <3>1. abort'[g].at # "loop" /\ sets'[g].state = "None"
        BY <1>1, <1>2, <2>2, NoSetType DEF GatherOk
      <3>2. GatherOk(g)'
        BY <3>1 DEF GatherOk
      <3>3. SetOk(g)'
        BY <2>2, NoSetType DEF SetOk
      <3> QED BY <3>2, <3>3
    <2>5. ASSUME NEW u \in Tasks, GatherOf[u] = g PROVE TaskOk(u)'
      BY <1>7, <2>1, <2>5 DEF TaskOk
    <2> QED BY Zenon, <1>1, <1>2, <1>7, <1>9, <2>2, <2>3, <2>4, <2>5, Pack
  <1>12. CASE ~(s.tasks = {} /\ s.alarms = {}) /\ sets' = m /\ UNCHANGED sched
    <2>1. sets' \in [Gathers -> TaskSets] /\ sets'[g] = s /\ \A x \in Gathers : x # g => sets'[x] = sets[x]
      BY Zenon, <1>1, <1>5, <1>12, SetStep
    <2>2. sets[g].state # "None"
      BY <1>1, <1>10, NoSetType DEF SetOk
    <2>3. ScheduleOk(sched', sets', Sleeping', {})
      <3>1. \A u \in Sleeping' : GatherOf[u] = g /\ u \in sets[g].visible => u \in sets'[g].visible
        BY <1>4, <1>5, <1>8, <2>1
      <3>2. sets'[g].state # "None" /\ sched' = sched
        BY Zenon, <1>5, <1>12, <2>1, <2>2
      <3> HIDE DEF g
      <3> QED BY <1>1, <1>8, <2>1, <3>1, <3>2, GrowOk
    <2>4. SetOk(g)'
      <3>1. vi \subseteq ts /\ \A u \in ts : GatherOf[u] = g
        BY <1>1, <1>4 DEF SetOk
      <3>2. ASSUME NEW c \in al
            PROVE  call'[c] = "WAIT_TUNNEL" /\ GatherOf[SenderOf[c]] = g /\ SenderOf[c] \notin vi
        BY Zenon, <1>1, <1>2, <1>4 DEF SetOk
      <3>3. sets[g].state \in {"Aborting", "Aborted"} => al = {}
        BY Zenon, <1>1, <1>4 DEF SetOk
      <3>4. /\ sets'[g].state = sets[g].state /\ sets'[g].tasks = ts /\ sets'[g].visible = vi
            /\ sets'[g].alarms = al /\ (ts # {} \/ al # {})
        BY Zenon, <1>5, <1>12, <2>1
      <3> HIDE DEF g
      <3> QED BY Zenon, <2>2, <3>1, <3>2, <3>3, <3>4 DEF SetOk
    <2>5. GatherOk(g)'
      BY Zenon, <1>1, <1>2, <1>5, <2>1 DEF GatherOk
    <2>6. ASSUME NEW u \in Tasks, GatherOf[u] = g PROVE TaskOk(u)'
      BY <1>1, <1>4, <1>5, <1>7, <2>1, <2>6 DEF TaskOk
    <2> QED BY Zenon, <1>1, <1>2, <1>7, <1>9, <2>1, <2>3, <2>4, <2>5, <2>6, Pack
  <1> QED BY Zenon, <1>2, <1>10, <1>11, <1>12

\* findAsyncTunnel when the alarm has fired.
LEMMA LookupAgainOk ==
  ASSUME Counting, IInv, NEW c \in Calls, LookupAgain(c), UNCHANGED work
  PROVE  IInv'
  <1> DEFINE t == SenderOf[c]
             g == GatherOf[t]
             al == sets[g].alarms \ {c}
             s == [sets[g] EXCEPT !.alarms = al]
             m == [sets EXCEPT ![g] = s]
  <1>1. /\ Typed /\ g \in Gathers /\ sets[g] \in TaskSets /\ SetOk(g) /\ GatherOk(g) /\ ~failed
        /\ \A u \in Tasks : TaskOk(u)
    BY Unpack, CallsAssumption
  <1>2. /\ call[c] = "WAIT_TUNNEL" /\ call' = [call EXCEPT ![c] = "answered"] /\ Sleeping' = Sleeping
        /\ UNCHANGED <<cache, pc, status, abort, failed>>
        /\ \/ /\ Rejected(g) \/ t \in sets[g].visible \/ sets[g].state = "None"
              /\ UNCHANGED <<sets, sched>>
           \/ /\ ~Rejected(g) /\ sets[g].state # "None"
              /\ \/ s.alarms = {} /\ s.tasks = {} /\ removeMPPGatherTaskSet(g, m, FALSE)
                 \/ ~(s.alarms = {} /\ s.tasks = {}) /\ sets' = m /\ UNCHANGED sched
    BY ZenonT(40) DEF LookupAgain, Sleeping
  <1>3. /\ failed' = FALSE /\ pc' \in [Tasks -> Stages] /\ status' \in [Tasks -> Statuses]
        /\ call' \in [Calls -> {"NEW_REQUEST", "WAIT_TUNNEL", "answered"}] /\ sets \in [Gathers -> TaskSets]
        /\ \A d \in Calls : d # c => call'[d] = call[d]
    BY Zenon, <1>1, <1>2 DEF Typed
  <1>4. al \in SUBSET Calls /\ al = sets[g].alarms \ {c}
    BY Zenon, <1>1, SetFields
  <1> HIDE DEF al
  <1>5. s \in TaskSets /\ s.state = sets[g].state /\ s.tasks = sets[g].tasks /\ s.visible = sets[g].visible /\ s.alarms = al
    BY <1>1, <1>4 DEF TaskSets
  <1> HIDE DEF s
  <1>6. m \in [Gathers -> TaskSets] /\ \A x \in Gathers : x # g => m[x] = sets[x]
    BY <1>1, <1>3, <1>5
  <1>7. \A d \in Calls : GatherOf[SenderOf[d]] # g => call'[d] = call[d]
    BY <1>3
  <1>8. CASE /\ Rejected(g) \/ t \in sets[g].visible \/ sets[g].state = "None"
             /\ UNCHANGED <<sets, sched>>
    <2>1. c \notin sets[g].alarms
      BY ZenonT(40), <1>1, <1>8, SetFields, NoSetType DEF SetOk, GatherOk, Rejected
    <2>2. SetOk(g)'
      BY ZenonT(40), <1>1, <1>3, <1>8, <2>1, SetFields DEF SetOk
    <2>3. GatherOk(g)' /\ \A u \in Tasks : TaskOk(u)'
      BY ZenonT(40), <1>1, <1>2, <1>8 DEF GatherOk, TaskOk
    <2>4. ScheduleOk(sched', sets', Sleeping', {})
      BY Zenon, <1>2, <1>8, Unpack
    <2> HIDE DEF g, t
    <2> QED BY Zenon, <1>1, <1>2, <1>3, <1>7, <1>8, <2>2, <2>3, <2>4, Pack
  <1>9. CASE ~Rejected(g) /\ s.alarms = {} /\ s.tasks = {} /\ removeMPPGatherTaskSet(g, m, FALSE)
    <2>1. ASSUME NEW u \in Tasks, GatherOf[u] = g
          PROVE  pc[u] \notin {"registered", "active", "preprocess", "wait", "scheduled", "execute", "unregister"}
      BY Zenon, <1>1, <1>5, <1>9, <2>1 DEF TaskOk
    <2>2. /\ sets' \in [Gathers -> TaskSets] /\ sets'[g] = NoSet
          /\ \A x \in Gathers : x # g => sets'[x] = sets[x]
          /\ ScheduleOk(sched', sets', Sleeping, {})
      <3>1. \A u \in Tasks : GatherOf[u] = g => pc[u] # "wait"
        BY Zenon, <2>1
      <3> HIDE DEF m, g
      <3> QED BY Zenon, <1>1, <1>6, <1>9, <3>1, RemoveOk
    <2>3. abort[g].at # "loop"
      BY <1>1, <1>9 DEF GatherOk, Rejected
    <2>4. SetOk(g)' /\ GatherOk(g)'
      <3>1. abort'[g].at # "loop" /\ sets'[g].state = "None"
        BY <1>2, <2>2, <2>3, NoSetType
      <3>2. GatherOk(g)'
        BY <3>1 DEF GatherOk
      <3>3. SetOk(g)'
        BY <2>2, NoSetType DEF SetOk
      <3> QED BY Zenon, <3>2, <3>3
    <2>5. ASSUME NEW u \in Tasks, GatherOf[u] = g PROVE TaskOk(u)'
      BY Zenon, <1>2, <2>1, <2>5 DEF TaskOk
    <2>6. ScheduleOk(sched', sets', Sleeping', {})
      BY Zenon, <1>2, <2>2
    <2> HIDE DEF g, t
    <2> QED BY Zenon, <1>1, <1>2, <1>3, <1>7, <2>2, <2>4, <2>5, <2>6, Pack
  <1>10. CASE /\ ~Rejected(g) /\ sets[g].state # "None"
              /\ ~(s.alarms = {} /\ s.tasks = {}) /\ sets' = m /\ UNCHANGED sched
    <2>1. sets' \in [Gathers -> TaskSets] /\ sets'[g] = s /\ \A x \in Gathers : x # g => sets'[x] = sets[x]
      BY ZenonT(40), <1>1, <1>5, <1>10, SetStep
    <2>2. ScheduleOk(sched', sets', Sleeping', {})
      BY ZenonT(40), <1>1, <1>2, <1>5, <1>10, <2>1, GrowOk
    <2>3. SetOk(g)'
      <3>1. sets[g].state = "Normal"
        BY Zenon, <1>1, <1>10, SetFields DEF Rejected
      <3>2. \A d \in al : d \in sets[g].alarms /\ call'[d] = call[d]
        BY <1>3, <1>4
      <3>3. SetOk(g) /\ sets'[g] = s
        BY SMTT(30), <1>1, <2>1
      <3> HIDE DEF m, g, t
      <3> QED BY ZenonT(40), <1>5, <1>10, <3>1, <3>2, <3>3 DEF SetOk
    <2>4. GatherOk(g)'
      BY ZenonT(40), <1>1, <1>2, <1>5, <2>1 DEF GatherOk
    <2>5. ASSUME NEW u \in Tasks, GatherOf[u] = g PROVE TaskOk(u)'
      BY Zenon, <1>1, <1>2, <1>5, <2>1, <2>5 DEF TaskOk
    <2> HIDE DEF g, t
    <2> QED BY ZenonT(40), <1>1, <1>2, <1>3, <1>7, <2>1, <2>2, <2>3, <2>4, <2>5, Pack
  <1> HIDE DEF m, g, t
  <1> QED BY Zenon, <1>2, <1>8, <1>9, <1>10

\* abortMPPGather, first section.
LEMMA AbortBeginOk ==
  ASSUME Counting, IInv, NEW g \in Gathers, AbortBegin(g), UNCHANGED work
  PROVE  IInv'
  <1> DEFINE n == NodeOf[g]
             q == QueryOf[g]
             s == [sets[g] EXCEPT !.state = "Aborting", !.alarms = {}]
             m == [sets EXCEPT ![g] = s]
             a0 == [abort[g] EXCEPT !.at = "done"]
             a1 == [at |-> "loop", todo |-> sets[g].visible, now |-> {}]
  <1>1. /\ Typed /\ sets[g] \in TaskSets /\ SetOk(g) /\ GatherOk(g) /\ ~failed
        /\ \A u \in Tasks : TaskOk(u)
        /\ ScheduleOk(sched, sets, Sleeping, {}) /\ Sleeping \in SUBSET Tasks
    BY Unpack
  <1>2. /\ cache' = [cache EXCEPT ![n] = CacheAdd(@, g)]
        /\ UNCHANGED <<pc, status, call, failed>> /\ Sleeping' = Sleeping
        /\ \/ sets[g].state # "Normal" /\ abort' = [abort EXCEPT ![g].at = "done"] /\ UNCHANGED <<sets, sched>>
           \/ /\ sets[g].tasks = {} /\ abort' = [abort EXCEPT ![g].at = "done"]
              /\ removeMPPGatherTaskSet(g, [sets EXCEPT ![g].state = "Aborting", ![g].alarms = {}], TRUE)
           \/ /\ sets[g].tasks # {} /\ abort' = [abort EXCEPT ![g] = a1]
              /\ sets' = [sets EXCEPT ![g].state = "Aborting", ![g].alarms = {}]
              /\ sched' = deleteQuery(sched, n, q, TRUE, {g}, sets')
    BY Zenon DEF AbortBegin, Sleeping
  <1>3. [sets EXCEPT ![g].state = "Aborting", ![g].alarms = {}] = m
    BY Zenon
  <1>4. abort' = [abort EXCEPT ![g].at = "done"] => abort' = [abort EXCEPT ![g] = a0]
    OBVIOUS
  <1>5. abort[g] \in Aborts /\ sets \in [Gathers -> TaskSets] /\ status' \in [Tasks -> Statuses]
    BY <1>1, <1>2 DEF Typed, Aborts, Statuses
  <1>6. a0 \in Aborts /\ a0.at = "done"
    BY <1>5 DEF Aborts
  <1>7. a1 \in Aborts
    BY <1>1, SetFields DEF Aborts
  <1>8. s \in TaskSets /\ s.state = "Aborting" /\ s.tasks = sets[g].tasks /\ s.visible = sets[g].visible /\ s.alarms = {}
    BY Zenon, <1>1 DEF TaskSets
  <1> HIDE DEF s, a0
  <1>9. m \in [Gathers -> TaskSets] /\ m[g] = s /\ \A x \in Gathers : x # g => m[x] = sets[x]
    BY <1>5, <1>8
  <1> HIDE DEF m
  <1>10. CASE sets[g].state # "Normal" /\ abort' = [abort EXCEPT ![g].at = "done"] /\ UNCHANGED <<sets, sched>>
    <2>1. SetOk(g)' /\ \A u \in Tasks : TaskOk(u)'
      BY <1>1, <1>2, <1>10 DEF SetOk, TaskOk
    <2>2. ScheduleOk(sched', sets', Sleeping', {})
      BY <1>1, <1>2, <1>10
    <2> QED BY Zenon, <1>2, <1>4, <1>5, <1>6, <1>10, <2>1, <2>2, PackAbort
  <1>11. CASE /\ sets[g].tasks = {} /\ abort' = [abort EXCEPT ![g].at = "done"]
              /\ removeMPPGatherTaskSet(g, m, TRUE)
    <2>1. ASSUME NEW u \in Tasks, GatherOf[u] = g
          PROVE  pc[u] \notin {"registered", "active", "preprocess", "wait", "scheduled", "execute", "unregister"}
      BY <1>1, <1>11, <2>1 DEF TaskOk
    <2>2. /\ sets' \in [Gathers -> TaskSets] /\ sets'[g] = NoSet
          /\ \A x \in Gathers : x # g => sets'[x] = sets[x]
          /\ ScheduleOk(sched', sets', Sleeping, {})
      <3>1. \A u \in Tasks : GatherOf[u] = g => pc[u] # "wait"
        BY <2>1
      <3> QED BY Zenon, <1>9, <1>11, <3>1, RemoveOk
    <2>3. SetOk(g)'
      BY <2>2, NoSetType DEF SetOk
    <2>4. ASSUME NEW u \in Tasks, GatherOf[u] = g PROVE TaskOk(u)'
      BY <1>2, <2>1, <2>4 DEF TaskOk
    <2>5. ScheduleOk(sched', sets', Sleeping', {})
      BY <1>2, <2>2
    <2> QED BY Zenon, <1>2, <1>4, <1>5, <1>6, <1>11, <2>2, <2>3, <2>4, <2>5, NoSetType, PackAbort
  <1>12. CASE /\ sets[g].tasks # {} /\ abort' = [abort EXCEPT ![g] = a1] /\ sets' = m
              /\ sched' = deleteQuery(sched, n, q, TRUE, {g}, sets')
    <2>1. ScheduleOk(sched, m, Sleeping, {})
      <3>1. \A x \in Gathers : sets[x].state # "None" => m[x].state # "None"
        BY <1>8, <1>9
      <3>2. \A t \in Sleeping : t \in sets[GatherOf[t]].visible => t \in m[GatherOf[t]].visible
        BY Zenon, <1>1, <1>8, <1>9, Belongs
      <3> QED BY <1>1, <3>1, <3>2, ManagerChange
    <2>2. ScheduleOk(sched, m, Sleeping, {<<n, q>>}) /\ n \in Nodes /\ q \in Queries
      BY <2>1, Excuse, Belongs
    <2>3. ScheduleOk(deleteQuery(sched, n, q, TRUE, {g}, m), m, Sleeping, {})
      BY Zenon, <1>1, <2>2, DeleteQueryOk
    <2>4. ScheduleOk(sched', sets', Sleeping', {})
      BY Zenon, <1>2, <1>12, <2>3
    <2>5. SetOk(g)'
      BY Zenon, <1>1, <1>8, <1>9, <1>12 DEF SetOk
    <2>6. ASSUME NEW u \in Tasks, GatherOf[u] = g PROVE TaskOk(u)'
      BY Zenon, <1>1, <1>2, <1>8, <1>9, <1>12, <2>6 DEF TaskOk
    <2> QED BY Zenon, <1>2, <1>5, <1>7, <1>8, <1>9, <1>12, <2>4, <2>5, <2>6, PackAbort
  <1> QED BY ZenonT(40), <1>2, <1>3, <1>10, <1>11, <1>12

\* abortMPPGather without the mutex: the status of a task.
LEMMA AbortTaskOk ==
  ASSUME IInv, NEW g \in Gathers, AbortTask(g), UNCHANGED work
  PROVE  IInv'
  <1>1. /\ Typed /\ sets[g] \in TaskSets /\ SetOk(g) /\ GatherOk(g) /\ \A u \in Tasks : TaskOk(u)
        /\ ScheduleOk(sched, sets, Sleeping, {})
    BY Unpack
  <1>2. abort[g].at = "loop" /\ UNCHANGED <<sets, cache, sched, pc, call, failed>> /\ Sleeping' = Sleeping
    BY DEF AbortTask, Sleeping
  <1>3. PICK t \in abort[g].todo :
          /\ status' = [status EXCEPT ![t] = IF Live(t) THEN "CANCELLED" ELSE @]
          /\ abort' = [abort EXCEPT ![g].todo = @ \ {t}, ![g].now = IF status[t] = "RUNNING" THEN {t} ELSE {}]
    BY Zenon DEF AbortTask
  <1>4. abort[g] \in Aborts /\ t \in Tasks /\ status \in [Tasks -> Statuses] /\ sets \in [Gathers -> TaskSets]
    BY <1>1 DEF Typed, Aborts, Statuses
  <1> DEFINE td == abort[g].todo \ {t}
             nw == IF status[t] = "RUNNING" THEN {t} ELSE {}
             a == [abort[g] EXCEPT !.todo = td, !.now = nw]
  <1>5. abort' = [abort EXCEPT ![g] = a]
    BY Zenon, <1>3
  <1>6. td \in SUBSET Tasks /\ nw \in SUBSET Tasks
    BY <1>4 DEF Aborts
  <1> HIDE DEF td, nw
  <1>7. a \in Aborts /\ a.at = "loop"
    BY Zenon, <1>2, <1>4, <1>6 DEF Aborts
  <1> HIDE DEF a
  <1>8. status' \in [Tasks -> Statuses]
    BY <1>3, <1>4 DEF Statuses
  <1>9. SetOk(g)' /\ \A u \in Tasks : TaskOk(u)'
    BY <1>1, <1>2 DEF SetOk, TaskOk
  <1>10. sets[g].state = "Aborting"
    BY <1>1, <1>2 DEF GatherOk
  <1>11. ScheduleOk(sched', sets', Sleeping', {})
    BY Zenon, <1>1, <1>2
  <1> QED BY Zenon, <1>2, <1>4, <1>5, <1>7, <1>8, <1>9, <1>10, <1>11, PackAbort

\* ... and its schedule entry.
LEMMA AbortEntryOk ==
  ASSUME IInv, NEW g \in Gathers, AbortEntry(g), UNCHANGED work
  PROVE  IInv'
  <1>1. /\ Typed /\ sets[g] \in TaskSets /\ SetOk(g) /\ GatherOk(g) /\ \A u \in Tasks : TaskOk(u)
        /\ ScheduleOk(sched, sets, Sleeping, {}) /\ Sleeping \in SUBSET Tasks
    BY Unpack
  <1>2. UNCHANGED <<sets, cache, pc, status, call, failed>> /\ Sleeping' = Sleeping
    BY DEF AbortEntry, Sleeping
  <1>3. PICK t \in abort[g].now : sched' = schedule(sched, t, "FAILED")
    BY DEF AbortEntry
  <1>4. abort[g] \in Aborts /\ t \in Tasks /\ status' \in [Tasks -> Statuses] /\ sets \in [Gathers -> TaskSets]
    BY <1>1, <1>2 DEF Typed, Aborts, Statuses
  <1> DEFINE a == [abort[g] EXCEPT !.now = {}]
  <1>5. abort' = [abort EXCEPT ![g] = a]
    BY DEF AbortEntry
  <1>6. a \in Aborts /\ a.at = abort[g].at
    BY Zenon, <1>4 DEF Aborts
  <1> HIDE DEF a
  <1>7. SetOk(g)' /\ \A u \in Tasks : TaskOk(u)'
    BY Zenon, <1>1, <1>2 DEF SetOk, TaskOk
  <1>8. a.at = "loop" => sets[g].state = "Aborting"
    BY Zenon, <1>1, <1>6 DEF GatherOk
  <1>9. ScheduleOk(sched', sets', Sleeping', {})
    BY Zenon, <1>1, <1>2, <1>3, <1>4, ScheduleFails
  <1> QED BY Zenon, <1>2, <1>4, <1>5, <1>6, <1>7, <1>8, <1>9, PackAbort

\* abortMPPGather, second section: the gather is still there.
LEMMA AbortEndOk ==
  ASSUME IInv, NEW g \in Gathers, AbortEnd(g), UNCHANGED work
  PROVE  IInv'
  <1>1. /\ Typed /\ sets[g] \in TaskSets /\ SetOk(g) /\ GatherOk(g) /\ \A u \in Tasks : TaskOk(u)
        /\ ScheduleOk(sched, sets, Sleeping, {}) /\ Sleeping \in SUBSET Tasks
    BY Unpack
  <1> DEFINE s == [sets[g] EXCEPT !.state = "Aborted"]
             a == [abort[g] EXCEPT !.at = "done"]
  <1>2. sets[g].state = "Aborting"
    BY <1>1 DEF GatherOk, AbortEnd
  <1>3. /\ UNCHANGED <<cache, sched, pc, status, call, failed>> /\ sets' = [sets EXCEPT ![g] = s]
        /\ abort' = [abort EXCEPT ![g] = a] /\ Sleeping' = Sleeping
    BY <1>2 DEF AbortEnd, Sleeping
  <1>4. abort[g] \in Aborts /\ status' \in [Tasks -> Statuses]
    BY <1>1, <1>3 DEF Typed, Aborts, Statuses
  <1>5. a \in Aborts /\ a.at = "done"
    BY <1>4 DEF Aborts
  <1>6. s \in TaskSets /\ s.state = "Aborted" /\ s.tasks = sets[g].tasks /\ s.visible = sets[g].visible /\ s.alarms = sets[g].alarms
    BY <1>1 DEF TaskSets
  <1> HIDE DEF a, s
  <1>7. sets' \in [Gathers -> TaskSets] /\ sets'[g] = s /\ \A x \in Gathers : x # g => sets'[x] = sets[x]
    BY ZenonT(40), <1>3, <1>6, SetStep
  <1>8. SetOk(g)'
    BY Zenon, <1>1, <1>2, <1>3, <1>6, <1>7 DEF SetOk
  <1>9. ASSUME NEW u \in Tasks, GatherOf[u] = g PROVE TaskOk(u)'
    BY <1>1, <1>3, <1>6, <1>7, <1>9 DEF TaskOk
  <1>10. ScheduleOk(sched', sets', Sleeping', {})
    BY Zenon, <1>3, <1>6, <1>7, GrowOk
  <1> QED BY Zenon, <1>3, <1>4, <1>5, <1>6, <1>7, <1>8, <1>9, <1>10, PackAbort
=============================================================================
