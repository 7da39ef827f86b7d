----------------------------- MODULE MPPProofs -----------------------------
(*****************************************************************************)
(* The invariant of MPPInvariant holds in every reachable state of           *)
(* MPPTaskManager, so that its safety properties hold for every value of the *)
(* constants.                                                                *)
(*****************************************************************************)
EXTENDS MPPTaskProofs, MPPAbortProofs

\* Every step keeps the invariant.
LEMMA NextOk ==
  ASSUME Counting, IInv, [Next]_vars
  PROVE  IInv'
  <1>1. CASE UNCHANGED vars
    <2>1. UNCHANGED <<work, sets, cache, sched, pc, status, abort, call, failed>>
      BY <1>1 DEF vars
    <2>2. Typed' /\ Sleeping' = Sleeping
      BY <2>1 DEF IInv, Typed, Sleeping
    <2>3. ManagerOk'
      BY <2>1 DEF IInv, ManagerOk, SetOk, GatherOk, TaskOk
    <2> QED BY <2>1, <2>2, <2>3 DEF IInv
  <1>2. ASSUME NEW t \in Tasks, TaskStep(t), UNCHANGED work PROVE IInv'
    BY <1>2, RegisterOk, MakeTaskActiveOk, HandlerErrorOk, RunOk, FailOk, TryToScheduleOk, AwakeOk,
       StartOk, FinishOk, UnregisterOk, DestroyOk DEF TaskStep
  <1>3. ASSUME NEW g \in Gathers, AbortBegin(g) \/ AbortStep(g), UNCHANGED work PROVE IInv'
    BY <1>3, AbortBeginOk, AbortTaskOk, AbortEntryOk, AbortEndOk DEF AbortStep
  <1>4. ASSUME NEW c \in Calls, Lookup(c) \/ LookupAgain(c), UNCHANGED work PROVE IInv'
    BY <1>4, LookupOk, LookupAgainOk
  <1> QED BY <1>1, <1>2, <1>3, <1>4 DEF Next

\* What a step may do to the gather task set of g.
Closed(g) ==
    sets'[g] # sets[g] =>
       /\ g \in Range(cache[NodeOf[g]]) => sets'[g].tasks \subseteq sets[g].tasks
       /\ abort[g].at = "loop" =>
             sets'[g].tasks = sets[g].tasks /\ sets'[g].visible = sets[g].visible

\* A step that touches the gather task set of g only.
LEMMA ClosedBut ==
  ASSUME NEW g \in Gathers, \A x \in Gathers : x # g => sets'[x] = sets[x],
         \/ sets'[g] = sets[g]
         \/ g \notin Range(cache[NodeOf[g]]) /\ abort[g].at # "loop"
         \/ sets'[g].tasks \subseteq sets[g].tasks /\ abort[g].at # "loop"
         \/ sets'[g].tasks = sets[g].tasks /\ sets'[g].visible = sets[g].visible
  PROVE  \A x \in Gathers : Closed(x)
  BY DEF Closed

\* A gather that is not rejected is not being aborted.
LEMMA NotRejected ==
  ASSUME IInv, NEW g \in Gathers, ~Rejected(g)
  PROVE  g \notin Range(cache[NodeOf[g]]) /\ abort[g].at # "loop"
  <1>1. GatherOk(g)
    BY Unpack
  <1> QED BY <1>1 DEF GatherOk, Rejected

\* Every step keeps to it.
LEMMA StepIsClosed ==
  ASSUME IInv, Next
  PROVE  \A g \in Gathers : Closed(g)
  <1>1. sets \in [Gathers -> TaskSets] /\ (\A g \in Gathers : GatherOk(g)) /\ \A t \in Tasks : GatherOf[t] \in Gathers
    BY Unpack DEF Typed
  <1>2. CASE UNCHANGED sets
    BY <1>2 DEF Closed
  <1>3. ASSUME NEW t \in Tasks, Register(t) PROVE \A g \in Gathers : Closed(g)
    <2>1. CASE UNCHANGED sets
      BY <1>2, <2>1
    <2>2. CASE ~Rejected(GatherOf[t])
      <3>1. \A x \in Gathers : x # GatherOf[t] => sets'[x] = sets[x]
        BY <1>1, <1>3, <2>2 DEF Register
      <3> QED BY <1>1, <2>2, <3>1, NotRejected, ClosedBut
    <2> QED BY <1>3, <2>1, <2>2 DEF Register
  <1>4. ASSUME NEW t \in Tasks, MakeTaskActive(t) PROVE \A g \in Gathers : Closed(g)
    <2>1. ~Rejected(GatherOf[t]) /\ \A x \in Gathers : x # GatherOf[t] => sets'[x] = sets[x]
      BY <1>1, <1>4 DEF MakeTaskActive
    <2> QED BY <1>1, <2>1, NotRejected, ClosedBut
  <1>5. ASSUME NEW t \in Tasks, Unregister(t) PROVE \A g \in Gathers : Closed(g)
    <2> DEFINE h == GatherOf[t]
               s == [sets[h] EXCEPT !.tasks = @ \ {t}, !.visible = @ \ {t},
                                    !.finished = @ \cup {t},
                                    !.alarms = {c \in @ : SenderOf[c] # t}]
    <2>1. h \in Gathers /\ abort[h].at # "loop"
      BY <1>1, <1>5 DEF Unregister, AllowUnregisterTask, GatherOk
    <2>2. s.tasks = sets[h].tasks \ {t}
      BY <1>1, <2>1 DEF TaskSets
    <2>3. \/ UNCHANGED sets
          \/ sets' = [[sets EXCEPT ![h] = s] EXCEPT ![h] = NoSet]
          \/ sets' = [sets EXCEPT ![h] = s]
      BY Zenon, <1>5 DEF Unregister, removeMPPGatherTaskSet
    <2> HIDE DEF s, h
    <2>4. /\ \A x \in Gathers : x # h => sets'[x] = sets[x]
          /\ sets'[h] = sets[h] \/ sets'[h] = s \/ sets'[h] = NoSet
      BY <1>1, <2>1, <2>3
    <2>5. sets'[h] = sets[h] \/ sets'[h].tasks \subseteq sets[h].tasks
      BY <2>2, <2>4, NoSetType
    <2> QED BY <2>1, <2>4, <2>5, ClosedBut
  <1>6. ASSUME NEW g \in Gathers, AbortBegin(g) PROVE \A x \in Gathers : Closed(x)
    <2> DEFINE m == [sets EXCEPT ![g].state = "Aborting", ![g].alarms = {}]
    <2>1. abort[g].at = "none"
      BY <1>6 DEF AbortBegin
    <2>2. UNCHANGED sets \/ sets' = [m EXCEPT ![g] = NoSet] \/ sets' = m
      BY Zenon, <1>6 DEF AbortBegin, removeMPPGatherTaskSet
    <2>3. /\ \A x \in Gathers : x # g => m[x] = sets[x]
          /\ m \in [Gathers -> TaskSets] /\ m[g].tasks = sets[g].tasks /\ m[g].visible = sets[g].visible
      BY ZenonT(40), <1>1 DEF TaskSets
    <2> HIDE DEF m
    <2>4. /\ \A x \in Gathers : x # g => sets'[x] = sets[x]
          /\ sets'[g] = sets[g] \/ sets'[g].tasks = {} \/ sets'[g].tasks = sets[g].tasks
      BY <2>2, <2>3, NoSetType
    <2>5. sets'[g] = sets[g] \/ sets'[g].tasks \subseteq sets[g].tasks
      BY <2>4
    <2> QED BY <2>1, <2>4, <2>5, ClosedBut
  <1>7. ASSUME NEW g \in Gathers, AbortEnd(g) PROVE \A x \in Gathers : Closed(x)
    <2> DEFINE m == [sets EXCEPT ![g].state = "Aborted"]
    <2>1. UNCHANGED sets \/ sets' = m
      BY <1>7 DEF AbortEnd
    <2>2. /\ \A x \in Gathers : x # g => m[x] = sets[x]
          /\ m[g].tasks = sets[g].tasks /\ m[g].visible = sets[g].visible
      BY <1>1 DEF TaskSets
    <2> HIDE DEF m
    <2> QED BY <2>1, <2>2, ClosedBut
  <1>8. ASSUME NEW c \in Calls, Lookup(c) PROVE \A g \in Gathers : Closed(g)
    <2> DEFINE h == GatherOf[SenderOf[c]]
    <2>0. h \in Gathers
      BY <1>1, CallsAssumption
    <2>1. CASE UNCHANGED sets
      BY <1>2, <2>1
    <2>2. CASE ~Rejected(h)
      <3>1. \A x \in Gathers : x # h => sets'[x] = sets[x]
        BY <1>1, <1>8 DEF Lookup
      <3> QED BY <2>0, <2>2, <3>1, NotRejected, ClosedBut
    <2> QED BY <1>8, <2>1, <2>2 DEF Lookup
  <1>9. ASSUME NEW c \in Calls, LookupAgain(c) PROVE \A g \in Gathers : Closed(g)
    <2> DEFINE h == GatherOf[SenderOf[c]]
               s == [sets[h] EXCEPT !.alarms = @ \ {c}]
    <2>0. h \in Gathers
      BY <1>1, CallsAssumption
    <2>1. \/ UNCHANGED sets
          \/ ~Rejected(h) /\ (sets' = [[sets EXCEPT ![h] = s] EXCEPT ![h] = NoSet] \/ sets' = [sets EXCEPT ![h] = s])
      BY Zenon, <1>9 DEF LookupAgain, removeMPPGatherTaskSet
    <2> HIDE DEF s, h
    <2>2. \A x \in Gathers : x # h => sets'[x] = sets[x]
      BY <1>1, <2>0, <2>1
    <2> QED BY <1>2, <2>0, <2>1, <2>2, NotRejected, ClosedBut
  <1>10. ASSUME NEW t \in Tasks, TaskStep(t) PROVE \A g \in Gathers : Closed(g)
    <2>1. Register(t) \/ MakeTaskActive(t) \/ Unregister(t) \/ UNCHANGED sets
      BY Zenon, <1>10 DEF TaskStep, HandlerError, Run, Fail, TryToSchedule, Awake, Start, Finish, Destroy
    <2> QED BY SMTT(30), <1>2, <1>3, <1>4, <1>5, <2>1
  <1>11. ASSUME NEW g \in Gathers, AbortStep(g) PROVE \A x \in Gathers : Closed(x)
    <2>1. AbortEnd(g) \/ UNCHANGED sets
      BY <1>11 DEF AbortStep, AbortTask, AbortEntry
    <2> QED BY <1>2, <1>7, <2>1
  <1> QED BY <1>6, <1>8, <1>9, <1>10, <1>11 DEF Next

INSTANCE FiniteSetTheorems

\* The threads of a set of tasks, as pairs of a task and a number.
ThreadsOf(S) == UNION {{t} \X (1 .. needed_threads[t]) : t \in S}

\* Only finitely many threads.
LEMMA PairsFinite ==
  ASSUME NEW S \in SUBSET Tasks
  PROVE  IsFiniteSet(ThreadsOf(S)) /\ Threads(S) = Cardinality(ThreadsOf(S))
  <1> DEFINE f == [t \in S |-> {t} \X (1 .. needed_threads[t])]
             R == {{t} \X (1 .. needed_threads[t]) : t \in S}
  <1>1. IsFiniteSet(S)
    BY IdsAssumption, FS_Subset
  <1>2. f \in Surjection(S, R)
    BY Zenon DEF Surjection
  <1>3. IsFiniteSet(R)
    BY <1>1, <1>2, FS_Surjection
  <1>4. ASSUME NEW t \in S PROVE IsFiniteSet({t} \X (1 .. needed_threads[t]))
    <2>1. needed_threads[t] \in Int
      BY IdsAssumption
    <2>2. IsFiniteSet(1 .. needed_threads[t])
      BY <2>1, FS_Interval
    <2>3. IsFiniteSet({t})
      BY Zenon, FS_Singleton
    <2> HIDE DEF f, R
    <2> QED BY ONLY <2>2, <2>3, FS_Product, Zenon
  <1> QED BY Zenon, <1>3, <1>4, FS_UNION DEF ThreadsOf, Threads

\* A number of threads is a natural number, and 0 without tasks.
LEMMA PairsType ==
  ASSUME NEW S \in SUBSET Tasks
  PROVE  Threads(S) \in Nat
  BY PairsFinite, FS_CardinalityType

\* Without tasks there are none.
LEMMA NoPairs == Threads({}) = 0
  <1>1. ThreadsOf({}) = {}
    BY DEF ThreadsOf
  <1> QED BY <1>1, PairsFinite, FS_EmptySet

\* More tasks, no fewer threads.
LEMMA PairsMonotone ==
  ASSUME NEW S \in SUBSET Tasks, NEW T \in SUBSET S
  PROVE  Threads(T) <= Threads(S)
  <1>1. T \in SUBSET Tasks
    OBVIOUS
  <1>2. ThreadsOf(T) \in SUBSET ThreadsOf(S)
    BY DEF ThreadsOf
  <1> QED BY <1>1, <1>2, PairsFinite, FS_Subset

\* One more task adds its threads.
LEMMA PairsAdd ==
  ASSUME NEW S \in SUBSET Tasks, NEW t \in Tasks, t \notin S
  PROVE  Threads(S \cup {t}) = Threads(S) + needed_threads[t]
  <1> DEFINE P == {t} \X (1 .. needed_threads[t])
  <1>1. needed_threads[t] \in Nat \ {0}
    BY IdsAssumption
  <1>2. IsFiniteSet(P) /\ Cardinality(P) = needed_threads[t]
    <2>1. IsFiniteSet(1 .. needed_threads[t]) /\ Cardinality(1 .. needed_threads[t]) = needed_threads[t]
      <3> DEFINE k == needed_threads[t]
      <3>1. 1 \in Int /\ k \in Int /\ k >= 1
        BY <1>1
      <3> HIDE DEF k
      <3>2. IsFiniteSet(1 .. k) /\ Cardinality(1 .. k) = IF 1 > k THEN 0 ELSE k - 1 + 1
        BY ONLY <3>1, FS_Interval, Zenon
      <3>3. Cardinality(1 .. k) = k
        BY ONLY <3>1, <3>2
      <3> QED BY Zenon, <3>2, <3>3 DEF k
    <2>2. IsFiniteSet({t}) /\ Cardinality({t}) = 1
      BY Zenon, FS_Singleton
    <2>3. IsFiniteSet(P) /\ Cardinality(P) = 1 * needed_threads[t]
      <3> HIDE DEF P
      <3>1. P = {t} \X (1 .. needed_threads[t])
        BY DEF P
      <3> DEFINE A == {t}
                 B == 1 .. needed_threads[t]
      <3>2. P = A \X B /\ IsFiniteSet(A) /\ IsFiniteSet(B) /\ Cardinality(A) = 1 /\ Cardinality(B) = needed_threads[t]
        BY <2>1, <2>2, <3>1
      <3> HIDE DEF A, B
      <3>3. IsFiniteSet(A \X B) /\ Cardinality(A \X B) = Cardinality(A) * Cardinality(B)
        BY ONLY <3>2, FS_Product, Zenon
      <3> QED BY ONLY <3>2, <3>3
    <2> QED BY <1>1, <2>3
  <1>3. ThreadsOf(S \cup {t}) = ThreadsOf(S) \cup P
    BY Zenon DEF ThreadsOf
  <1>4. ThreadsOf(S) \cap P = {}
    BY DEF ThreadsOf
  <1>5. S \cup {t} \in SUBSET Tasks
    OBVIOUS
  <1>6. IsFiniteSet(ThreadsOf(S)) /\ Threads(S) = Cardinality(ThreadsOf(S)) /\ Threads(S) \in Nat
    BY PairsFinite, PairsType
  <1>7. Threads(S \cup {t}) = Cardinality(ThreadsOf(S \cup {t}))
    BY <1>5, PairsFinite
  <1> HIDE DEF P
  <1>8. Cardinality(ThreadsOf(S) \cup P) = Cardinality(ThreadsOf(S)) + Cardinality(P) - Cardinality({})
    <2> HIDE DEF P
    <2> DEFINE Q == ThreadsOf(S)
    <2>1. IsFiniteSet(Q) /\ IsFiniteSet(P) /\ Q \cap P = {}
      BY <1>2, <1>4, <1>6
    <2> HIDE DEF Q
    <2>2. Cardinality(Q \cup P) = Cardinality(Q) + Cardinality(P) - Cardinality(Q \cap P)
      BY ONLY <2>1, FS_Union, Zenon
    <2>3. Cardinality(Q \cup P) = Cardinality(Q) + Cardinality(P) - Cardinality({})
      BY ONLY <2>1, <2>2
    <2> QED BY <2>3 DEF Q
  <1>9. Cardinality({}) = 0
    BY Zenon, FS_EmptySet
  <1>10. Threads(S \cup {t}) = Threads(S) + needed_threads[t] - 0
    BY Zenon, <1>2, <1>3, <1>6, <1>7, <1>8, <1>9
  <1> QED BY ONLY <1>1, <1>6, <1>10

\* A set of natural numbers has a least element.
LEMMA NatLeast ==
  ASSUME NEW T \in SUBSET Nat, T # {}
  PROVE  \E x \in T : \A y \in T : x <= y
  <1>1. T \subseteq Nat
    OBVIOUS
  <1>2. PICK x \in T : \A y \in T : ~ (<<y, x>> \in OpToRel(<, Nat))
    BY Zenon, <1>1, NatLessThanWellFounded, WFMin
  <1>3. \A y \in T : ~(y < x)
    BY Zenon, <1>2 DEF OpToRel
  <1> QED BY <1>3

\* So the proofs above may count.
LEMMA CountingHolds == Counting
  <1>1. Cardinality(Tasks) \in Nat /\ Cardinality(Queries) \in Nat
    BY IdsAssumption, FS_CardinalityType
  <1>2. \A S \in SUBSET Tasks : \A t \in Tasks \ S : Threads(S \cup {t}) = Threads(S) + needed_threads[t]
    BY Zenon, PairsAdd
  <1> QED BY Zenon, <1>1, <1>2, PairsType, NoPairs, PairsMonotone, NatLeast DEF Counting

\* The invariant holds whatever the nodes, resource groups, queries, tasks,
\* limits and workloads are.
THEOREM InvariantHolds == Spec => []IInv
  <1>1. Init => IInv
    BY CountingHolds, InitOk
  <1>2. IInv /\ [Next]_vars => IInv'
    BY CountingHolds, NextOk
  <1> QED BY <1>1, <1>2, PTL DEF Spec

\* Program counters, states and counters have values the code gives them, and
\* aborted_query_gather_cache never exceeds ABORTED_MPPGATHER_CACHE_SIZE.
THEOREM TypeCorrect == Spec => []TypeOK
  <1>1. IInv => TypeOK
    <2> SUFFICES ASSUME IInv PROVE TypeOK
      OBVIOUS
    <2>1. \A g \in Gathers : sets[g] \in TaskSets /\ SetOk(g)
      BY Unpack
    <2>2. \A g \in Gathers : /\ sets[g].state \in {"None", "Normal", "Aborting", "Aborted"}
                             /\ sets[g].visible \subseteq sets[g].tasks /\ sets[g].tasks \subseteq Tasks
      BY Zenon, <2>1, SetFields DEF SetOk
    <2>3. sched \in Schedules /\ \A n \in Nodes : Len(cache[n]) <= CacheSize
      BY DEF IInv, Typed, ManagerOk
    <2>4. sched.entry \in [Tasks -> Entries] /\ sched.waitq \in [Gathers -> Seq(Tasks)]
      BY <2>3, ScheduleFields
    <2>5. status \in [Tasks -> {"INITIALIZING", "RUNNING", "FINISHED", "CANCELLED", "FAILED"}]
      BY Zenon DEF IInv, Typed, Statuses
    <2> QED BY <2>2, <2>3, <2>4, <2>5 DEF TypeOK, Entries
  <1> QED BY <1>1, InvariantHolds, PTL

\* The assertions of abortMPPGather, makeTaskActive and
\* releaseThreadsThenSchedule never fail.
THEOREM AssertionsHold == Spec => []NoAssertionFails
  <1>1. IInv => NoAssertionFails
    BY Zenon, Unpack DEF NoAssertionFails
  <1> QED BY <1>1, InvariantHolds, PTL

\* The thread counts of MinTSOScheduler are those of the tasks that are scheduled
\* and not yet destroyed, and no group exceeds thread_hard_limit.
THEOREM CountsAreExact == Spec => []ThreadsAreCounted
  <1>1. IInv => ThreadsAreCounted
    <2> SUFFICES ASSUME IInv PROVE ThreadsAreCounted
      OBVIOUS
    <2>1. CountsOk(sched)
      BY Zenon, Unpack DEF ScheduleOk
    <2>2. \A n, rs : ScheduledIn(n, rs) = ScheduledOf(sched.entry, n, rs)
      BY Zenon DEF ScheduledIn, ScheduledOf
    <2> QED BY Zenon, <2>1, <2>2 DEF CountsOk, UsageOk, ThreadsAreCounted
  <1> QED BY <1>1, InvariantHolds, PTL

\* A task that sleeps in waitForSchedule is queued, visible, and its query is in
\* the waiting set: scheduleWaitingQueries will find it.
THEOREM WaitersAreKnown == Spec => []NoForgottenWaiter
  <1>1. IInv => NoForgottenWaiter
    <2> SUFFICES ASSUME IInv PROVE NoForgottenWaiter
      OBVIOUS
    <2>1. WaitersOk(sched, sets, Sleeping)
      BY Zenon, Unpack DEF ScheduleOk
    <2> QED BY Zenon, <2>1 DEF WaitersOk, WaiterOk, Sleeping, NoForgottenWaiter
  <1> QED BY <1>1, InvariantHolds, PTL

\* min_query_id is not newer than any query of its group and names a query that
\* is still in the manager.
THEOREM OldestIsKnown == Spec => []MinQueryIsOldest
  <1>1. IInv => MinQueryIsOldest
    <2> SUFFICES ASSUME IInv PROVE MinQueryIsOldest
      OBVIOUS
    <2>1. GroupsOk(sched, sets, {})
      BY Zenon, Unpack DEF ScheduleOk
    <2>2. \A n, q : ManagedIn(sets, {}, n, q) => InManager(n, q)
      BY Zenon DEF ManagedIn, InManager
    <2> QED BY <2>1, <2>2 DEF GroupsOk, QueriesOk, MinQueryIsOldest
  <1> QED BY <1>1, InvariantHolds, PTL

\* A gather task set is there for a task or a waiting receiver, and a query is in
\* the scheduler only while it is in the manager.
THEOREM EverythingIsCleared == Spec => []NothingLeftBehind
  <1>1. IInv => NothingLeftBehind
    <2> SUFFICES ASSUME IInv PROVE NothingLeftBehind
      OBVIOUS
    <2>1. \A g \in Gathers : SetOk(g)
      BY Unpack
    <2>2. \A g \in Gathers : sets[g].state # "None" =>
              sets[g].tasks # {} \/ \E c \in sets[g].alarms : call[c] = "WAIT_TUNNEL"
      <3> SUFFICES ASSUME NEW g \in Gathers, sets[g].state # "None"
                   PROVE  sets[g].tasks # {} \/ \E c \in sets[g].alarms : call[c] = "WAIT_TUNNEL"
        OBVIOUS
      <3>1. sets[g].tasks # {} \/ sets[g].alarms # {}
        BY Zenon, <2>1 DEF SetOk
      <3>2. \A c \in sets[g].alarms : call[c] = "WAIT_TUNNEL"
        BY Zenon, <2>1 DEF SetOk
      <3> QED BY Zenon, <3>1, <3>2
    <2>3. \A n \in Nodes, r \in Groups :
              \A q \in sched.group[n][r].active_set \cup sched.group[n][r].waiting_set : InManager(n, q)
      <3>1. GroupsOk(sched, sets, {})
        BY Zenon, Unpack DEF ScheduleOk
      <3>2. \A n, q : ManagedIn(sets, {}, n, q) => InManager(n, q)
        BY Zenon DEF ManagedIn, InManager
      <3> QED BY Zenon, <3>1, <3>2 DEF GroupsOk, QueriesOk
    <2> QED BY <2>2, <2>3 DEF NothingLeftBehind
  <1> QED BY <1>1, InvariantHolds, PTL

\* While abortMPPGather walks over the tasks of a gather without the mutex its task
\* map does not change, and a gather that is in the cache of aborted gathers
\* gets no tasks.
THEOREM AbortsAreClosed == Spec => AbortedGathersAreClosed
  <1>1. IInv /\ [Next]_vars => [\A g \in Gathers : Closed(g)]_vars
    BY StepIsClosed
  <1>2. [][\A g \in Gathers : Closed(g)]_vars => AbortedGathersAreClosed
    BY DEF AbortedGathersAreClosed, Closed
  <1>3. Spec => [][\A g \in Gathers : Closed(g)]_vars
    BY <1>1, InvariantHolds, PTL DEF Spec
  <1> QED BY <1>2, <1>3
=============================================================================
