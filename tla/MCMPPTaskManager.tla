-------------------------- MODULE MCMPPTaskManager --------------------------
(***************************************************************************)
(* Instances of MPPTaskManager for model checking.                         *)
(***************************************************************************)
EXTENDS MPPTaskManager, TLC

CONSTANTS g1, g2, g3, g4, g5, g6, t1, t2, t3, t4, t5, t6, t7, n1, n2, r1, r2, c1

Workload(tasks, requests, cancels, faults) ==
    [tasks |-> tasks, calls |-> requests, cancels |-> cancels, faults |-> faults]

\* Three queries. The first has gathers g1 and g6 on the first node and g2 on
\* the second, the second query has g3 and g4, the third g5. The third is in a
\* resource group of its own. t1 needs as many threads as the hard limit. A
\* receiver asks for the tunnel of t6.
MCQueryOf == g1 :> 1 @@ g2 :> 1 @@ g3 :> 2 @@ g4 :> 2 @@ g5 :> 3 @@ g6 :> 1
MCNodeOf == g1 :> n1 @@ g2 :> n2 @@ g3 :> n1 @@ g4 :> n2 @@ g5 :> n1 @@ g6 :> n1
MCGatherOf == t1 :> g1 @@ t2 :> g2 @@ t3 :> g3 @@ t4 :> g4 @@ t5 :> g5 @@ t6 :> g1 @@ t7 :> g6
MCThreads == t1 :> 2 @@ t2 :> 1 @@ t3 :> 1 @@ t4 :> 1 @@ t5 :> 1 @@ t6 :> 1 @@ t7 :> 1
MCGroupOf == 1 :> r1 @@ 2 :> r1 @@ 3 :> r2
MCSenderOf == c1 :> t6

MCWorkloads ==
    { \* two gathers of one query: one is cancelled, in the other a task fails
      Workload({t6, t7}, {}, {g1}, {t7}),
      \* two queries: a cancellation, a failure and the receiver, or three gathers
      Workload({t6, t3}, {c1}, {g1}, {t3}),
      Workload({t6, t7, t3}, {}, {}, {t3}),
      \* two queries with a task on each of two nodes
      Workload({t1, t2, t3, t4}, {}, {}, {}),
      \* three queries, two of them in one resource group
      Workload({t6, t3, t5}, {}, {g1}, {}) }
============================================================================
