SPECIFICATION FairSpec
CONSTANTS
    g5 = g5
    g6 = g6
    t7 = t7
    t5 = t5
    t6 = t6
    g1 = g1
    g2 = g2
    g3 = g3
    g4 = g4
    t1 = t1
    t2 = t2
    t3 = t3
    t4 = t4
    n1 = n1
    n2 = n2
    r1 = r1
    r2 = r2
    c1 = c1
    Max_Query_Id = 9
    thread_soft_limit = 1
    thread_hard_limit = 2
    active_set_soft_limit = 2
    CacheSize = 1
    Queries = {1, 2, 3}
    Gathers = {g1, g2, g3, g4, g5, g6}
    Tasks = {t1, t2, t3, t4, t5, t6, t7}
    Nodes = {n1, n2}
    Groups = {r1, r2}
    Calls = {c1}
    QueryOf <- MCQueryOf
    NodeOf <- MCNodeOf
    GatherOf <- MCGatherOf
    needed_threads <- MCThreads
    GroupOf <- MCGroupOf
    SenderOf <- MCSenderOf
    Workloads <- MCWorkloads
INVARIANTS TypeOK NoAssertionFails ThreadsAreCounted NoForgottenWaiter MinQueryIsOldest NothingLeftBehind
PROPERTIES AbortedGathersAreClosed EveryTaskEnds
CHECK_DEADLOCK FALSE
