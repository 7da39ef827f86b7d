SPECIFICATION FairSpec
CONSTANTS
    a = a
    b = b
    w1 = w1
    w2 = w2
    w3 = w3
    r1 = r1
    r2 = r2
    Sources = {a, b}
    Writers = {w1, w2, w3}
    Readers = {r1, r2}
    From <- MCFrom
    Workloads <- MCWorkloads
    SendLimits <- MCSendLimits
    RecvLimits <- MCRecvLimits
    MaxTries = 2
INVARIANTS TypeOK ReceivedInOrder EofIsComplete WriteDoneIsDelivered NoLostKick ReceiverOutlivesItsUsers
PROPERTIES EverythingEnds
CHECK_DEADLOCK FALSE
