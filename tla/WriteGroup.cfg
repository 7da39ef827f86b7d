CONSTANTS
    Writers = {w1, w2, w3, w4}
    WalFaults = TRUE
    MemFaults = TRUE
SPECIFICATION FairSpec
INVARIANTS TypeOK AckedIsDurableAndVisible EachRecordOnce NoLostWakeup OneOwner
PROPERTIES PublishedIsImmutable EveryWriterReturns
CHECK_DEADLOCK FALSE
