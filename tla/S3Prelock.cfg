SPECIFICATION Spec
CONSTANTS
    s1 = s1
    s2 = s2
    dmf = dmf
    ckpt1 = ckpt1
    ckpt2 = ckpt2
    Stores = {s1, s2}
    Files = {dmf, ckpt1, ckpt2}
    CheckpointFiles = {ckpt1, ckpt2}
    StoreOf <- MCStoreOf
    SeqOf <- MCSeqOf
    MaxSeq = 2
    MaxTime = 3
    manifest_preserve_count = 1
    MaxFaults = 1
    Instances <- IngestInstances
    Exempt = {"split", "vanish", "lifecycle", "local"}
INVARIANTS PagesHaveData
CHECK_DEADLOCK FALSE
