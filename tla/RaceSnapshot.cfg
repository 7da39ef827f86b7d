CONSTANTS
    DataPages = {1}
    RefPages = {2}
    MetaPages = {3}
    ExternalPages = {}
    RaftPages = {}
    Readers = {r1}
    MaxSeq = 4
    MaxEpoch = 0
    MaxLogFiles = 1
    Setups <- MemorySetups
    Races = {"snapshot"}
SPECIFICATION Spec
PROPERTIES ImplementsPageStore
