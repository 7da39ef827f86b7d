CONSTANTS
    DataPages = {}
    RefPages = {}
    MetaPages = {3}
    ExternalPages = {}
    RaftPages = {}
    Readers = {}
    MaxSeq = 4
    MaxEpoch = 0
    MaxLogFiles = 1
    Setups <- MemorySetups
    Races = {"reuse"}
SPECIFICATION Spec
PROPERTIES ImplementsPageStore
