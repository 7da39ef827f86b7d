CONSTANTS
    DataPages = {1}
    RefPages = {2}
    MetaPages = {}
    ExternalPages = {}
    RaftPages = {}
    Readers = {}
    MaxSeq = 4
    MaxEpoch = 1
    MaxLogFiles = 1
    Setups <- MoveSetups
    Races = {"overlap"}
SPECIFICATION Spec
PROPERTIES ImplementsPageStore
