CONSTANTS
    DataPages = {}
    RefPages = {}
    MetaPages = {3, 4}
    ExternalPages = {}
    RaftPages = {}
    Readers = {}
    MaxSeq = 3
    MaxEpoch = 0
    MaxLogFiles = 1
    Setups <- RenameSetups
    Races = {"rename"}
SPECIFICATION Spec
PROPERTIES ImplementsPageStore
