CONSTANTS
    DataPages = {1}
    RefPages = {2, 3}
    MetaPages = {4}
    ExternalPages = {5}
    RaftPages = {4}
    Readers = {r1}
    MaxSeq = 6
    MaxEpoch = 1
    MaxLogFiles = 1
    Setups <- AllSetups
    Races = {}
SPECIFICATION Spec
INVARIANTS TypeOK NoLogicalError SpaceIsOwned RefCountsAreExact
PROPERTIES OneRoundFreesGarbage ImplementsPageStore
