CONSTANTS
    DataBytes = 2
    PageBytes = 4
    MaxBeats = 2
    MaxLength = 4
    MemBytes = 6
    Slots = 2
    MaxId = 2
    AddressRoom = 2
    BeatRoom = 2
    FabricRoom = 1
    TraceIds = 3
    MaxNow = 2
    Scenarios <- MCScenarios
SPECIFICATION FairSpec
INVARIANTS
    NothingFails
    AccessesAreSeen
PROPERTY
    EverythingDone
