\* Runs over files and dumps, one of them killed or failing.
SPECIFICATION Spec
CONSTANTS
    NBits = 2
    NLines = 3
    ChunkLines = 2
    CacheLimit = 1
    CounterRange = 8
    RowOf <- MCRowOf
    Writes <- MCWrites
    Period = 2
    WriteMax = 2
    FaultMax = 1
    RunMax = 2
INVARIANTS
    ReadsAreWritten
    CleanFilesReopen
CHECK_DEADLOCK FALSE
