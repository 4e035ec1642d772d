\* Seven configurations, one address per line: data, rows, refresh, RFM and
\* that everything is answered.
SPECIFICATION FairSpec
CONSTANTS
    NBanks = 2
    Lines = {1, 2, 3}
    Cells = {1, 2}
    BankOf <- MCBankOf
    RowOf <- MCRowOf
    ReadFifo = 1
    WriteFifo = 1
    PostponeLimit = 2
    PullinLimit = 1
    RfmThreshold = 2
    RfmDecrement = 2
    RowCap = 1
    Confs <- MCConfs
    ReadShapes <- MCReads
    WriteShapes <- MCWrites
    ReadMax = 2
    WriteMax = 2
    PriorityMax = 1
    RespMax = 1
    High = 1
    Low = 1
INVARIANTS
    OpenPageKeepsRow
    MemoryReadsSeeAccepted
    LastWriteWins
    MaintenanceInTime
PROPERTY
    Drains
