SPECIFICATION MCSpec
CONSTANTS
    MemBase = 1
    MemLines = 16
    RegBase = 16
    RegLines = 1
    Line0 <- MCLine0
    Line1 <- MCLine1
    Line2 <- MCLine2
    Zero0 <- MCZero0
    Zero1 <- MCZero1
    Zero2 <- MCZero2
    MaxKeys = 2
    MaxK = 2
    MaxHeads = 1
    MaxKv = 1
    RecordLines = 1
    IdsPerLine = 2
INVARIANTS CommandsMeetIdle DmaInStep InputsUntouched CacheIsSelection
PROPERTIES DoneMeansWritten JobEnds
