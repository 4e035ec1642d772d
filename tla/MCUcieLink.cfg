SPECIFICATION FairSpec
CONSTANTS
    HalfSeq = 2
    RetrySize = 2
    NakRepeat = 2
    TxFifo = 1
    FbFifo = 2
    FdiDepth = 1
    MaxInFlight = 2
    MaxFlits = 6
    MaxErrors = 2
INVARIANTS InOrder LinkInv
PROPERTIES ImplementsStream EventuallyDelivered EventuallyDrained
CHECK_DEADLOCK FALSE
