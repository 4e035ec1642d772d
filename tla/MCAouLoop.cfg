SPECIFICATION FairSpec
CONSTANTS
    NRp = 2
    CounterMax = 16
    FlitGranules = 5
    ReqGranules = 1
    DataGranules = 4
    FullGranules = 3
    RespGranules = 1
    GrantGranules = 2
    Txns <- MCTxns
    Programs <- MCPrograms
    RxDepth <- MCRxDepth
    TxReqDepth = 1
    TxDataDepth = 1
    PackPerCycle = 2
    RoutePerCycle = 2
    IdleLimit = 2
    LinkDepth = 1
    RequestSlots = 1
    WdataGranules = 4
    MaxOutstanding = 2
    MemDepth = 2
INVARIANTS NeverFatal DataMeetsItsRequest OrderedOrReported SlotsBalanced
PROPERTIES ImplementsCredits Answered
