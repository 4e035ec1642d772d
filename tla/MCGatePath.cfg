SPECIFICATION FairSpec
CONSTANTS
    Lines = {1, 2}
    Slots = 2
    QueueLimit = 1
    TagLimit = 2
    Tags = 3
    Depth = 1
    Programs <- MCPrograms
    DmaOps <- MCDmaOps
    MaxDma = 1
INVARIANTS TicketsHold AnsweredInOrder Coherent
PROPERTY EveryAccessAnswered
