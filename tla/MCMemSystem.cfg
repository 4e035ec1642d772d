SPECIFICATION FairSpec
CONSTANTS
    StackCount = 2
    Channels = 2
    Stripe = 1
    Capacity = 2
    Configurations <- MCConfigurations
    IngressDepth = 2
    Width = 2
    HostDepth = 1
    TxnDepth = 1
    CtrlDepth = 2
    CtrlAnswers = 1
INVARIANTS NeverFails AnswersFindTheirRequests
PROPERTIES ImplementsMemory EverythingAnswered
