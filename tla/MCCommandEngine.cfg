SPECIFICATION FairSpec
CONSTANT Scenarios <- MCScenarios
INVARIANTS TraceAccepted
PROPERTY EveryRequestServed
