SPECIFICATION Spec
CONSTANT Scenarios <- MCSharedRow
INVARIANT Act2InTime
