SPECIFICATION Spec
CONSTANTS
  MaxCalls = 2
  MaxNesting = 2
  MaxRows = 2
  CommitMayFail = TRUE
INVARIANTS
  ThrownLeavesNothing
