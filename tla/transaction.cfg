SPECIFICATION Spec
CONSTANTS
  MaxCalls = 3
  MaxNesting = 3
  MaxRows = 2
  CommitMayFail = TRUE
INVARIANTS
  TypeOK
  
  OthersLeaveNothing
  
PROPERTY ImplementsAtomicCalls
