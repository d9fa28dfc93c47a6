SPECIFICATION Spec
CONSTANTS
  Companies = {c1, c2}
  MaxHandles = 3
  MaxTasks = 2
  Nil = Nil
INVARIANTS
  TypeOK
  TableHasLive
  SessionKeepsHandle
  BusyIsOwned
PROPERTY BusyEnds
