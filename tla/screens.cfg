SPECIFICATION Spec
CONSTANTS
  MaxWrites = 2
  MaxLoads = 2
  Nil = Nil
INVARIANTS
  TypeOK
  TreeHasInvalidated
  ListAnswersLatest
  SomebodyComes
PROPERTIES
  DashboardCatchesUp
  SpinnersStop
