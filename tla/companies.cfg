SPECIFICATION Spec
CONSTANTS
  Companies = {c1, c2}
  Names = {n1, n2}
  LatestSchema = 2
  MaxRevision = 2
  Nil = Nil
  Torn = Torn
SYMMETRY Symmetry
INVARIANTS
  TypeOK
  RegisteredOpens
  BackupHoldsWhatWasAsked
PROPERTY ImplementsShelf
