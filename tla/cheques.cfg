SPECIFICATION Spec
CONSTANTS
  Cash = Cash
  Customer = Customer
  Accounts <- MCAccounts
  CashAccounts <- MCCashAccounts
  Amounts <- MCUnitAmounts
  Drafts <- CorrectableDrafts
  Disabling = {Customer}
  Openings <- CustomerSaved
  Years = {1}
  Types = {"journal"}
  MaxVouchers = 5
  MaxNumber = 5
INVARIANTS
  ChequesFollowVouchers
  OneOutstandingRepresentation
  OpSound
  EvidenceCurrent
PROPERTIES
  CorrectedForGood
  EvidenceChained
  ImplementsBooks
