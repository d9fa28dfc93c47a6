SPECIFICATION Spec
CONSTANTS
  Cash = Cash
  Customer = Customer
  Accounts <- MCAccounts
  CashAccounts <- MCCashAccounts
  Amounts <- MCAmounts
  Drafts <- LedgerDrafts
  Disabling = {}
  Openings <- CashOpening
  Years = {1, 2}
  Types = {"receipt", "journal"}
  MaxVouchers = 3
  MaxNumber = 2
INVARIANTS
  TypeOK
  NumberingSound
  ReversalNetsToZero
  CancellationLinked
PROPERTIES
  LockedYearFrozen
  OpeningExactWhileLocked
  CarriedInBalance
