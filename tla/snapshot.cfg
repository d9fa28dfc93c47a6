SPECIFICATION Spec
CONSTANTS
  Cash = Cash
  Customer = Customer
  Accounts <- MCAccounts
  CashAccounts <- MCCashAccounts
  Amounts <- MCAmounts
  Drafts <- JournalDrafts
  Disabling = {}
  Openings <- NoOpenings
  Years = {1, 2}
  Types = {"journal"}
  MaxVouchers = 2
  MaxNumber = 2
INVARIANTS
  ClosedSnapshotExact
