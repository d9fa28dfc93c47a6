SPECIFICATION Spec
CONSTANTS
  Cash = Cash
  Customer = Customer
  Accounts <- MCAccounts
  CashAccounts <- MCCashAccounts
  Amounts <- MCAmounts
  Drafts <- ChequeOnly
  Disabling = {}
  Openings <- NoOpenings
  Years = {1}
  Types = {"receipt"}
  MaxVouchers = 6
  MaxNumber = 6
INVARIANTS
  OneLivePresentation
