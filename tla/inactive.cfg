SPECIFICATION Spec
CONSTANTS
  Cash = Cash
  Customer = Customer
  Accounts <- MCAccounts
  CashAccounts <- MCCashAccounts
  Amounts <- MCAmounts
  Drafts <- ChequeDrafts
  Disabling = {Cash, Customer}
  Openings <- NoOpenings
  Years = {1}
  Types = {"receipt"}
  MaxVouchers = 3
  MaxNumber = 6
PROPERTIES
  InactiveNeverWritten
