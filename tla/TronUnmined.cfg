\* A reorg takes a transfer away that is on record already.
SPECIFICATION Spec
CONSTANTS
  t1 = t1
  t2 = t2
  t3 = t3
  x1 = x1
  x2 = x2
  x3 = x3
  i1 = i1
  i2 = i2
  Transfers = {t1}
  Transactions = {x1}
  Invoices = {i1}
  NoInvoice = NoInvoice
  Tx <- OnlyOne
  Pays <- PaysFirst
  Worthless = {}
  PageLimit = 2
  InOrder = TRUE
  Replaces = FALSE
  MaxTime = 3
  MaxReorgs = 1
  MaxFaults = 0
INVARIANT UnminedNeverConfirms
CHECK_DEADLOCK FALSE
