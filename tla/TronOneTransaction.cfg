\* Two transfers for two invoices in one transaction.
SPECIFICATION FairSpec
CONSTANTS
  t1 = t1
  t2 = t2
  t3 = t3
  x1 = x1
  x2 = x2
  x3 = x3
  i1 = i1
  i2 = i2
  Transfers = {t2, t3}
  Transactions = {x1}
  Invoices = {i1, i2}
  NoInvoice = NoInvoice
  Tx <- OneForAll
  Pays <- PaysRest
  Worthless = {}
  PageLimit = 3
  InOrder = TRUE
  Replaces = FALSE
  MaxTime = 3
  MaxReorgs = 0
  MaxFaults = 0
PROPERTY SolidIsHandled
CHECK_DEADLOCK FALSE
