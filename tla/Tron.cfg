\* Three transfers, two for one invoice, pages of two; a reorg and a failure; the chain
\* solidifies, the feed catches up and cron ticks.
SPECIFICATION FairSpec
CONSTANTS
  t1 = t1
  t2 = t2
  t3 = t3
  x1 = x1
  x2 = x2
  x3 = x3
  i1 = i1
  i2 = i2
  Transfers = {t1, t2, t3}
  Transactions = {x1, x2, x3}
  Invoices = {i1, i2}
  NoInvoice = NoInvoice
  Tx <- OneEach
  Pays <- Rivals
  Worthless = {}
  PageLimit = 2
  InOrder = TRUE
  Replaces = FALSE
  MaxTime = 2
  MaxReorgs = 1
  MaxFaults = 1
INVARIANTS NothingPassed ConfirmedIsBacked CreditedNotFiled
PROPERTY SolidIsHandled
CHECK_DEADLOCK FALSE
