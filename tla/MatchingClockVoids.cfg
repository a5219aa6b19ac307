\* The expirer's statement overlaps a credit.
SPECIFICATION Spec
CONSTANTS
  t1 = t1
  t2 = t2
  Transfers = {t1}
  Value <- OneTransfer
  Foreign = {}
  MaxInvoices = 1
  BaseAmounts = {10}
  Step = 10
  NonceMax = 1
  MaxReorgs <- Stable
  WebhooksEnabled = TRUE
PROPERTY ClockNeverVoidsMoney
CHECK_DEADLOCK FALSE
