\* One transfer that a reorg un-mines; each of the three invariants is violated (tlc -continue).
SPECIFICATION Spec
CONSTANTS
  t1 = t1
  t2 = t2
  Transfers = {t1}
  Value <- OneTransfer
  Foreign = {}
  MaxInvoices = 1
  BaseAmounts = {10}
  Step = 10
  NonceMax = 1
  MaxReorgs <- Once
  WebhooksEnabled = TRUE
INVARIANTS CreditedNotFiled DetectedIsWatched ConfirmedIsFinal
CHECK_DEADLOCK FALSE
