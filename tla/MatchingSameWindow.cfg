\* Two transfers in one invoice's window, a second invoice that may inherit
\* the only amount, one reorg.
SPECIFICATION Spec
CONSTANTS
  t1 = t1
  t2 = t2
  Transfers <- MCTransfers
  Value <- SameWindow
  Foreign = {}
  MaxInvoices = 2
  BaseAmounts = {10}
  Step = 10
  NonceMax = 1
  MaxReorgs <- Once
  WebhooksEnabled = TRUE
INVARIANTS PayableIsHeld OutboxTruthful EventsCoherent
  PaidIsBacked LivePaymentsMatch
PROPERTY LiveNotFiled
CHECK_DEADLOCK FALSE
