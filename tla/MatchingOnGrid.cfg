\* Two requested amounts one step apart: their candidate amounts overlap.
SPECIFICATION Spec
CONSTANTS
  t1 = t1
  t2 = t2
  Transfers <- MCTransfers
  Value <- SecondForeign
  Foreign = {t2}
  MaxInvoices = 2
  BaseAmounts = {10, 20}
  Step = 10
  NonceMax = 2
  MaxReorgs <- Once
  WebhooksEnabled = TRUE
PROPERTIES ExactPaymentNotPoached LifecycleSpec
CHECK_DEADLOCK FALSE
