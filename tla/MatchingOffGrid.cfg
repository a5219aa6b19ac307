\* Two requested amounts that are not a multiple of the step apart.
SPECIFICATION Spec
CONSTANTS
  t1 = t1
  t2 = t2
  Transfers = {t1}
  Value <- OneTransfer
  Foreign = {}
  MaxInvoices = 2
  BaseAmounts = {5, 10}
  Step = 10
  NonceMax = 2
  MaxReorgs <- Stable
  WebhooksEnabled = TRUE
PROPERTY ExactPaymentNotPoached
CHECK_DEADLOCK FALSE
