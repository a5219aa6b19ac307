\* One transfer overtaken by an API call; both properties are violated (tlc -continue).
SPECIFICATION Spec
CONSTANTS
  t1 = t1
  t2 = t2
  Transfers = {t1}
  Value <- OneTransfer
  Foreign = {}
  MaxInvoices = 1
  BaseAmounts = {10}
  Step = 10
  NonceMax = 1
  MaxReorgs <- Stable
  WebhooksEnabled = TRUE
INVARIANT NoPaymentStranded
PROPERTY FiledStaysUncredited
CHECK_DEADLOCK FALSE
