CONSTANTS
  t1 = t1
  t2 = t2
  Transfers = {t1}
  Positions = {0}
  Depth = 2
  Confirmations = 1
  LogRange = 2
  MaxChunks = 3
  Lines = {"tag"}
  First = 6
  MaxHeight = 11
  Outage = 2
  Lag = 0
  MaxReorgs = 1
  MaxFaults = 1
  Faults = {"abort"}
SPECIFICATION Spec
INVARIANT NoLoss
CHECK_DEADLOCK FALSE
