CONSTANTS
  t1 = t1
  t2 = t2
  Transfers = {t1}
  Positions = {0}
  Depth = 2
  Confirmations = 1
  LogRange = 1
  MaxChunks = 3
  Lines = {"tag"}
  First = 6
  MaxHeight = 10
  Outage = 1
  Lag = 0
  MaxReorgs = 1
  MaxFaults = 2
  Faults = {"abort", "crash", "history"}
SPECIFICATION FairSpec
PROPERTY FinalIsPaid
CHECK_DEADLOCK FALSE
