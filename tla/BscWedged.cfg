CONSTANTS
  t1 = t1
  t2 = t2
  Transfers = {t1}
  Positions = {0, 1}
  Depth = 2
  Confirmations = 1
  LogRange = 2
  MaxChunks = 3
  Lines = {"tag"}
  First = 6
  MaxHeight = 10
  Outage = 1
  Lag = 0
  MaxReorgs = 1
  MaxFaults = 0
  Faults = {}
SPECIFICATION FairSpec
PROPERTY FinalIsPaid
CHECK_DEADLOCK FALSE
