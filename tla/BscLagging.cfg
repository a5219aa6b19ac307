CONSTANTS
  t1 = t1
  t2 = t2
  Transfers = {t1}
  Positions = {0}
  Depth = 2
  Confirmations = 1
  LogRange = 2
  MaxChunks = 3
  Lines = {"tag"}
  First = 6
  MaxHeight = 11
  Outage = 1
  Lag = 1
  MaxReorgs = 0
  MaxFaults = 0
  Faults = {}
SPECIFICATION Spec
PROPERTY AbsentIsGone
CHECK_DEADLOCK FALSE
