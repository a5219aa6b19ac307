CONSTANTS
  t1 = t1
  t2 = t2
  Transfers = {t1}
  Positions = {0, 1}
  Depth = 3
  Confirmations = 1
  LogRange = 2
  MaxChunks = 3
  Lines = {"tag", "count"}
  First = 8
  MaxHeight = 14
  Outage = 2
  Lag = 0
  MaxReorgs = 2
  MaxFaults = 1
  Faults = {"abort", "crash", "rewind"}
SPECIFICATION Spec
INVARIANTS NoLoss PaidIsFinal
PROPERTY AbsentIsGone
CHECK_DEADLOCK FALSE
