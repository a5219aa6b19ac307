\* By hand: refutes AskedIsListed, an invoice created within the last second asked for.
SPECIFICATION FairSpec
CONSTANTS
  Ids = {1, 2, 3}
  Second = 2
  Filters <- Asked
  defaultLimit = 2
  maxLimit = 3
  MaxTime = 3
  MaxChanges = 1
  None = None
INVARIANT AskedIsListed
CHECK_DEADLOCK FALSE
