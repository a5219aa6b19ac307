\* Three invoices in two seconds; pages of one and of two.
SPECIFICATION FairSpec
CONSTANTS
  Ids = {1, 2, 3}
  Second = 2
  Filters <- Asked
  defaultLimit = 2
  maxLimit = 3
  MaxTime = 3
  MaxChanges = 1
  None = None
INVARIANTS YieldedOnce NoneMissed
PROPERTY WalkEnds
CHECK_DEADLOCK FALSE
