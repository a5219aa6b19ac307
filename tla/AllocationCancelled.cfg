\* An invoice cancelled before its deadline.
SPECIFICATION Spec
CONSTANTS
  r1 = r1
  r2 = r2
  r3 = r3
  k1 = k1
  NoKey = NoKey
  Requests = {r1, r2}
  Keys = {}
  Bases = {1}
  Asks <- Anything
  Step = 1
  NonceMax = 1
  Attempts = 1
  TTL = 2
  AmountHold = 3
  Stall = 1
  Moved = {r1, r2}
PROPERTY CancelExtends
CHECK_DEADLOCK FALSE
