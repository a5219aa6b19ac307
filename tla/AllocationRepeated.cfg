\* A repeated call while every amount is held.
SPECIFICATION Spec
CONSTANTS
  r1 = r1
  r2 = r2
  r3 = r3
  k1 = k1
  NoKey = NoKey
  Requests = {r1, r2, r3}
  Keys = {k1}
  Bases = {1}
  Asks <- Anything
  Step = 1
  NonceMax = 1
  Attempts = 2
  TTL = 0
  AmountHold = 0
  Stall = 0
  Moved = {r1, r2, r3}
PROPERTY RepeatAnswered
CHECK_DEADLOCK FALSE
