\* Three requests that compete for two amounts and for a key; one may lose to both
\* others.  One invoice is cancelled or credited, the others run out.
SPECIFICATION FairSpec
CONSTANTS
  r1 = r1
  r2 = r2
  r3 = r3
  k1 = k1
  NoKey = NoKey
  Requests = {r1, r2, r3}
  Keys = {k1}
  Bases = {1, 2}
  Asks <- Mixed
  Step = 1
  NonceMax = 2
  Attempts = 2
  TTL = 1
  AmountHold = 2
  Stall = 1
  Moved = {r2}
INVARIANTS HoldOutlivesEnd HonestRefusal AnswersAgree
PROPERTY AmountsReturn
CHECK_DEADLOCK FALSE
