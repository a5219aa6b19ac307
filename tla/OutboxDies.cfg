\* A dispatcher dies after its claim.
SPECIFICATION Spec
CONSTANTS
  e1 = e1
  e2 = e2
  e3 = e3
  e4 = e4
  d1 = d1
  d2 = d2
  Events = {e1, e2}
  Dispatchers = {d1}
  BatchSize = 2
  Concurrency = 1
  MaxAttempts = 2
  Timeout = 1
  LeaseSlack = 1
  BackoffBase = 1
  BackoffMax = 2
  Retention = 4
  Recording = 0
  MaxFaults = 1
PROPERTY DyingReleases
CHECK_DEADLOCK FALSE
