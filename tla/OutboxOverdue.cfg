\* A batch that takes longer than its lease: more events per slot than the
\* lease has timeouts (by default 50 events, 4 slots, 10 s and a lease of 50 s).
SPECIFICATION Spec
CONSTANTS
  e1 = e1
  e2 = e2
  e3 = e3
  e4 = e4
  d1 = d1
  d2 = d2
  Events = {e1, e2, e3, e4}
  Dispatchers = {d1, d2}
  BatchSize = 4
  Concurrency = 1
  MaxAttempts = 2
  Timeout = 1
  LeaseSlack = 1
  BackoffBase = 1
  BackoffMax = 2
  Retention = 4
  Recording = 0
  MaxFaults = 0
SYMMETRY Interchangeable
INVARIANT OnceUnlessFaulty
CHECK_DEADLOCK FALSE
