\* Two dispatchers, each batch sent within its lease; weak fairness of time and of
\* every dispatcher.
SPECIFICATION FairSpec
CONSTANTS
  e1 = e1
  e2 = e2
  e3 = e3
  e4 = e4
  d1 = d1
  d2 = d2
  Events = {e1, e2}
  Dispatchers = {d1, d2}
  BatchSize = 2
  Concurrency = 1
  MaxAttempts = 2
  Timeout = 1
  LeaseSlack = 3
  BackoffBase = 1
  BackoffMax = 2
  Retention = 4
  Recording = 1
  MaxFaults = 1
INVARIANTS SingleFlight OnceUnlessFaulty
PROPERTIES Drains KeepsPromise
CHECK_DEADLOCK FALSE
