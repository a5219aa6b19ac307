\* Two or three endpoints of which one serves logs at any depth.
SPECIFICATION PoolFairSpec
CONSTANTS
  Pools <- Deployments
  FailureCooldown = 2
  MaxChunks = 2
  MaxBehind = 3
  MaxFaults = 2
INVARIANT EvenSpread
PROPERTIES FailedMeansAllDown LogsServed
CHECK_DEADLOCK FALSE
