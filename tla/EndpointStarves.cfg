\* By hand: three endpoints and three calls a tick, the logs always asked of the same; refutes ArchiveSuffices.
SPECIFICATION PoolFairSpec
CONSTANTS
  Pools <- Deployments
  FailureCooldown = 2
  MaxChunks = 2
  MaxBehind = 3
  MaxFaults = 0
PROPERTY ArchiveSuffices
CHECK_DEADLOCK FALSE
