\* Two replicas and three boots between three configuration files, one of them invalid.
SPECIFICATION FairSpec
CONSTANTS
  r1 = r1
  r2 = r2
  watch = watch
  None = None
  Replicas = {r1, r2}
  Jobs = {watch}
  Files <- AllFiles
  createAttempts = 2
  MaxBoots = 3
  MaxInvoices = 1
INVARIANTS AppliesAlone ServesPrepared
PROPERTIES CommonStaysOn SeedProjects OrderlyExit Settles
CHECK_DEADLOCK FALSE
