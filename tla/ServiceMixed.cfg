\* By hand: two boots with different files overlap; refutes TableIsAFile.
SPECIFICATION Spec
CONSTANTS
  r1 = r1
  r2 = r2
  watch = watch
  None = None
  Replicas = {r1, r2}
  Jobs = {watch}
  Files <- AllFiles
  createAttempts = 2
  MaxBoots = 3
  MaxInvoices = 1
INVARIANT TableIsAFile
CHECK_DEADLOCK FALSE
