\* Every short amount in tokens of several scales, any set of amounts held around
\* it, on the grid and off.
SPECIFICATION Spec
CONSTANTS
  Requests <- Asked
  Catalogues <- Configured
  Lower <- LowerCase
  Around <- Nearby
  MaxDecimals = 36
  NoAsset = NoAsset
INVARIANTS LowestFree AskedExactly RefusedRightly ReadsBack
CHECK_DEADLOCK FALSE
