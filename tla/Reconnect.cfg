\* Delays 2, 4, 8, 10, 10 in slices of 4; a terminal of every layout's width, and
\* more ticks than the tracker has samples.
SPECIFICATION RFairSpec
CONSTANTS
  Floor = 2
  Ceiling = 10
  Slice = 4
  MinUptime = 3
  Elapses = {1, 2}
  MaxDials = 6
  LineCap = 512
  DefaultCols = 80
  Consoles <- MCConsoles
  Reported = {0, 12, 56}
  Fields <- MCFields
  Window = 2
  Advances <- MCAdvances
  MaxTicks = 3
CHECK_DEADLOCK FALSE
INVARIANTS TypeOK RetriesPaced QuitWithinASlice StaleRowWiped RowFits RateOverWindow
PROPERTY DialsAgain
