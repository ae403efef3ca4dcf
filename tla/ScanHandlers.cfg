SPECIFICATION ProcessFairSpec
CONSTANTS
  group_size = 2
  N_SCANS = 2
  Turn = 4
  MinLine = 2
  Filters = {1, 3}
  MaxPoints = 4
  MaxLine = 8
  Scans <- MCScans
INVARIANTS OutputIsOfScan TimesFromYawAreExact StrayAccessesAreKnown
PROPERTIES ScansAreProcessed
