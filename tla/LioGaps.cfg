SPECIFICATION FairSpec
CONSTANTS
  Period = 2
  MaxTime = 7
  Sizes = {0, 6}
  LoopBack = FALSE
  MaxGap = 2
  Offsets = {0, 1, 2}
  MAX_INI_COUNT = 2
  Uninitialized = {0, 9}
INVARIANTS TimeIsUsedOnce EveryScanIsUndistorted
PROPERTIES ScansGoThrough
CHECK_DEADLOCK FALSE
