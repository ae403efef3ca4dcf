SPECIFICATION Spec
CONSTANTS
  Period = 2
  MaxTime = 6
  Sizes = {6}
  LoopBack = FALSE
  MaxGap = 3
  Offsets = {0, 1, 2}
  MAX_INI_COUNT = 2
  Uninitialized = {0, 9}
INVARIANTS PropagationIsComplete
CHECK_DEADLOCK FALSE
