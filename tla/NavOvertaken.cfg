SPECIFICATION Spec
CONSTANTS
  Known = {0, 1, 2}
  Unknown = {10}
  Depth = 2
  MaxCommands = 3
INVARIANTS ArrivalReportsItsMode
CHECK_DEADLOCK FALSE
