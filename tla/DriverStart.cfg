SPECIFICATION Spec
CONSTANTS
  front = front
  back = back
  stranger = stranger
  Handles <- MCHandles
  Config <- MCConfig
  Network <- MCHandles
  MaxSource = 2
  MaxQueue = 2
INVARIANTS DevicesAreRight RefusedOnlyForStrangers
CHECK_DEADLOCK FALSE
