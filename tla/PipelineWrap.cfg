SPECIFICATION FairSpec
CONSTANTS
  LidarCount = 1
  Size = 2
  IndexRange = 4
  StoreBuffer = TRUE
  MaxFrames = 6
INVARIANTS IInv NoLostWakeup
PROPERTIES ImplementsFifo BacklogDrains ShutdownStopsOnlyInWait
CHECK_DEADLOCK FALSE
