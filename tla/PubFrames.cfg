SPECIFICATION FairSpec
CONSTANTS
  Lidars = {1, 2}
  Synced = {1}
  Unsynced = {2}
  MsTicks = 2
  Interval = 4
  Deviation = 2
  StartTime = 1
  MaxTime = 9
  MixedTime = 3
  MixedPackets = 4
  MixedTicks = 2
  StopTime = 4
  MaxQueue = 2
INVARIANTS PubInv FramesAreTimely
PROPERTIES ThreadIsNotLost
CHECK_DEADLOCK FALSE
