SPECIFICATION LocSpec
CONSTANTS
  UserPlaces = {"door", "desk"}
  MaxPoses = 2
  queue_maxsize_ = 2
  MaxScans = 4
  PoseDuringCopy = TRUE
INVARIANTS UserPoseIsKept
CHECK_DEADLOCK FALSE
