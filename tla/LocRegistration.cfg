SPECIFICATION LocFairSpec
CONSTANTS
  UserPlaces = {"door", "desk"}
  MaxPoses = 2
  queue_maxsize_ = 2
  MaxScans = 4
  PoseDuringCopy = FALSE
INVARIANTS RegistrationBuildsOnItsGuess UserPoseIsKept InitializedPoseIsTrusted ScanIsWhole
PROPERTIES EverybodyEnds
CHECK_DEADLOCK FALSE
