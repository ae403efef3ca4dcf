SPECIFICATION FilterSpec
CONSTANTS
  MaxStep = 1
  limit = 0
  maximum_iter = 2
  MaxX = 2
  MaxDrift = 2
PROPERTIES SphereFollowsState
