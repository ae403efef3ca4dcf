SPECIFICATION FilterSpec
CONSTANTS
  MaxStep = 1
  limit = 0
  maximum_iter = 3
  MaxX = 2
  MaxDrift = 2
PROPERTIES CovarianceFollowsState FoldsWhatItSees MatchesAreFresh
