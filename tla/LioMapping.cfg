SPECIFICATION Spec
CONSTANTS
  MaxStep = 1
  limit = 0
  maximum_iter = 2
  MaxX = 5
  MaxDrift = 1
  DET_RANGE = 2
  margin = 3
  cube_len = 14
  mov_dist = 4
  filter_size_map_min = 4
  NUM_MATCH_POINTS = 2
  MaxMatch = 2
  MinPoints = 2
  Motions = {2}
  MaxScans = 4
  Scans <- MCScans
INVARIANTS MapIsSound
PROPERTIES MappedWherePublished ImplementsLocalMap
CHECK_DEADLOCK FALSE
