SPECIFICATION Spec
CONSTANTS
  Points <- MCPoints
  Clouds <- MCClouds
  Boxes <- MCBoxes
  Queries <- MCQueries
  downsample_size = 2
  Minimal_Unbalanced_Tree_Size = 3
  k_nearest = 2
  Distances = {1, 2}
  MaxOps = 5
INVARIANTS NodesAreRight SearchesAreExact
PROPERTIES ImplementsMap
CHECK_DEADLOCK FALSE
