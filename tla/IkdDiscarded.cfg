SPECIFICATION Spec
CONSTANTS
  LeftPoints = {1, 2}
  RightPoints = {3}
  Cells = {{1, 2}, {3}}
  Boxes = {{1, 2, 3}, {2, 3}}
  InitPoints = {2, 3}
  Searchers = {}
  Operations = {"downsample"}
  MaxOps = 4
INVARIANTS DiscardedNodesUnused
