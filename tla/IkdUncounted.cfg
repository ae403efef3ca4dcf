SPECIFICATION Spec
CONSTANTS
  LeftPoints = {1, 2}
  RightPoints = {3}
  Cells = {{1, 2}, {3}}
  Boxes = {{1, 2, 3}, {2, 3}}
  InitPoints = {2, 3}
  Searchers = {s1}
  Operations = {"add"}
  MaxOps = 4
INVARIANTS DiscardedNodesUnsearched
