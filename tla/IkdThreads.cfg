SPECIFICATION FairSpec
CONSTANTS
  LeftPoints = {1, 2}
  RightPoints = {3}
  Cells = {{1, 2}, {3}}
  Boxes = {{1, 2, 3}, {2, 3}}
  InitPoints = {2, 3}
  Searchers = {s1, s2}
  Operations = {"add", "delete", "downsample"}
  MaxOps = 3
INVARIANTS SearchesAreSafe RebuildsAreExact
PROPERTIES EverybodyGetsOn
