SPECIFICATION StackSpec
CONSTANTS
  Known = {0, 1, 2, 3}
  Unknown = {10}
  Depth = 2
  MaxCommands = 3
  SizeX = 4
  SizeY = 3
  Place <- MCPlace
  Costmaps <- MCCostmaps
  Asked <- MCAsked
INVARIANTS CornersAreNotCut
CHECK_DEADLOCK FALSE
