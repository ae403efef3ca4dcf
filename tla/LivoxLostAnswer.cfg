SPECIFICATION ConfigFairSpec
CONSTANTS
  Lidars = {"front", "back"}
  Configured <- MCConfigured
  Refusing = {"back"}
  MaxReports = 2
  MaxTimeouts = 1
  MaxOthers = 1
PROPERTIES LidarsAlwaysSample
CHECK_DEADLOCK FALSE
