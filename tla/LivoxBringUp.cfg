SPECIFICATION ConfigFairSpec
CONSTANTS
  Lidars = {"front", "back"}
  Configured <- MCConfigured
  Refusing = {"back"}
  MaxReports = 2
  MaxTimeouts = 1
  MaxOthers = 2
INVARIANTS SamplingIsConfigured
PROPERTIES ReportedLidarsSample
CHECK_DEADLOCK FALSE
