CONSTANTS
  Configs <- RouteConfigs
  CAs = {ca1, ca2}
  MaxConcurrent = 1
  Interval = 1
  MaxAge = 2
  Modes <- AllModes
SPECIFICATION FairSpec
INVARIANTS MetricsFollowProbes 
PROPERTIES CycleEnds 
