CONSTANTS
  Configs <- CardConfigs
  CAs = {ca1, ca2}
  MaxConcurrent = 2
  Interval = 1
  MaxAge = 2
  Modes <- ClusterMode
SPECIFICATION Spec
INVARIANTS TypeOK ShownExactly SkippedHasCard  DiscoveryDegrades
