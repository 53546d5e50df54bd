CONSTANTS
  Specs <- PartialProbe
  Foreign = {"f"}
  Gateways = {TRUE}
  Lagging = {}
  MaxEdits = 1
  MaxDrift = 0
  MaxFaults = 0
  MaxTrouble = 1
SPECIFICATION FairSpec
PROPERTY UpdatesOnlyDrift
CHECK_DEADLOCK FALSE
