CONSTANTS
  Specs <- TwoSpecs
  Foreign = {"f"}
  Gateways = {TRUE, FALSE}
  Lagging = {"Deployment"}
  MaxEdits = 1
  MaxDrift = 1
  MaxFaults = 1
  MaxTrouble = 2
SPECIFICATION FairSpec
INVARIANTS LeftAloneOnlyWhenDone KeysAccountedFor
PROPERTIES ForeignKept ComesToRest DegradesGracefully
CHECK_DEADLOCK FALSE
