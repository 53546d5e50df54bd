SPECIFICATION FairSpec
CONSTANTS
  Dirs <- Tree
  Root = "root"
  Parent <- TreeParent
  SlowLoads = FALSE
  DeepTrees = FALSE
  Clients = {c1, c2}
  MaxEdits = 4
INVARIANTS ServesLastGood
PROPERTIES Settles AuthSettles
CHECK_DEADLOCK FALSE
