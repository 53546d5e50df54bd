SPECIFICATION FairSpec
CONSTANTS
  own = own
  n1 = n1
  n2 = n2
  Own = own
  NS <- Namespaces
  Missing <- OneMissing
  Specs <- FewSpecs
  LagGrants = FALSE
  Foreground = TRUE
  Outlook = {"handled", "ready"}
  MaxEdits = 3
  MaxFaults = 1
PROPERTIES DeletionCompletes GrantsConverge
CHECK_DEADLOCK FALSE
