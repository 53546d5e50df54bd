SPECIFICATION Spec
CONSTANTS
  own = own
  n1 = n1
  n2 = n2
  Own = own
  NS <- Namespaces
  Missing = {}
  Specs <- ManySpecs
  LagGrants = FALSE
  Foreground = TRUE
  Outlook = {"handled", "updateFailed", "ready"}
  MaxEdits = 3
  MaxFaults = 1
INVARIANTS QuiescentMatchesSpec IInv
PROPERTY KeepsLedger
CHECK_DEADLOCK FALSE
