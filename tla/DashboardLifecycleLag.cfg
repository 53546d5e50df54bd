SPECIFICATION Spec
CONSTANTS
  own = own
  n1 = n1
  n2 = n2
  Own = own
  NS <- Namespaces
  Missing = {}
  Specs <- OnOff
  LagGrants = TRUE
  Foreground = FALSE
  Outlook = {"failing", "ready"}
  MaxEdits = 3
  MaxFaults = 1
INVARIANTS BindingsTracked NoOrphanedGrants
CHECK_DEADLOCK FALSE
