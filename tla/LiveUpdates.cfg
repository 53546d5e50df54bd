CONSTANTS
  Clients = {c1, c2}
  MaxSubs = 1
  MaxChanges = 1
  MaxFailures = 1
  PromptConnect = TRUE
SPECIFICATION Spec
INVARIANTS NewestPending  SlotsOwned
PROPERTY ReplacesUnread
SYMMETRY Interchangeable
