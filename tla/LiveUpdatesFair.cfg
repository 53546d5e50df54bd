CONSTANTS
  Clients = {c1}
  MaxSubs = 1
  MaxChanges = 1
  MaxFailures = 1
  PromptConnect = TRUE
SPECIFICATION FairSpec
PROPERTIES  StalledReleased PublishEnds
