CONSTANTS
  Names = {"d1", "d2"}
  DashSpec <- TwoDashboards
  Objects = {"card", "mark"}
  HasWidgets = {"card"}
  CardSpecs <- Specs
  Secrets = {"s1", "s2"}
  ConfigSchemas <- Schemas
  LagDashboards = TRUE
  MaxChanges = 2
SPECIFICATION FairSpec
INVARIANTS ConditionsAgree GrantsFollowBindings
PROPERTY Settles
CHECK_DEADLOCK FALSE
