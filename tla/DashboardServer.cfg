SPECIFICATION Spec
CONSTANTS
  c1 = c1
  c2 = c2
  Nil = Nil
  NoPage = NoPage
  NoFile = NoFile
  SiteOf <- Site
  FragmentOf <- Fragment
  HeaderOf <- Header
  Dashboard = "d"
  Clients = {c1, c2}
  Worlds <- AllWorlds
  Secrets = {"s1", "s2"}
  Files <- HtpasswdFiles
  Creds <- Logins
  MaxAuthChecks = 1
  CacheTTL = 2
  MaxDelay = 1
INVARIANTS EveryFieldOnce  ListingOrderHidden ChecksOwned QuietAnswerCurrent
PROPERTY VerdictRecent
