CONSTANTS
  n1 = n1
  f1 = f1
  cli = cli
  Nodes = {n1, f1}
  Cli = cli
  FromFile = {f1}
  Drafts <- MCDrafts
  FileTexts <- MCFileTexts
  Seeds <- MCSeeds
  NewProviders <- MCNewProviders
  NewAccounts <- MCNewAccounts
  Routes <- MCRoutes
  ModelNames = {"m"}
  TenantNames = {"s"}
  KeyIds = {"i1"}
  UserIds = {"u1"}
  TeamIds = {"w1"}
  SecretNames = {"seat"}
  Uploads <- MCUploads
  Starts <- MCStarts
  MaxEdits = 2
  MaxCrashes = 1
SPECIFICATION Spec
INVARIANT LiveServes
PROPERTY EditsLinearize
PROPERTY RoutesKept
CHECK_DEADLOCK FALSE
