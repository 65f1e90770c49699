\* Every component with its own instance; see MCClient.
CONSTANTS
  i1 = i1
  p1 = p1
  p2 = p2
  f1 = f1
  f2 = f2
  t1 = t1
  t2 = t2
  shared = shared
  k0 = k0
  k1 = k1
  r1 = r1
  r2 = r2
  v1 = v1
  Procs = {p1, p2}
  Ids = {i1}
  Paths = {f1, f2}
  MaxDatabases = 2
  MaxFaults = 1
  MaxCrashes = 1
  KitKeys = {k0, k1}
  FirstKey = k0
  Kits = {r1, r2}
  MaxRevision = 3
  Clients = {p1, p2}
  Vaults = {v1}
  MaxCalls = 4
  Cores = {1, 2}
  Betas = {1, 2, 99}
  Stable = 99
  Layouts = {"npm-global", "npx"}
  MaxStarts = 2
  RecordCount = 2
  Rotations = {1, 2}
  MaxSwaps = 1
  Streams = {"s", "t"}
  Payloads = {"x", "y"}
  MaxChunks = 2
  MaxReads = 4
  Targets = {t1, t2}
  FileOf <- SharedFile
  Ttls = {0, 1}
  MaxSessions = 2
  MaxNow = 1
  Profiles = {p1, p2}
  Mongo = {p2}
  Known = {p1}
  MaxActions = 5
  MaxElsewhere = 1
  MigrationFaults = 2
  MaxWrites = 2
  Groups <- BrowserGroups
  ItemsOf <- BrowserItems
  ElementLayouts <- BrowserLayouts
  FirstLayout <- FirstElements
  ConfirmedFields = {"repeatable"}
  MaxRequests = 4
  MaxEdits = 2
  ScreenTargets = {"a", "b"}
  NoName = "none"
  MaxScreenCalls = 4
  SetupPaths = {"p", "q"}
  SetupDatabases = {"d", "e"}
  SetupUrls = {"u"}
  SetupPassphrases = {"x", "y"}
  NoProfile = NoProfile
  NoOne = NoOne
SPECIFICATION SuiteSpec
INVARIANTS
  AllOrNothing
  
  UpdatesGoForward
  MigrationCodesAreTrue
  DataIsWhole
  OperatorDecides
  SecretsAreTimed
PROPERTIES
  EveryCallIsAtomic
\* Commands, clients and streams may all have ended.
CHECK_DEADLOCK FALSE
