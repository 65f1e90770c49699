SPECIFICATION SuiteSpec
CONSTANTS
  o1 = o1
  o2 = o2
  o3 = o3
  o4 = o4
  d1 = d1
  d2 = d2
  j1 = j1
  j2 = j2
  p1 = p1
  p2 = p2
  own = own
  authority = authority
  m1 = m1
  m2 = m2
  i1 = i1
  i2 = i2
  f1 = f1
  f2 = f2
  f3 = f3
  never = never
  g1 = g1
  g2 = g2
  second = second
  None = None
  Ops = {o1, o2, o3, o4}
  Devices = {d1, d2}
  MaxLegacy = 2
  MaxChain = 2
  MaxPending = 2
  MaxUpkeep = 2
  JournalOps = {j1, j2}
  Recipients = {own}
  Authority = authority
  Writers = {p1, p2}
  OpKinds <- DeviceKinds
  Variants = {1, 2}
  MaxRestores = 1
  MaxRevision = 3
  Machines = {m1, m2}
  MaxMigrated = 2
  DeviceIds = {i1, i2}
  Paths = {f1, f2, f3}
  Expiries = {1}
  Never = never
  MaxDevices = 2
  MaxGeneration = 4
  MaxNow = 1
  ChangeOps = {"op"}
  ChangeKinds = {"transfer-owner", "destroy-vault", "recover-owner"}
  AuthStates = {"s", "t"}
  FirstState = "s"
  MaxEpoch = 2
  MaxDecisions = 2
  MaxFollowed = 3
  MaxCheckpoints = 1
  Owners = {d1, d2}
  Contents = {"x", "y"}
  MaxEdition = 2
  MaxPublished = 3
  MaxMixed = 2
  Signers = {g1, g2, second}
  Askers = {g1}
  PrincipalOf <- OwnedBy
  Heads = {"h"}
  Actions = {"a", "b"}
  Lifetime = 1
  MaxSigned = 3
  MaxToday = 2
INVARIANTS
  
  JournalsKeepTheBytes
  FilesAgree
  OnlyWhatWasSigned
PROPERTIES
  
  AnchorsNeverGoBack
CHECK_DEADLOCK FALSE
