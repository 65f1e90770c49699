SPECIFICATION SuiteSpec
CONSTANTS
  s1 = s1
  s2 = s2
  d1 = d1
  d2 = d2
  v1 = v1
  v2 = v2
  None = None
  Sessions = {s1, s2}
  NoSession = NoSession
  Devices = {d1, d2}
  DeviceOf <- OwnDevice
  Vaults = {v1, v2}
  FirstVaults = {v1}
  Operations = {"create", "update"}
  Modes = {"plain", "accept"}
  MaxOps = 2
  MaxFaults = 1
  MaxCrashes = 0
  MaxRestores = 0
INVARIANTS
  AckedSurvives
  AnchorBehindStore
  CatalogNamesVaults
  FailureProvesNoWrite
  LateVerificationPasses
  AnchorsAreTrue
  VaultsStayUsable
PROPERTIES
  RollbackRefused
  EditsAreKept
