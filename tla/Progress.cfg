SPECIFICATION SuiteSpec
CONSTANTS
  p1 = p1
  p2 = p2
  NoLock = NoLock
  Original = Original
  c1 = c1
  c2 = c2
  s1 = s1
  s2 = s2
  v1 = v1
  v2 = v2
  Sessions = {s1, s2}
  NoSession = NoSession
  Devices = {d1}
  DeviceOf <- OneDevice
  Vaults = {v1, v2}
  FirstVaults = {v1}
  Operations = {"update", "delete"}
  Modes = {"plain", "accept"}
  MaxOps = 1
  MaxFaults = 1
  MaxCrashes = 1
  MaxRestores = 0
PROPERTIES
  EveryTransitionSettles
  Quiesces
  RequestSettles
  SessionsSettle
CHECK_DEADLOCK FALSE
