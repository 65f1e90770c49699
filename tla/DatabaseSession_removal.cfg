SPECIFICATION Spec
CONSTANTS
  Sessions = {s1}
  NoSession = NoSession
  Devices = {d1}
  DeviceOf <- OneDevice
  Vaults = {v1, v2}
  FirstVaults = {v1}
  Operations = {"delete"}
  Modes = {"plain"}
  MaxOps = 1
  MaxFaults = 1
  MaxCrashes = 0
  MaxRestores = 0
INVARIANTS
  FailedRemovalKeepsKeyWorking
