SPECIFICATION Spec
CONSTANTS
  Procs = {p1, p2, p3}
  NoLock = NoLock
  MaxAttempts = 3
  MaxWrites = 1
  MaxFaults = 0
  MaxKills = 1
  SoloRecovery = FALSE
INVARIANTS
  ExclusiveForLifetime
CHECK_DEADLOCK FALSE
