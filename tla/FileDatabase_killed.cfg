SPECIFICATION Spec
CONSTANTS
  Procs = {p1, p2}
  NoLock = NoLock
  MaxAttempts = 3
  MaxWrites = 1
  MaxFaults = 0
  MaxKills = 1
  SoloRecovery = TRUE
INVARIANTS
  TakeoverProceeds
CHECK_DEADLOCK FALSE
