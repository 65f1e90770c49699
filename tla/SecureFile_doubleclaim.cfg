\* Three processes, one of which dies, and two that recover its lock at once.
SPECIFICATION Spec
CONSTANTS
  Procs = {p1, p2, p3}
  MaxUses = 1
  MaxAttempts = 4
  MaxFaults = 1
  SoloRecovery = FALSE
  NoLock = NoLock
  Original = Original
INVARIANT NoDoubleClaim
CHECK_DEADLOCK FALSE
