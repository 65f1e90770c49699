\* Three processes, one recovery at a time; see MCLocks.
SPECIFICATION SuiteSpec
CONSTANTS
  p1 = p1
  p2 = p2
  p3 = p3
  q1 = q1
  q2 = q2
  Procs = {p1, p2, p3}
  MaxUses = 1
  MaxAttempts = 2
  MaxFaults = 1
  SoloRecovery = TRUE
  NoLock = NoLock
  Original = Original
SYMMETRY Symmetry
INVARIANTS
  LockOfHolderStays
  NothingIsLost
PROPERTIES
  Linearizable
\* Every process may have ended.
CHECK_DEADLOCK FALSE
