\* Three processes on a file store, two of which may be killed, one recovery at a
\* time.
SPECIFICATION LiveSpec
CONSTANTS
  Procs = {p1, p2, p3}
  NoLock = NoLock
  MaxAttempts = 3
  MaxWrites = 1
  MaxFaults = 2
  MaxKills = 2
  SoloRecovery = TRUE
INVARIANTS
  ExclusiveForLifetime
PROPERTIES
  StoreCallsEnd
  Implements
\* Every process may have ended.
CHECK_DEADLOCK FALSE
