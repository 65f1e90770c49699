SPECIFICATION SuiteSpec
CONSTANTS
  c1 = c1
  c2 = c2
  c3 = c3
  r1 = r1
  r2 = r2
  g1 = g1
  g2 = g2
  gate = gate
  ban = ban
  Conns = {c1, c2, c3}
  MaxConcurrent = 1
  MaxQueued = 1
  MaxAudits = 1
  MaxUses = 1
  MaxFaults = 1
  Asks <- Asked
  Unruly = {c1}
  Escapes = FALSE
  Foreign = TRUE
  Runs = {r1, r2}
  Grants = {g1, g2}
  Policies = {gate, ban}
  Project = {}
  Denying = {ban}
  Confirming = {gate}
  Wanted <- Given
  GrantUses <- Once
  ExpiresAt <- Expiry
  RingSize = 2
  MaxChanges = 4
  MaxNow = 1
  MaxRunFaults = 1
  Commands <- Spellings
  Lower <- LowerCase
  Arguments <- Vectors
  Digests = {"d1", "d2"}
  Directories = {"src"}
  References <- Names
  SameField <- Aliases
  Unlimited <- AnyOperation
  Unrepresentable <- TooLong
  Entries <- Offered
  Others <- Beside
INVARIANTS
  LimitsHold
  AnswersAreTrue
  
  
  AuditIsTail
  ToldIsTrue
PROPERTIES
  ChildrenAreCovered
CHECK_DEADLOCK FALSE
