SPECIFICATION SuiteSpec
CONSTANTS
  c1 = c1  c2 = c2  t1 = t1  t2 = t2
  Clients = {c1, c2}
  KeyOf <- SameKey
  HoldoutOf <- NoHoldout
  JobCount = 2
  RestartRetries = 1
  OutageBound = 1
  Threads = {t1, t2}
  FailureThreshold = 2
  HalfOpenTrials = 1
  MaxModelRetries = 1
  RecoveryTime = 1
  InterruptBound = 1
INVARIANTS VerdictEarned SharedRun ProbesBounded
PROPERTIES InterruptedKept JobsClose CircuitMoves
CHECK_DEADLOCK FALSE
