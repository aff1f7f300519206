SPECIFICATION CycleSpec
CONSTANTS
  r1 = r1  r2 = r2  r3 = r3  j1 = j1  j2 = j2  j3 = j3  j4 = j4  p1 = p1
  dev = dev  test = test  review = review
  x1 = x1  x2 = x2  x3 = x3
  Processes = {p1}
  NoProcess = NoProcess
  ResIds = {x1, x2, x3}
  Amounts = {1, 2}
  BudgetCeiling = 4
  BudgetAttempts = 1
  ConcurrencyLimit = 2
  Windows <- OneWindow
  ReservationTtl = 1
  MaxDuration = 2
  Runs = {r1, r2, r3}
  Jobs = {j1, j2, j3, j4, dev, test, review}
  Workers = {w1}
  RunOf <- RunsOfJobs
  StageOf <- StagesOfJobs
  Priority <- Ones
  DependsOn <- OneFirst
  ConflictKeys <- SameFile
  Estimate <- Ones
  MaxAttempts <- Retried
  ProjectOf <- OneProject
  Ceiling <- Ceilings
  StageLimits <- OneWriter
  InitialState = "implementing_economy"
  RunTargets = {"cancelled"}
  IdemKeys = {}
  Costs = {0}
  LeaseTime = 1
  RetryDelay = 1
  CycleRuns = {r3}
  MaxCorrections = 3
  RestartBound = 1
PROPERTIES SubmittedIsValidating
CHECK_DEADLOCK FALSE
