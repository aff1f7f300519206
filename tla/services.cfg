SPECIFICATION ServicesSpec
CONSTANTS
  r1 = r1  r2 = r2  r3 = r3  j1 = j1  j2 = j2  j3 = j3  j4 = j4  p1 = p1
  dev = dev  test = test  review = review
  x1 = x1  x2 = x2  x3 = x3
  Processes = {p1}
  NoProcess = NoProcess
  ResIds = {x1, x2, x3}
  Amounts = {1, 2}
  BudgetCeiling = 4
  BudgetAttempts = 1
  ConcurrencyLimit = 2
  Windows <- OneWindow
  ReservationTtl = 1
  MaxDuration = 2
  Runs = {r1, r2, r3}
  Jobs = {j1, j2, j3, j4, dev, test, review}
  Workers = {w1}
  RunOf <- RunsOfJobs
  StageOf <- StagesOfJobs
  Priority <- Ones
  DependsOn <- OneFirst
  ConflictKeys <- SameFile
  Estimate <- Ones
  MaxAttempts <- Retried
  ProjectOf <- OneProject
  Ceiling <- Ceilings
  StageLimits <- OneWriter
  InitialState = "implementing_economy"
  RunTargets = {"cancelled"}
  IdemKeys = {}
  Costs = {0}
  LeaseTime = 1
  RetryDelay = 1
  CycleRuns = {r3}
  MaxCorrections = 3
  RestartBound = 1

  t1 = t1  t2 = t2  t3 = t3  h1 = h1  h2 = h2
  TicketOrder <- TwoTickets
  HostOrder <- TwoHosts
  Versions = {"v1"}
  Classes = {"nothing"}
  RecoveryThreshold = 1
  ReservationTtlSec = 1
  RecoveryTtl = 1
  CooldownTime = 1
  DeployWindow = 1
  AlwaysUp = FALSE
  LaunchBound = 2
  StopBound = 1
  Shas = {0, 1, 2}
  Broken = {2}
  Installed = 0
  DeployBound = 2
  QueueBound = 3

  a1 = a1  a2 = a2  b1 = b1  m1 = m1  m2 = m2  m3 = m3  A = A  B = B
  branch = branch  vps = vps  NoOne = NoOne
  l1 = l1  l2 = l2  l3 = l3  Ghost = Ghost  Nobody = Nobody
  Users = {a1, a2, b1, m1, m2, m3}
  Resources = {branch, vps}
  Branch = branch
  Target = vps
  HolderOf <- HolderOfUsers
  StageOfUser <- StagesOfUsers
  Working = {B}
  First = First
  MaxSmokeFailures = 2
  StageBound = 1
  LeaseTtl = 2
  LastTime = 3
  Launches = {l1, l2, l3}
  Reserving = TRUE
INVARIANTS OneLeasePerJob DependenciesFirst ReservedBacked CeilingHolds ReworkBounded BalanceBacked CeilingsHold OneRunEach FailsOnce StaysLit OneDeployer GoodIsGood LineExclusive
PROPERTIES SettledStays RecoveryProven LostStaysLost MergeOnTested
CHECK_DEADLOCK FALSE
