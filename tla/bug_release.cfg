SPECIFICATION ReleaseOnly
CONSTANTS
  a1 = a1  a2 = a2  b1 = b1  m1 = m1  m2 = m2  m3 = m3  A = A  B = B
  branch = branch  vps = vps  NoOne = NoOne
  l1 = l1  l2 = l2  l3 = l3  Ghost = Ghost  Nobody = Nobody
  Users = {a1, a2, b1, m1, m2, m3}
  Resources = {branch, vps}
  Branch = branch
  Target = vps
  HolderOf <- HolderOfUsers
  StageOfUser <- StagesOfUsers
  Working = {B}
  First = First
  MaxSmokeFailures = 2
  StageBound = 1
  LeaseTtl = 2
  LastTime = 3
  Launches = {l1, l2}
  Reserving = TRUE
INVARIANTS LastGoodIsLatest
CHECK_DEADLOCK FALSE
