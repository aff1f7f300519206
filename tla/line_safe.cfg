SPECIFICATION LineSpec
CONSTANTS
  r1 = r1  w1 = w1  w2 = w2  h1 = h1  h2 = h2  t1 = t1
  Runs = {r1}
  Stages <- ThreeStages
  PRODUCTIVE_DAG <- ShortDag
  MAX_STAGE_ITERATIONS = 1
  MAX_SAME_STAGE_RETRIES = 1
  MaxIteration = 1
  NoStage = NoStage
  Workers = {w1, w2}
  Hosts = {h1, h2}
  Tickets = {t1}
  HostOf <- TwoHosts
  Skills <- Generalists
  TicketOf <- OneTicket
  Leases = {l1, l2}
  Reservations = {}
  NoLease = NoLease
  NoReservation = NoReservation
  LeaseDuration = 1
  PendingGrace = 0
  RetryDelay = 0
  MaxRetries = 1
  MaxFleetSlots = 0
  Managed = FALSE
  FinishClosesRun = FALSE
  MaxLag = 1
  MaxAge = 2
  HandlerResults <- Retries
  IdleLimit = 1
  FreshFinish = FALSE
  MinHandler = 1
  Undisturbed = TRUE
  MaxPollLag = 0
  ResumeBound = 2
  ClaimBound = 9
SYMMETRY Interchangeable
INVARIANTS LinearRun TerminalQuiet CompletedMeansDelivered
PROPERTIES CancelledStaysDead
CHECK_DEADLOCK FALSE
