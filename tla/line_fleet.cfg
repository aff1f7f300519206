SPECIFICATION FairLineSpec
CONSTANTS
  r1 = r1  w1 = w1  w2 = w2  h1 = h1  h2 = h2  t1 = t1
  Runs = {r1}
  Stages <- TwoStages
  PRODUCTIVE_DAG <- TinyDag
  MAX_STAGE_ITERATIONS = 0
  MAX_SAME_STAGE_RETRIES = 0
  MaxIteration = 0
  NoStage = NoStage
  Workers = {w1, w2}
  Hosts = {h1, h2}
  Tickets = {t1}
  HostOf <- TwoHosts
  Skills <- Generalists
  TicketOf <- OneTicket
  Leases = {l1, l2}
  Reservations = {x1, x2}
  NoLease = NoLease
  NoReservation = NoReservation
  LeaseDuration = 2
  PendingGrace = 0
  RetryDelay = 0
  MaxRetries = 0
  MaxFleetSlots = 1
  Managed = TRUE
  FinishClosesRun = FALSE
  MaxLag = 1
  MaxAge = 3
  HandlerResults <- Asks
  IdleLimit = 1
  FreshFinish = FALSE
  MinHandler = 1
  Undisturbed = TRUE
  MaxPollLag = 0
  ResumeBound = 2
  ClaimBound = 2
INVARIANTS ClaimsUnderReservation
PROPERTIES SlotsReturn
CHECK_DEADLOCK FALSE
