SPECIFICATION LeaseSpec
CONSTANTS
  r1 = r1  r2 = r2  r3 = r3  w1 = w1  w2 = w2
  h1 = h1  h2 = h2  t1 = t1  t2 = t2
  Runs = {r1}
  Stages <- ShortStages
  PRODUCTIVE_DAG <- ShortLine
  MAX_STAGE_ITERATIONS = 0
  MAX_SAME_STAGE_RETRIES = 0
  MaxIteration = 0
  NoStage = NoStage
  Workers = {w1}
  Hosts = {h1}
  Tickets = {t1}
  HostOf <- OneHost
  Skills <- Generalists
  TicketOf <- OneTicket
  Leases = {l1, l2}
  Reservations = {}
  NoLease = NoLease
  NoReservation = NoReservation
  LeaseDuration = 1
  PendingGrace = 0
  RetryDelay = 1
  MaxRetries = 1
  MaxFleetSlots = 1
  Managed = FALSE
  FinishClosesRun = TRUE
  MaxLag = 0
  MaxAge = 0
SYMMETRY Symmetric
INVARIANTS TypeOK LeaseIntegrity RunningIsLeased TokensFence
PROPERTIES SettledJobsFinal OperationsFenced StageLeases
CHECK_DEADLOCK FALSE
