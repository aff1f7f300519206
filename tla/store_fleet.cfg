SPECIFICATION FleetSpec
CONSTANTS
  r1 = r1  r2 = r2  r3 = r3  w1 = w1  w2 = w2
  h1 = h1  h2 = h2  t1 = t1  t2 = t2
  Runs = {r1, r2, r3}
  Stages <- ShortStages
  PRODUCTIVE_DAG <- ShortLine
  MAX_STAGE_ITERATIONS = 0
  MAX_SAME_STAGE_RETRIES = 0
  MaxIteration = 0
  NoStage = NoStage
  Workers = {w1, w2}
  Hosts = {h1, h2}
  Tickets = {t1, t2}
  HostOf <- TwoHosts
  Skills <- Generalists
  TicketOf <- TwoTickets
  Leases = {l1, l2}
  Reservations = {x1, x2}
  NoLease = NoLease
  NoReservation = NoReservation
  LeaseDuration = 1
  PendingGrace = 0
  RetryDelay = 0
  MaxRetries = 0
  MaxFleetSlots = 2
  Managed = TRUE
  FinishClosesRun = TRUE
  MaxLag = 0
  MaxAge = 1
SYMMETRY Symmetric
INVARIANTS FleetExclusive
PROPERTIES FencingMonotone
CHECK_DEADLOCK FALSE
