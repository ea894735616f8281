\* One task on a daemon that is shut down, killed and started again.
CONSTANTS
  w1 = w1
  k1 = k1
  c1 = c1
  c2 = c2
  p1 = p1
  Tasks = {1}
  Workers = {w1}
  Keys = {}
  Deadlines = {}
  Durations = {1}
  RetryLimits = {1}
  LegacyEvents = {}
  Limits = {}
  MaxMs = 3
  MaxTime = 1
  MaxLag = 0
  MaxEvents = 3
  DeliveryWorkers = {}
  DeliveryDurations = {}
  RetryDelays = {}
  MaxDeliveryAttempts = 1
  Clients = {c1}
  Pollers = {p1}
  Ops = {"submit", "incoming", "sendRemote", "cancel", "ingest", "complete", "fail"}
  MaxPending = 1
  MaxEnvelopes = 2
  MaxRestarts = 1
  Stoppable = TRUE
SPECIFICATION DaemonFairSpec
INVARIANTS
  StoreOpenWhileServing
  SentIsRecorded
  
PROPERTIES
  NothingHangs
CHECK_DEADLOCK FALSE
