\* Two clients race to submit two tasks past a limit of one, while a worker polls.
CONSTANTS
  w1 = w1
  k1 = k1
  c1 = c1
  c2 = c2
  p1 = p1
  Tasks = {1, 2}
  Workers = {w1}
  Keys = {}
  Deadlines = {0}
  Durations = {1}
  RetryLimits = {0}
  LegacyEvents = {}
  Limits = {}
  MaxMs = 3
  MaxTime = 0
  MaxLag = 0
  MaxEvents = 2
  DeliveryWorkers = {}
  DeliveryDurations = {}
  RetryDelays = {}
  MaxDeliveryAttempts = 1
  Clients = {c1, c2}
  Pollers = {p1}
  Ops = {"remote", "sendLocal", "claim"}
  MaxPending = 1
  MaxEnvelopes = 2
  MaxRestarts = 0
  Stoppable = FALSE
SPECIFICATION DaemonFairSpec
INVARIANTS
  PendingBounded
  NoLostWakeup

  
CHECK_DEADLOCK FALSE
