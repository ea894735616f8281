\* Two tasks: a shared key, batches of the two scans, two results in the outbox,
\* the loops under fairness.
CONSTANTS
  w1 = w1
  w2 = w2
  k1 = k1
  e1 = e1
  e2 = e2
  Tasks = {1, 2}
  Workers = {w1}
  Keys = {k1}
  Deadlines = {1}
  Durations = {1, 2}
  RetryLimits = {1}
  LegacyEvents = {}
  Limits = {1}
  MaxMs = 3
  MaxTime = 2
  MaxLag = 0
  MaxEvents = 3
  DeliveryWorkers = {e1}
  DeliveryDurations = {1}
  RetryDelays = {1}
  MaxDeliveryAttempts = 2
SPECIFICATION ResultFairSpec
PROPERTIES
  NoOvertaking
  VanishedWorkerReleased
  DeadlineEnforced
CHECK_DEADLOCK FALSE
