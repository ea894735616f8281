\* One task from claim to delivery, with a retry, two edge workers, three attempts.
CONSTANTS
  w1 = w1
  w2 = w2
  k1 = k1
  e1 = e1
  e2 = e2
  Tasks = {1}
  Workers = {w1, w2}
  Keys = {}
  Deadlines = {2}
  Durations = {1}
  RetryLimits = {1}
  LegacyEvents = {}
  Limits = {}
  MaxMs = 6
  MaxTime = 4
  MaxLag = 1
  MaxEvents = 5
  DeliveryWorkers = {e1, e2}
  DeliveryDurations = {1, 2}
  RetryDelays = {1}
  MaxDeliveryAttempts = 3
SPECIFICATION ResultFairSpec
INVARIANTS
  ResultSettlesTask
  OutboxInStep
  RetryBudget
PROPERTIES
  ResultsLikeInMemory
  OutboxProgresses
CHECK_DEADLOCK FALSE
