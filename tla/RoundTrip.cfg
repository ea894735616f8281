\* One task, two worker loops, one fault of any kind.
CONSTANTS
  w1 = w1
  e1 = e1
  s1 = s1
  s2 = s2
  Tasks = {1}
  Workers = {w1}
  WorkerId = w1
  Keys = {}
  Deadlines = {2}
  Durations = {2}
  RetryLimits = {1}
  LegacyEvents = {}
  Limits = {}
  MaxMs = 5
  MaxTime = 3
  MaxLag = 0
  MaxEvents = 4
  DeliveryWorkers = {e1}
  DeliveryDurations = {1}
  RetryDelays = {1}
  MaxDeliveryAttempts = 2
  Slots = {s1, s2}
  MaxSends = 2
  MaxFaults = 1
SPECIFICATION TripFairSpec
INVARIANTS
  OutcomesAgree
  HandleNeverLies
  StaleWorkerFenced
PROPERTIES
  RoundTripEnds
CHECK_DEADLOCK FALSE
