\* One task, one worker loop, one broken stream.
CONSTANTS
  w1 = w1
  e1 = e1
  s1 = s1
  s2 = s2
  Tasks = {1}
  Workers = {w1}
  WorkerId = w1
  Keys = {}
  Deadlines = {}
  Durations = {2}
  RetryLimits = {1}
  LegacyEvents = {}
  Limits = {}
  MaxMs = 5
  MaxTime = 3
  MaxLag = 0
  MaxEvents = 4
  DeliveryWorkers = {e1}
  DeliveryDurations = {1}
  RetryDelays = {1}
  MaxDeliveryAttempts = 2
  Slots = {s1}
  MaxSends = 1
  MaxFaults = 1
SPECIFICATION TripFairSpec
PROPERTIES
  TaskFrameSettles
CHECK_DEADLOCK FALSE
