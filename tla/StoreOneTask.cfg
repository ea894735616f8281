\* One task, every operation of the store, two workers.
CONSTANTS
  w1 = w1
  w2 = w2
  k1 = k1
  Tasks = {1}
  Workers = {w1, w2}
  Keys = {}
  Deadlines = {2}
  Durations = {1, 2}
  RetryLimits = {0, 1}
  LegacyEvents <- ReplayableLegacy
  Limits = {1}
  MaxMs = 4
  MaxTime = 3
  MaxLag = 1
  MaxEvents = 7
SPECIFICATION Spec

  
PROPERTIES
  LeaseNeverRevived
  ImplementsLifecycle
  BehavesLikeInMemory
CHECK_DEADLOCK FALSE
