\* Tasks to one node whose streams keep breaking for a while, and a relay restart.
CONSTANTS
  n1 = n1
  n2 = n2
  f1 = f1
  f2 = f2
  f3 = f3
  k1 = k1
  k2 = k2
  k3 = k3
  Nodes = {n1}
  NoNode = NoNode
  Frames = {f1, f2, f3}
  NoFrame = NoFrame
  TaskKeys = {k1, k2, k3}
  TaskDest <- ToOneNode
  NoTask = NoTask
  CallKinds = {}
  MaxTracked = 2
  MaxRecentAcks = 1
  MaxRetained = 2
  MaxGeneration = 3
  Features <- AllFeatures
  FailingStreams = 2
  MaxRestarts = 1
SPECIFICATION EdgeFairSpec
INVARIANTS
  PublicationsInStep
  SettledMeansIngested
  IngestedInOrder

  
CHECK_DEADLOCK FALSE
