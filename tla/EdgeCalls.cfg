\* Tasks and waiting RPCs share the streams of one node.
CONSTANTS
  n1 = n1
  n2 = n2
  f1 = f1
  f2 = f2
  f3 = f3
  k1 = k1
  k2 = k2
  k3 = k3
  Nodes = {n1}
  NoNode = NoNode
  Frames = {f1, f2}
  NoFrame = NoFrame
  TaskKeys = {k1}
  TaskDest <- ToOneNode
  NoTask = NoTask
  CallKinds = {"result", "bind", "challenge", "fleet"}
  MaxTracked = 1
  MaxRecentAcks = 1
  MaxRetained = 1
  MaxGeneration = 4
  Features <- AllFeatures
  FailingStreams = 1
  MaxRestarts = 0
SPECIFICATION EdgeFairSpec
INVARIANTS
  
  AnswersAreTrue
PROPERTIES
  
  CallsAnswered
  ReconnectIsSafe
  AnsweredNeverRerun
CHECK_DEADLOCK FALSE
