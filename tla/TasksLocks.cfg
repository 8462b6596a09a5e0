SPECIFICATION FairSpec
CONSTANTS
  n1 = n1
  n2 = n2
  NoNode = NoNode
  Nodes = {n1, n2}
  FirstNodes = {n1}
  Sources = {}
  MaxAsked = 3
  MaxQuiet = 0
  MaxMoves = 1
  SpawnMayFail = TRUE
INVARIANTS
  OneLockPerNode
  CapturedIsCurrent
  EndsOnce
PROPERTIES
  ImplementsNodeLock
  EveryAskedTaskEnds
CHECK_DEADLOCK FALSE
