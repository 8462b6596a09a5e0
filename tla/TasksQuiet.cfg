SPECIFICATION FairSpec
CONSTANTS
  n1 = n1
  n2 = n2
  NoNode = NoNode
  Nodes = {n1, n2}
  FirstNodes = {n1}
  Sources = {"LiveEvaluation", "TrackTableColumns"}
  MaxAsked = 2
  MaxQuiet = 2
  MaxMoves = 0
  SpawnMayFail = TRUE
INVARIANTS
  QueueOrder
  GivesWay
  QuietToldOnce
PROPERTIES
  QuietStartsUnlocked
  EverySourceIsTold
CHECK_DEADLOCK FALSE
