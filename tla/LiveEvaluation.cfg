SPECIFICATION FairLiveSpec
CONSTANTS
  n1 = n1
  n2 = n2
  NoNode = NoNode
  Nodes = {n1, n2}
  FirstNodes = {n1, n2}
  Sources = {"LiveEvaluation"}
  MaxAsked = 1
  MaxQuiet = 8
  MaxMoves = 2
  SpawnMayFail = FALSE
  Items <- OneItem
  HomeOf <- OnTheOther
  Viewed = "viewed"
  ViewedNode = n1
  CacheSize = 1
  MayRepaint = TRUE
  MaxActs = 2
INVARIANTS
  CurrentIsFresh
  OneEvaluation
  StaleIsStopped
  NothingIsForgotten
PROPERTIES
  LockedBenchStays
  EvaluationKeepsSteps
  Settles
