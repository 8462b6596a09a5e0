SPECIFICATION Spec
CONSTANTS
  FirstPoints = 2
  MaxSerial = 4
  BaseBytes = 3
  Budget = 7
INVARIANTS
  TypeOK
  RowsAreAChain
  BudgetKept
  CleanIsOnDisk
  FollowAgrees
PROPERTIES
  SelectionKeepsItsPoint
CHECK_DEADLOCK FALSE
