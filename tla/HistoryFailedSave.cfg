SPECIFICATION Spec
CONSTANTS
  FirstPoints = 2
  MaxSerial = 4
  BaseBytes = 3
  Budget = 7
PROPERTIES
  FailedSaveChangesNothing
CHECK_DEADLOCK FALSE
