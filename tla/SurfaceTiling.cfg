SPECIFICATION FairSpec
CONSTANTS
  MaxItems = 2
  MaxActs = 2
  MaxUnpins = 1
INVARIANTS
  StepsFollowSteps
PROPERTIES
  NoSequenceVanishes
  SequencesEnd
CHECK_DEADLOCK FALSE
