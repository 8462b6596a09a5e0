SPECIFICATION FairSpec
CONSTANTS
  r1 = r1
  r2 = r2
  r3 = r3
  Reporters = {r1, r2, r3}
INVARIANTS
  NothingIsLeftUnread
PROPERTIES
  DrainEnds
  DoneLands
CHECK_DEADLOCK FALSE
