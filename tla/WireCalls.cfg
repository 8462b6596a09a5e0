SPECIFICATION FairSpec
CONSTANTS
  Kinds = {"picture", "listing", "task", "cancel", "view", "drag", "type", "scroll", "key"}
  Images = {"i1", "i2"}
  FirstImage = "i1"
  Kept = 1
  MaxCoast = 1
  MaxCalls = 2
  MaxForeign = 1
  MaxPerson = 1
INVARIANTS
  OneCommandAtATime
  NothingStaysHeld
PROPERTIES
  PictureAndListingAgree
  RepliesAreTrue
  AnswerFitsThePanel
  EveryCallIsAnswered
CHECK_DEADLOCK FALSE
