SPECIFICATION Spec
CONSTANTS
  Kinds = {"picture", "view"}
  Images = {"i1", "i2"}
  FirstImage = "i1"
  Kept = 1
  MaxCoast = 1
  MaxCalls = 2
  MaxForeign = 0
  MaxPerson = 0
PROPERTIES
  ViewHasItsLook
CHECK_DEADLOCK FALSE
