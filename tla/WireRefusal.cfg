SPECIFICATION Spec
CONSTANTS
  Kinds = {"click", "twice", "hover", "leave", "drag", "scroll", "key", "keyOver", "type", "typeHere"}
  Images = {"i1"}
  FirstImage = "i1"
  Kept = 1
  MaxCoast = 1
  MaxCalls = 2
  MaxForeign = 0
  MaxPerson = 0
PROPERTIES
  RefusedBeforeDelivery
CHECK_DEADLOCK FALSE
