SPECIFICATION FairSpec
CONSTANTS
  Threads = {"t1", "t2"}
  Paths = {"a", "b"}
  Shown = {"b"}
  SizeOf <- SizeOfPixels
  Budget = 2
  Fixtures = {"a"}
  First <- FirstFiles
  MaxVersion = 2
  StampOf <- Stamped
  Unreadable = {0}
  MaxGets = 2
  MaxUpsets = 1
INVARIANTS
  BytesAreTheSum
  BudgetKept
  AnswersAreFresh
PROPERTIES
  EveryCallReturns
  PhotographsAreDrawn
