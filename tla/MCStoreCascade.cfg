CONSTANTS
  General = General
  DefaultBase = DefaultBase
  Judite = Judite
  Category = Category
  Nothing = Nothing
  MaxDepth = 1
  MaxRows = 3
  MaxCalls = 2
  MaxStarts = 1
  Threads = {t1}
  LinkColumns = FALSE
SPECIFICATION Spec
INVARIANT DeletionCascades
CHECK_DEADLOCK FALSE
