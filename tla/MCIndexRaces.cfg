CONSTANTS
  Files = {f1}
  Workers = {w1}
  Threads = {t1, t2}
  Vectorless = {}
  NoFile = NoFile
  MaxDocs = 2
  MaxVersion = 2
  MaxRequests = 2
  MaxCrashes = 0
  MaxOutages = 0
  Failing = FALSE
  Upsert = TRUE
SPECIFICATION Spec
SYMMETRY Symmetry
VIEW UncountedState
INVARIANT CompletedIsCurrent
INVARIANT DeleteLeavesNothing
CHECK_DEADLOCK FALSE
