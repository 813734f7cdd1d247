CONSTANTS
  General = General
  DefaultBase = DefaultBase
  Judite = Judite
  Category = Category
  Nothing = Nothing
  MaxDepth = 1
  MaxRows = 3
  MaxTorn = 1
  MaxStarts = 2
  Sessions = {s1, s2}
  Files = {f1, f2}
  Linked = {f2}
  Spaces = {p1, p2}
  Home = p1
  Turns = {1, 2}
  Budget = 2
  Estimate = 1
  MaxCost = 2
  RequireTitle = FALSE
  Absent = Absent
  Threads = {t1, t2}
  Requests = {r1, r2}
  MaxBuffers = 1
  Missing = Missing
  None = None
SPECIFICATION MCSpec
SYMMETRY Symmetry
INVARIANT ReferencesHold
INVARIANT SpendIsAccounted
 
 
INVARIANT CommitsAddUp
INVARIANT TraceIsKept
INVARIANT SnapshotsRestore
INVARIANT SceneFollowsPlan
INVARIANT ModelIsAsTold
PROPERTY StartKeepsRows
PROPERTY ServedInOrder
PROPERTY FailedCallKeepsBodies
CHECK_DEADLOCK FALSE
