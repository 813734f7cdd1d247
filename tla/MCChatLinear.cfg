CONSTANTS
  Clients = {c1}
  MaxPlans = 2
  NumSteps = 3
  MaxVersion = 2
  MaxCorrections = 1
  MaxRequests = 6
  MaxCrashes = 0
  MaxRaises = 0
  Loop = FALSE
  Outcomes = {"ok", "error"}
  PlanOnly = {TRUE, FALSE}
SPECIFICATION Spec
INVARIANT RejectedNeverRuns
INVARIANT BuiltOnce
INVARIANT NeverLeftExecuting
CHECK_DEADLOCK FALSE
