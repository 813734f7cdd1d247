CONSTANTS
  Clients = {c1}
  MaxPlans = 2
  NumSteps = 2
  MaxVersion = 1
  MaxCorrections = 2
  MaxRequests = 4
  MaxCrashes = 1
  MaxRaises = 1
  Loop = TRUE
  Outcomes = {"ok", "error", "diverged", "lost"}
  PlanOnly = {FALSE}
SPECIFICATION FairSpec
INVARIANT RunsAreAccounted
PROPERTY RequestsEnd
CHECK_DEADLOCK FALSE
