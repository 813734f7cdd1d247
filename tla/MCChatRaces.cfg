CONSTANTS
  Clients = {c1, c2}
  MaxPlans = 2
  NumSteps = 2
  MaxVersion = 2
  MaxCorrections = 1
  MaxRequests = 5
  MaxCrashes = 0
  MaxRaises = 0
  Loop = FALSE
  Outcomes = {"ok", "error"}
  PlanOnly = {FALSE}
SPECIFICATION Spec
SYMMETRY Symmetry
INVARIANT OnlyApprovedRuns
INVARIANT StateIsSound
CHECK_DEADLOCK FALSE
