CONSTANTS
  Steps = {s1}
  MaxAttempts = 1
  Threshold = 2
  MaxEvents = 1
  MaxTimeouts = 0
  SamePath = FALSE
  None = None
SPECIFICATION Spec
PROPERTY AddinIsFound
CHECK_DEADLOCK FALSE
