CONSTANTS
  Threads = {t1, t2}
  MaxCalls = 2
  SkipCap = 2
  PipeSize = 2
  MaxDeaths = 1
  Nobody = Nobody
  Jobs = {j1, j2}
  NoJob = NoJob
  Corrupt = Corrupt
  Odd = Odd
  Steps = {s1, s2}
  MaxAttempts = 2
  None = None
SPECIFICATION MCSpec
INVARIANT CallsMatch
INVARIANT ImportsAccounted
INVARIANT BridgeBuildsOnce
PROPERTY JobsSettle
PROPERTY EveryCallEnds
PROPERTY AddinIsFound
CHECK_DEADLOCK FALSE
