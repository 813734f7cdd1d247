CONSTANTS
  Files = {f1}
  Workers = {w1}
  Threads = {t1}
  Vectorless = {}
  NoFile = NoFile
  MaxDocs = 2
  MaxVersion = 2
  MaxRequests = 0
  MaxCrashes = 1
  MaxOutages = 1
  Failing = TRUE
  Upsert = TRUE
SPECIFICATION FairSpec
INVARIANT OutcomeIsTrue
PROPERTY WorkSettles
CHECK_DEADLOCK FALSE
