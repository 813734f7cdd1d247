\* Two replicas, each with a worker and a thread calling put, two ids and MaxSeq
\* INCRs: an id can be put, popped, retried, orphaned and put again while the
\* other replica is anywhere in its loop.
CONSTANTS
  Items = {i1, i2}
  Workers = {w1, w2}
  Callers = {c1, c2}
  NoItem = NoItem
  Priorities = {0, 1}
  Scale = 6
  MaxSeq = 5
  SlowJobs = FALSE
  LostReplies = FALSE
SPECIFICATION Spec
INVARIANT InFlightOnce
PROPERTY ImplementsDedupQueue
