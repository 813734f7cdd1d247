\* Three ids, two workers, two of the priorities the index worker uses and at
\* most MaxSeq entries between two restarts: enough for every order of put, pop,
\* retry and release of two ids, with a third to overtake them.
CONSTANTS
  Items = {i1, i2, i3}
  Workers = {w1, w2}
  NoItem = NoItem
  Priorities = {0, 10}
  MaxSeq = 6
SPECIFICATION Spec
INVARIANT InFlightOnce
PROPERTY ImplementsDedupQueue
