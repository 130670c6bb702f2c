CONSTANTS
  Length = 3
  Messages = {r1, r2}
  Entries <- MCEntries
  Empty = none
  MaxSent = 5
SPECIFICATION Spec
INVARIANT TypeOK
PROPERTY PoolSpec
\* The queue is idle when everything was sent and nothing waits.
CHECK_DEADLOCK FALSE
