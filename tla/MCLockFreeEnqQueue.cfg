\* Two producers with three items in all, four nodes of which another queue may take one.
CONSTANTS
  NodeCount = 4
  Producers = {p1, p2}
  QUEUE_MAX_SIZE = 2
  MaxItems = 3
  MaxForeign = 1
  Running = {p1}
SPECIFICATION SendQFairSpec
CHECK_DEADLOCK FALSE
INVARIANTS
  NothingLost
  OrderKept
PROPERTY
  EnqueueEnds
