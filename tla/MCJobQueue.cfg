\* A ring of four places, users that move or do not, and a slot used by two sessions.
CONSTANTS
  Size = 4
  Moves = 1
  MaxSets = 5
  MaxSessions = 2
SPECIFICATION FairSpec
CHECK_DEADLOCK FALSE
INVARIANTS
  HandledInOrder
  OwnSessionOnly
PROPERTIES
  ImplementsFifo
  EverySetEnds
