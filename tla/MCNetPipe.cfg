\* One slot, used twice, a pipe of each code, under the fairness of the threads.
CONSTANTS
  Slots = {s1}
  AuthPipes = {auth}
  GamePipes = {g1}
  Workers = {w1}
  Acceptor = acceptor
  MaxStamp = 2
  MaxJobs = 1
  None = None
SPECIFICATION FairSpec
INVARIANTS
  NeverErrorQuit
  OnePlace
  LeavesFromItsPipe
  RecycledIsForgotten
PROPERTIES
  ImplementsJourney
  MovesArrive
  CanceledLeaves
