\* One slot used by two sessions in turn, two workers, a disconnecting thread.
CONSTANTS
  Slots = {s1}
  Workers = {w1, w2}
  Callers = {c1}
  Acceptor = acc
  MaxStamp = 2
SPECIFICATION FairSpec
INVARIANTS
  CountIsReferences
  NoUseAfterRelease
  OneOwner
  ReceivesAreSafe
PROPERTIES
  ImplementsLease
  CanceledIsRecycled
