\* A send may be pending or done at once, whichever the server expects.
CONSTANTS
  Workers = {w1, w2}
  Senders = {t1}
  MaxPackets = 2
  SendQMax = 1
  Modes = {FALSE, TRUE}
  Surprises = {"ok", "pending"}
  Posts = {"send", "last"}
SPECIFICATION Spec
SYMMETRY Symmetry
INVARIANTS
  CountIsReferences
  OneDrain
  FlagNotLost
  SentInOrder
  BuffersLive
