\* No last message, no symmetry: liveness is checked.  No surprises: a session whose
\* reference is left over is never released.
CONSTANTS
  Workers = {w1}
  Senders = {t1}
  MaxPackets = 2
  SendQMax = 2
  Modes = {FALSE, TRUE}
  Surprises = {}
  Posts = {"send"}
SPECIFICATION FairSpec
PROPERTY
  CanceledIsReleased
