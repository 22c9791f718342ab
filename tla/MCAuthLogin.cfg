CONSTANTS
  Sessions = {s1, s2, s3}
  Accounts = {a, b}
  Keyed = {b}
  Existing = {a}
  MaxSaves = 2
  None = None
SPECIFICATION LoginSpec
CHECK_DEADLOCK FALSE
SYMMETRY Symmetry
INVARIANTS
  EntryOfPlayer
