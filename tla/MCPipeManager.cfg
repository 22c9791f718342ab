\* The counts of the code; one place more than there may be pipes, for one that stops.
CONSTANTS
  Users = {u1, u2}
  Pipes = {p1, p2, p3}
  NoPipe = NoPipe
  maxPipeCount = 2
  maxPipeUser = 1
  ChosenUpTo = 3
  StoppedAbove = 10
  Patience = 7
SPECIFICATION Spec
SYMMETRY Symmetry
INVARIANTS
  NobodyLeftBehind
  SomePipeStays
