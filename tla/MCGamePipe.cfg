\* Monsters start idle; a new object may hold a sector in the memory it did not clear.
CONSTANTS
  SECTOR_X_MAX = 3
  SECTOR_Y_MAX = 1
  SECTOR_RATIO = 1
  Walls <- MCWalls
  monsterRespawn <- MCRespawn
  Positions <- MCPositions
  Spawn <- MCSpawn
  Blocks = {p1, p2}
  Sitters = {p1}
  HP_MAX = 2
  MONSTER_DAMAGE = 1
  SavedHP <- MCSavedHP
  MonsterHP = 1
  MONSTER_GEN_MAX = 1
  Initialized = TRUE
  LeftOver <- MCLeftOver
  MaxStamp = 5
  None = None
SPECIFICATION Spec
CHECK_DEADLOCK FALSE
INVARIANTS
  FiledWhereItIs
  TellsWhatIsAround
  NeverOverflows
