\* init, a parent, its child and one more; three forks.
SPECIFICATION MCSpec
CONSTANTS
  NPROC = 4
  MaxPid = 4
  None = None
INVARIANTS
  FamilyConsistent
  ResourcesMatchState
PROPERTIES
  KilledExits
  ZombiesReaped
