SPECIFICATION Spec
CONSTANTS
  BlocksPerGroup = 5
  InodesPerGroup = 2
  InodesPerBlock = 1
  Wrap = 32
  Word = 64
  Short = 10
  MaxGroups = 3
  MaxFrees = 1
  AnyRemount = FALSE
INVARIANTS GroupsNumbered BitsAreUsed CountsMatchBits SyncedIsDurable GroupsApart
