SPECIFICATION Spec
VIEW HeapView
CONSTANTS
  Dirs = {d, e}
  Files = {a, b}
  Deep = {d}
  NInodes = 4
  None = none
  RenameDown = FALSE
INVARIANTS NoDanglingPointer RingsPartitionNodes CacheMatchesTree
