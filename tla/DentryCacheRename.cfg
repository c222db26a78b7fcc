SPECIFICATION Spec
VIEW HeapView
CONSTANTS
  Dirs = {d}
  Files = {a, b}
  Deep = {d}
  NInodes = 4
  None = none
  RenameDown = TRUE
INVARIANT NoDanglingPointer
