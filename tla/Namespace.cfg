SPECIFICATION Spec
SYMMETRY NameSymmetry
CONSTANTS
  NInodes = 4
  Names = {a, b}
  Tmp = tmp
  None = none
  Calls = {"exchange", "symlink", "mkdir_denied"}
INVARIANTS NoDanglingEntry LinksAreEntries Reclaimed DirsFormTree
PROPERTY FailureChangesNothing
