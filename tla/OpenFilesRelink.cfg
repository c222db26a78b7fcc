SPECIFICATION Spec
CONSTANTS
  NInodes = 3
  Names = {a, b, c}
  Handles = {h1, h2}
  None = none
  MaxSize = 2
  RelinkOpen = TRUE
INVARIANT NoDanglingEntry
