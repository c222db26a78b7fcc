SPECIFICATION Spec
VIEW FilesView
CONSTANTS
  Files = {f, g}
  ND = 1
  K = 2
  NBlocks = 10
  MaxBlocks = 5
  Calls = {"delete", "evict"}
INVARIANTS VisitFindsData NoSharing
CHECK_DEADLOCK FALSE
