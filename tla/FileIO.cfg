SPECIFICATION Spec
CONSTANTS
  File = f
  Dir = d
  Handles = {h1, h2}
  Appends = {h2}
  ND = 1
  K = 3
  BS = 2
  NBlocks = 60
  MaxSize = 16
  MaxDir = 40
  MaxMixed = 1
  Offs = {0, 5, 13}
  Lens = {3, 4}
  Holes = FALSE
INVARIANTS VisitFindsData BlocksCoverSize AccessesOwnBlocks TransfersComplete CursorsFresh
PROPERTIES ExtendSetsSize
