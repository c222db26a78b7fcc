SPECIFICATION Spec
CONSTANTS
  File = f
  Dir = d
  Handles = {h1, h2}
  Appends = {h2}
  ND = 1
  K = 3
  BS = 2
  NBlocks = 30
  MaxSize = 16
  MaxDir = 1
  MaxMixed = 1
  Offs = {0, 4}
  Lens = {3, 4}
  Holes = TRUE
INVARIANT AccessesOwnBlocks
