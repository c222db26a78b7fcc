SPECIFICATION Spec
CONSTANTS
  t1 = t1
  t2 = t2
  h1 = h1
  h2 = h2
  h3 = h3
  f = f
  g = g
  Threads = {t1, t2}
  Handles = {h1, h2, h3}
  Files = {f, g}
  Openings <- MCOpenings
  FileOf <- MCFileOf
  KindsOf <- MCKindsOf
  NoBlock = none
  Shared = FALSE
  Size = 3
  MaxCalls = 2
INVARIANTS CallsExclude CachedOnce PointersOutlast ReadsOwnWrites LinksSurvive
PROPERTIES CallsReturn
CHECK_DEADLOCK FALSE
