SPECIFICATION Spec
CONSTANTS
  t1 = t1
  t2 = t2
  h1 = h1
  h2 = h2
  h3 = h3
  f = f
  g = g
  Threads = {t1, t2}
  Handles = {h1, h2, h3}
  Files = {f, g}
  Openings <- MCBoth
  FileOf <- MCFileOf
  KindsOf <- MCReadWrite
  NoBlock = none
  Shared = TRUE
  Size = 2
  MaxCalls = 2
INVARIANT ReadsOwnWrites
CHECK_DEADLOCK FALSE
