SPECIFICATION Spec
CONSTANTS
  Size = 2
  NBlocks = 3
  Zero = z
  Fail = fail
  Vals = {z, a}
INVARIANTS TypeOK ListMatchesMap PoolPartition CachedAreAllocated CleanMatchesDisk
PROPERTIES ImplementsBlockStore EvictsLeastRecentlyUsed
