\* Five blocks of four bytes; requests of one to three blocks.
CONSTANTS
  Total = 5
  BlockSize = 4
  WordSize = 64
  HeapStart = 2
  Spill = 3
  Sizes = {1, 4, 5, 12}
SPECIFICATION Spec
INVARIANT TableMatchesLive
INVARIANT ChainsSpellRegions
INVARIANT ScanIsLoop
PROPERTY NullFreeHarmless
PROPERTY ImplementsAllocator
