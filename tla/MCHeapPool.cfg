\* A request longer than the free run at the end of the table.
CONSTANTS
  Total = 4
  BlockSize = 4
  WordSize = 64
  HeapStart = 2
  Spill = 3
  Sizes = {4, 12}
SPECIFICATION Spec
INVARIANT RegionsInPool
