\* Two processes that allocate, free, print and end, up to the last block of the
\* heap.
CONSTANTS
  Total = 11
  PageSize = 2
  WordSize = 64
  MaxProcesses = 2
  MaxAllocations = 2
  Images <- MCImages
  ProgramPage = 14
  ProgramPages = 2
  StackPage = 13
  StackBlocks = 1
  ProcessBlocks = 1
  ElfFileBlocks = 1
  TaskBlocks = 1
  Sizes = {1, 2}
SPECIFICATION Spec
INVARIANT WritesOnlyOwnPages
INVARIANT RegionsAreReferenced
INVARIANT AllocationsDiffer
PROPERTY ReleasesOnlyOwn
