\* Directories whose end mark is in the first sector.
CONSTANTS
  a = a
  b = b
  c = c
  Names <- MCNames
  Deleted = Deleted
  NULL = NULL
  SectorSize = 8
  ItemSize = 2
  RootEntries = 8
  MaxItems = 3
  MaxCount = 6
  Positions <- MCPositions
  Totals <- MCTotals

SPECIFICATION FairSpec

INVARIANT CountsUsed
INVARIANT FindsUsed
INVARIANT ReadIsLoop
PROPERTY CountEnds
