\* A directory that fills its first sector.
CONSTANTS
  a = a
  b = b
  c = c
  Names <- MCNames
  Deleted = Deleted
  NULL = NULL
  SectorSize = 8
  ItemSize = 2
  RootEntries = 8
  MaxItems = 4
  MaxCount = 6
  Positions <- MCPositions
  Totals <- MCTotals

SPECIFICATION FairSpec

PROPERTY CountEnds
