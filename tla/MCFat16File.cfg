\* Files of up to three clusters, read from any position in blocks of any length.
CONSTANTS
  SectorSize = 3
  SectorsPerCluster = 2
  DataSector = 1
  Clusters <- MCClusters
  Marks = {5}
  MaxChain = 3
  Unused = {0, 4}
  Offsets <- MCOffsets
  Sizes <- MCSizes
  Counts = {1, 2}
  MaxPos = 14
SPECIFICATION Spec
INVARIANT BlocksFromClusterStart
INVARIANT ReadsWithinSector
