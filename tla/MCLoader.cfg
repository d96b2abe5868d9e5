\* Loads, and other calls between them, with more opens than descriptors.
CONSTANTS
  MaxDescriptors = 3
  Tree <- MCTree
  ElfFiles <- MCElfFiles
  Paths <- MCPaths
  Modes = {"r", "w"}
  Filesize = 2
  Offsets = {1, 2}
  MaxPrivates = 4

SPECIFICATION Spec

INVARIANT DescriptorsOwnPrivates
INVARIANT LoadRestoresTable
INVARIANT OutcomeFitsFile
INVARIANT LoadDefined
PROPERTY CallsAreLocal
