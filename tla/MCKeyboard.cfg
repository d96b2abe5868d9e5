\* Two processes with room for two keys each; the counters wrap at four.
CONSTANTS
  Processes = {p1, p2}
  Size = 2
  WordSize = 4
  ScanSet <- MCScanSet
  BytesBehind = {0, 5, 9}
  Scancodes <- MCScancodes
  Released = 8
  CapsLock = 6
  Letters = {5}
  Shift = 1
  MaxUnread = 2
SPECIFICATION FairSpec
INVARIANT ZeroMeansEmpty
PROPERTY ImplementsKeyQueue
PROPERTY WaitingKeyIsRead
