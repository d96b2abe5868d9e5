\* Two lines of up to three characters on a terminal of four columns.
CONSTANTS
  Width = 4
  Rows = 12
  LineSize = 4
  Keys = {8, 13, 32, 39, 47, 97}
  Names <- MCNames
  MaxAllocations = 5
  OutOfMemory = TRUE
  MaxLines = 2
SPECIFICATION ShellSpec
INVARIANT LineOnScreen
INVARIANT TokenizerRests
INVARIANT ArgumentsOfLine
INVARIANT PartsJoinToPath
