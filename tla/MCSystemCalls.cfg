\* The programs of the repository: the shell starts programs, itself included,
\* and never ends; the others end and start nothing.
CONSTANTS
  MaxProcesses = 3
  Addresses = {a1, a2, a3}
  Programs = {shell, echo}
  Shell = shell
  Launchable = {shell, echo}
  Launchers = {shell}
  Terminating = {echo}
  OutOfMemory = FALSE
  NULL = NULL
  Values = {1, 2}
  KernelStack = 9
  Garbage = 7
  Registered80 = {0, 1, 2, 3, 4, 5, 6, 7, 8, 9}
  Commands = {0, 2, 6, 7, 9, 10}
  Callbacks = {32}
  Exceptions = {14}
  Silent = {34}
  Dividing = {echo}
SPECIFICATION FairSystemSpec
INVARIANT PrevIsPrevious
INVARIANT NoUndefined
INVARIANT RightAddressSpace
INVARIANT CallsPreserveRegisters
INVARIANT AnswerFitsCall
INVARIANT KeysToRunningWithOneShell
PROPERTY ImplementsRunQueue
PROPERTY FailedLoadHarmless
PROPERTY ProgramsReturnUnlessDividing
