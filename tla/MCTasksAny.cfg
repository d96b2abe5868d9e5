\* Every program may start programs, end and crash, and memory may run out.
CONSTANTS
  MaxProcesses = 3
  Addresses = {a1, a2, a3, a4}
  Programs = {shell}
  Shell = shell
  Launchable = {shell}
  Launchers = {shell}
  Terminating = {shell}
  OutOfMemory = TRUE
  NULL = NULL
SPECIFICATION Spec
INVARIANT TablesMirror
INVARIANT PanicOnlyWhenEmpty
