\* A shell that ends while a task it is linked to lives on.
CONSTANTS
  MaxProcesses = 4
  Addresses = {a1, a2, a3, a4}
  Programs = {shell, echo}
  Shell = shell
  Launchable = {shell, echo}
  Launchers = {shell}
  Terminating = {shell, echo}
  OutOfMemory = FALSE
  NULL = NULL
SPECIFICATION Spec
INVARIANT PrevIsPrevious
