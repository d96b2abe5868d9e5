-------------------------------- MODULE Tasks --------------------------------
(***************************************************************************)
(* Tasks and processes (src/task/task.c, process.c), the system calls that  *)
(* start and end them (src/isr80h/process.c), the exception handler         *)
(* (src/idt/idt.c) and the end of kernel_main (src/kernel/kernel.c).        *)
(*                                                                         *)
(* The kernel is not preemptive (idt_clock does nothing) and runs with      *)
(* interrupts off, so a system call or an exception is one step.  A process *)
(* structure is never freed and is known by its slot in `processes'; a task *)
(* structure is known by its address, which the heap may hand out again.    *)
(***************************************************************************)
EXTENDS Integers, FiniteSets, Sequences

CONSTANTS
  MaxProcesses,   \* LIEBE_OS_MAX_PROCESSES
  Addresses,      \* addresses kzalloc may give to a task structure
  Programs,       \* the program files on the disk
  Shell,          \* "0:/shell.elf", the program started at boot
  Launchable,     \* the programs users start
  Launchers,      \* the programs that use system calls 6 and 7
  Terminating,    \* the programs that exit or raise an exception
  OutOfMemory,    \* whether kzalloc may fail
  NULL

ASSUME TasksAssumption ==
  /\ MaxProcesses \in Nat \ {0}
  /\ IsFiniteSet(Addresses)
  /\ Cardinality(Addresses) >= MaxProcesses
  /\ Shell \in Programs
  /\ Launchable \subseteq Programs
  /\ Launchers \subseteq Programs
  /\ Terminating \subseteq Programs
  /\ OutOfMemory \in BOOLEAN
  /\ NULL \notin Addresses
  /\ NULL \notin 0 .. (MaxProcesses - 1)
  /\ NULL \notin [task : Addresses, program : Programs]

Slots == 0 .. (MaxProcesses - 1)

VARIABLES
  tasks,            \* the task list: task_head, task_tail, current_task and the
                    \* next and prev fields of every task structure
  live,             \* the task structures allocated and not freed
  task_process,     \* task->process, as a slot
  processes,        \* the table of processes
  current_process,  \* the slot of current_process
  mode              \* where control is: boot, user, panic or undefined

vars == <<tasks, live, task_process, processes, current_process, mode>>
-----------------------------------------------------------------------------
(* The task list. *)

\* Mutant: the prev field of the new task is not set.
task_new_without_prev(l, t) ==
  IF l.head = NULL
    THEN [l EXCEPT !.head = t, !.tail = t, !.current = t,
                   !.next[t] = NULL, !.prev[t] = NULL]
    ELSE [l EXCEPT !.next = [l.next EXCEPT ![t] = NULL, ![l.tail] = t],
                   !.prev[t] = NULL,
                   !.tail = t]

\* Mutant: the task is put in front of the others.
task_new_at_head(l, t) ==
  IF l.head = NULL
    THEN [l EXCEPT !.head = t, !.tail = t, !.current = t,
                   !.next[t] = NULL, !.prev[t] = NULL]
    ELSE [l EXCEPT !.next[t] = l.head,
                   !.prev = [l.prev EXCEPT ![t] = NULL, ![l.head] = t],
                   !.head = t]

\* The list after task_new has been given the zeroed structure t.
task_new(l, t) ==
  IF l.head = NULL
    THEN [l EXCEPT !.head = t, !.tail = t, !.current = t,
                   !.next[t] = NULL, !.prev[t] = NULL]
    ELSE [l EXCEPT !.next = [l.next EXCEPT ![t] = NULL, ![l.tail] = t],
                   !.prev[t] = l.tail,
                   !.tail = t]

\* task_new writes to the tail of the list: is that a task structure?
task_new_defined(l) == l.head = NULL \/ l.tail \in live

\* Mutant: the end of the list is not wrapped round to the head.
task_get_next_no_wrap(l) == l.next[l.current]

task_get_next(l) ==
  IF l.next[l.current] = NULL THEN l.head ELSE l.next[l.current]

\* Mutant: the tail is left alone.
task_list_remove_keeps_tail(l, t) ==
  LET unlinked ==
        [l EXCEPT !.next = IF l.prev[t] = NULL THEN l.next
                           ELSE [l.next EXCEPT ![l.prev[t]] = l.next[t]],
                  !.head = IF t = l.head THEN l.next[t] ELSE l.head]
  IN  IF t = l.current
        THEN [unlinked EXCEPT !.current = task_get_next(unlinked)]
        ELSE unlinked

\* The list without t.  The prev field of the task after t is not changed.
task_list_remove(l, t) ==
  LET unlinked ==
        [l EXCEPT !.next = IF l.prev[t] = NULL THEN l.next
                           ELSE [l.next EXCEPT ![l.prev[t]] = l.next[t]],
                  !.head = IF t = l.head THEN l.next[t] ELSE l.head,
                  !.tail = IF t = l.tail THEN l.prev[t] ELSE l.tail]
  IN  IF t = l.current
        THEN [unlinked EXCEPT !.current = task_get_next(unlinked)]
        ELSE unlinked

\* task_list_remove writes to the task before t: is that a task structure?
task_list_remove_defined(l, t) == l.prev[t] = NULL \/ l.prev[t] \in live

task_switch(l, t) == [l EXCEPT !.current = t]
-----------------------------------------------------------------------------
(* The table of processes. *)

\* Mutant: the first slot, free or not.
process_get_free_slot_first == {0}

\* The first free slot, as a set: empty when the table is full.
process_get_free_slot ==
  {s \in Slots : processes[s] = NULL /\ \A i \in 0 .. (s - 1) : processes[i] /= NULL}

\* Mutant: only the first slot is looked at.
NoProcessInFirstSlot(table) == table[0] = NULL

\* process_switch_to_any finds nothing and panics.
NoProcess(table) == \A s \in Slots : table[s] = NULL

\* The first process of the table.
process_switch_to_any(table) ==
  CHOOSE s \in Slots : table[s] /= NULL /\ \A i \in 0 .. (s - 1) : table[i] = NULL

program(t) == processes[task_process[t]].program

\* Whose code the processor runs.
Running == tasks.current
-----------------------------------------------------------------------------
Init ==
  /\ tasks = [head |-> NULL, tail |-> NULL, current |-> NULL,
              next |-> [a \in Addresses |-> NULL], prev |-> [a \in Addresses |-> NULL]]
  /\ live = {}
  /\ task_process = [a \in Addresses |-> NULL]
  /\ processes = [s \in Slots |-> NULL]
  /\ current_process = NULL
  /\ mode = "boot"

\* A null or freed structure has been used: the memory may have been given to
\* any other part of the kernel, and nothing is known from here on.
Undefined ==
  /\ mode' = "undefined"
  /\ UNCHANGED <<tasks, live, task_process, processes, current_process>>

\* process_load_switch with a file that loads: a task is appended, the process
\* entered in the table and made the current one.  The callers then switch to
\* the new task, unless they fail before they do.
process_load_switch(prog, switch) ==
  \E s \in process_get_free_slot, t \in Addresses \ live :
    IF task_new_defined(tasks)
      THEN /\ tasks' = IF switch THEN task_switch(task_new(tasks, t), t)
                                 ELSE task_new(tasks, t)
           /\ live' = live \cup {t}
           /\ task_process' = [task_process EXCEPT ![t] = s]
           /\ processes' = [processes EXCEPT ![s] = [task |-> t, program |-> prog]]
           /\ current_process' = s
           /\ mode' = "user"
      ELSE Undefined

\* process_load fails before it creates a task: the table is full, the file is
\* missing, cannot be read or is no program, or there is no memory for it.
process_load_fails == UNCHANGED vars

\* Mutant: the task is freed without being taken off the list.
process_load_unmappable_stays ==
  \E s \in process_get_free_slot, t \in Addresses \ live :
    IF task_new_defined(tasks)
      THEN /\ tasks' = task_new(tasks, t)
           /\ task_process' = [task_process EXCEPT ![t] = s]
           /\ UNCHANGED <<live, processes, current_process, mode>>
      ELSE Undefined

\* process_load fails after it has created the task: a segment of the program
\* cannot be mapped, and the task is taken off the list and freed.
process_load_unmappable ==
  \E s \in process_get_free_slot, t \in Addresses \ live :
    IF task_new_defined(tasks)
      THEN /\ tasks' = task_list_remove(task_new(tasks, t), t)
           /\ task_process' = [task_process EXCEPT ![t] = s]
           /\ UNCHANGED <<live, processes, current_process, mode>>
      ELSE Undefined

\* kzalloc returns 0 for the process, the task or its page directory.  None of
\* the three is noticed: `if (!process)' tests the caller's argument,
\* `ERROR_I(task) == 0' is never true, and task_free is given the null pointer.
process_load_without_memory ==
  /\ OutOfMemory
  /\ process_get_free_slot /= {}
  /\ Undefined

\* The end of kernel_main: load the shell and run it, or panic.
kernel_main ==
  /\ mode = "boot"
  /\ \/ process_load_switch(Shell, TRUE)
     \/ mode' = "panic" /\ UNCHANGED <<tasks, live, task_process, processes, current_process>>
     \/ process_load_without_memory

Launches(prog) ==
  /\ mode = "user"
  /\ program(Running) \in Launchers
  /\ prog \in Launchable

\* System call 6.  The path handed to process_load_switch is not terminated
\* by its strcpy, so the load may fail for any file name.
isr80h_command6_process_load_start(prog) ==
  /\ Launches(prog)
  /\ \/ process_load_switch(prog, TRUE)
     \/ process_load_fails
     \/ process_load_unmappable
     \/ process_load_without_memory

\* System call 7.  When the arguments cannot be allocated the call returns to
\* the caller, and the new process stays in the table and is the current one.
isr80h_command7_invoke_system_command(prog) ==
  /\ Launches(prog)
  /\ \/ process_load_switch(prog, TRUE)
     \/ OutOfMemory /\ process_load_switch(prog, FALSE)
     \/ process_load_fails
     \/ process_load_unmappable
     \/ process_load_without_memory

\* task_current()->process.
process_of_running == task_process[Running]

\* Mutant: only the table entry is cleared.
process_unlink_no_switch(table, s) == current_process

\* process_unlink's choice of the current process, once s has left the table.
process_unlink(table, s) ==
  IF current_process = s THEN process_switch_to_any(table) ELSE current_process

\* process_terminate of the running process followed by task_next: system call
\* 9, and every exception a program raises but the division by zero, whose gate
\* does not lead to idt_handle_exception (see SystemCalls).  task_list_remove has already moved
\* current_task on when task_next moves it once more.
process_terminate_and_next ==
  LET s == process_of_running
      t == processes[s].task
      table == [processes EXCEPT ![s] = NULL]
      removed == task_list_remove(tasks, t)
      next_task == task_get_next(removed)
      remaining == live \ {t}
  IN  IF ~task_list_remove_defined(tasks, t)
        THEN Undefined
        ELSE IF current_process = s /\ NoProcess(table)
          THEN /\ tasks' = removed /\ live' = remaining /\ processes' = table
               /\ mode' = "panic"
               /\ UNCHANGED <<task_process, current_process>>
          ELSE IF removed.current \in remaining /\ next_task \in remaining
            THEN /\ tasks' = task_switch(removed, next_task)
                 /\ live' = remaining
                 /\ processes' = table
                 /\ current_process' = process_unlink(table, s)
                 /\ UNCHANGED <<task_process, mode>>
            ELSE Undefined

isr80h_command9_exit ==
  /\ mode = "user"
  /\ program(Running) \in Terminating
  /\ process_terminate_and_next

idt_handle_exception ==
  /\ mode = "user"
  /\ program(Running) \in Terminating
  /\ process_terminate_and_next

\* panic loops for ever; what happens after undefined behaviour is left open.
Halted == mode \in {"panic", "undefined"} /\ UNCHANGED vars

Next ==
  \/ kernel_main
  \/ \E prog \in Programs : isr80h_command6_process_load_start(prog)
  \/ \E prog \in Programs : isr80h_command7_invoke_system_command(prog)
  \/ isr80h_command9_exit
  \/ idt_handle_exception
  \/ Halted

Spec == Init /\ [][Next]_vars
-----------------------------------------------------------------------------
(* Properties. *)

MaybeAddress == Addresses \cup {NULL}

TaskLists ==
  [head : MaybeAddress, tail : MaybeAddress, current : MaybeAddress,
   next : [Addresses -> MaybeAddress], prev : [Addresses -> MaybeAddress]]

\* The types of the kernel's pointers: the list and the two tables.
TypeOK ==
  /\ tasks \in TaskLists
  /\ live \subseteq Addresses
  /\ task_process \in [Addresses -> Slots \cup {NULL}]
  /\ processes \in [Slots -> [task : Addresses, program : Programs] \cup {NULL}]
  /\ current_process \in Slots \cup {NULL}
  /\ mode \in {"boot", "user", "panic", "undefined"}

Registered == {s \in Slots : processes[s] /= NULL}

\* The table of processes and the task structures mirror each other: the task
\* of a process in the table is allocated and points back to it, and every
\* allocated task belongs to a process in the table.  Whatever programs do,
\* and whichever address the heap reuses, until memory is misused.
TablesMirror ==
  /\ \A s \in Registered :
       processes[s].task \in live /\ task_process[processes[s].task] = s
  /\ \A t \in live : task_process[t] \in Registered /\ processes[task_process[t]].task = t

\* In user mode a process is current and it is one of the table: the keyboard
\* driver writes into it.
CurrentProcessRegistered == mode = "user" => current_process \in Registered

\* The kernel runs out of tasks and panics only when the last process has ended.
PanicOnlyWhenEmpty == mode = "panic" => live = {} /\ Registered = {}

\* Starting and ending processes never overwrites a slot in use: a process in
\* the table stays as it is until it ends.
SlotsNeverOverwritten ==
  [][\A s \in Registered \cap Registered' : processes'[s] = processes[s]]_vars

\* The inductive strengthening of the properties above.  That the running task
\* is allocated is needed to know which process ends, and that the head of the
\* list is allocated keeps a failed load from taking the place of the caller.
UserListInUse == mode = "user" => Running \in live /\ tasks.head \in live

BootEmpty == mode = "boot" => live = {} /\ Registered = {} /\ tasks.head = NULL

TasksInv ==
  /\ TypeOK /\ TablesMirror /\ CurrentProcessRegistered /\ PanicOnlyWhenEmpty
  /\ UserListInUse /\ BootEmpty

\* The k-th task of the list, following next from task_head.
Walk ==
  LET at[k \in 0 .. MaxProcesses] ==
        IF k = 0 THEN tasks.head
        ELSE IF at[k - 1] = NULL THEN NULL ELSE tasks.next[at[k - 1]]
  IN  at

\* task->prev is the "previous task in the order" (task.h).
PrevIsPrevious ==
  \A t \in live :
    IF t = tasks.head
      THEN tasks.prev[t] = NULL
      ELSE tasks.prev[t] \in live /\ tasks.next[tasks.prev[t]] = t

\* No freed and no null task structure is ever used.
NoUndefined == mode /= "undefined"

\* A load that fails leaves the list, the tables and the running task alone.
FailedLoadHarmless ==
  [][(live' = live /\ mode' = "user") =>
       /\ UNCHANGED <<processes, current_process>>
       /\ tasks'.head = tasks.head /\ tasks'.tail = tasks.tail
       /\ tasks'.current = tasks.current
       /\ \A t \in live : tasks'.next[t] = tasks.next[t] /\ tasks'.prev[t] = tasks.prev[t]]_vars

\* "ptr to the current process that is running" (process.c): keys go to the
\* process whose task runs.
CurrentProcessRuns == mode = "user" => current_process = task_process[Running]

\* The queue of tasks the list stands for.
RunQueueOfList == [k \in 1 .. Cardinality(live) |-> Walk[k - 1]]

Queue ==
  INSTANCE RunQueue WITH queue <- RunQueueOfList, running <- tasks.current

\* The doubly linked list implements the run queue: walked from its head it holds
\* the tasks in the order in which they were started, each once and no other, and
\* the one that runs is among them.
ImplementsRunQueue == Queue!Spec
-----------------------------------------------------------------------------
(* What the shipped programs keep to, and what follows for the list. *)

\* The programs of the repository, while memory lasts: the program started at
\* boot starts others, and a program that starts others never ends.
ShippedPrograms ==
  /\ ~OutOfMemory
  /\ Shell \in Launchers
  /\ Launchers \cap Terminating = {}

\* The list, followed from its head to its tail and back, is q: n tasks, those
\* allocated, each once.
ListSpells(n, q) ==
  /\ q \in [1 .. n -> live]
  /\ \A t \in live : \E i \in 1 .. n : q[i] = t
  /\ \A i, j \in 1 .. n : q[i] = q[j] => i = j
  /\ tasks.head = q[1] /\ tasks.tail = q[n]
  /\ \A i \in 1 .. n :
       /\ tasks.prev[q[i]] = IF i = 1 THEN NULL ELSE q[i - 1]
       /\ tasks.next[q[i]] = IF i = n THEN NULL ELSE q[i + 1]

\* The list is a stack: a program that starts no others is at its end, and runs.
LaunchersFirst(n, q) ==
  /\ program(q[1]) \in Launchers
  /\ \A i \in 1 .. n : program(q[i]) \notin Launchers => i = n /\ Running = q[n]

\* The inductive strengthening of the properties of the list.
ListInv ==
  /\ mode /= "undefined"
  /\ mode /= "user" => live = {} /\ tasks.current = NULL
  /\ mode = "user" =>
       /\ ListSpells(Cardinality(live), RunQueueOfList)
       /\ LaunchersFirst(Cardinality(live), RunQueueOfList)
       /\ Cardinality(live) \in 1 .. MaxProcesses
=============================================================================
