# A TLA+ model of liebe_os

liebe_os is a small 32-bit kernel for one processor: a block heap, paging, ELF and
binary programs in user mode, a FAT16 reader over an ATA disk, a PS/2 keyboard, system
calls through `int 0x80`, and user programs: a shell, `echo` and `blank`. This directory
holds TLA+ modules that model the parts of the kernel that keep state, TLC
configurations that check them on small instances, and TLAPS proofs of all
safety properties that hold. Paths below are those of the repository (`src/task/task.c` and so on).

All statements are about the code as it is. Where the code does something a comment
does not expect, the model does what the code does, and the section "Where the code
and its comments disagree" says so.

## 1. Inventory

| Component | Source | State | Operations | Hard behaviours | Correct when |
|---|---|---|---|---|---|
| Kernel heap | `memory/heap/heap.c`, `kheap.c` | one byte per 4096-byte block: taken, first, has-next | `kmalloc`, `kzalloc`, `kfree` | chains of blocks, the end of the table, sizes that wrap, `kfree(0)` | regions in use are disjoint, a free releases its region only |
| Tasks and processes | `task/task.c`, `task/process.c`, `isr80h/process.c`, `idt/idt.c` | doubly linked task list, `current_task`, `processes[]`, `current_process` | load and start, exit, exception, `task_next` | long sequences of starts and ends; addresses that the heap reuses; loads that fail half-way | list and tables agree, no freed task is used, the shell gets the processor back |
| Memory of processes | `task/process.c`, `isr80h/heap.c`, `isr80h/io.c`, `memory/paging/paging.c` | `allocations[]` of a process, page directories, heap regions | load, `malloc`, `free`, print, terminate | a full allocation table, stale rights, temporary mappings, segments beyond the file | a process writes only to its own pages, nothing is lost or freed twice |
| Keyboard | `keyboard/keyboard.c`, `keyboard/classic.c`, `isr80h/io.c` | a ring buffer per process, caps lock | IRQ 1, system call 2 | interrupts between polls, wrapping counters, a full buffer | first in first out, a waiting key is read |
| Disk streams | `disk/streamer.c` | `pos` | seek, read | reads that end with, or cross, a sector | the bytes asked for are delivered |
| FAT16 | `fs/fat/fat16.c` | directories, cluster chains, descriptor position | open, read, seek, stat, lookup | scattered clusters, deleted items, full sectors | reads deliver the file, names are found, loops end |
| File interface | `fs/file.c`, `fs/pparser.c` | `file_descriptors[]`, private structures | `fopen`, `fread`, `fseek`, `fstat`, `fclose` | a full table, failed opens | descriptors are independent |
| Program loader | `loader/formats/elfloader.c`, `process_load_data` | the file being loaded | ELF, then binary | errors between open and close | what was opened is closed, the outcome fits the file |
| Disk driver | `disk/disk.c` | none | read sectors | polling of a controller | not modelled |
| Interrupts and system calls | `idt/idt.c`, `idt/idt.asm`, `task/task.asm`, `task/task.c`, `isr80h/` | registers, saved registers, `cr3`, the interrupt flag | enter, dispatch, answer, switch, leave | a call that returns after other programs have run; exceptions; an interrupt anywhere in a program | each program goes on with its own registers, stack and address space, and its own answer |
| Terminal | `kernel/kernel.c` | row, column, cells | print, backspace | the edges of the screen | what is typed is what is seen |
| User library and programs | `programs/` | the line, the state of `strtok`, arguments | `readline`, `parse_command`, `system`, the wrappers, `echo` | erasing over a line break, quotes, a full allocation table, state kept between lines | arguments are the pieces of the line |
| Descriptor tables, boot | `gdt/`, `boot/`, `kernel.asm` | constant | | | not modelled |

How they interact. A program calls the kernel through `int 0x80`; the handler runs to
its end with interrupts off and returns to the current task. Every gate is an interrupt gate, so interrupts
reach the kernel only from user mode, and the clock interrupt does nothing (`idt_clock`): there
is no preemption inside the kernel. In `SystemCalls` a call is three steps (entry, command, way out), so that the state
between them can be looked at; in the other modules **one system call, one interrupt or one exception is
one atomic action**. What interleaves is the order of calls, interrupts
and exceptions. The loops that a property looks into (counting a directory, the calls
of a load) are split into their turns.

The heap serves everyone; tasks and processes name each other by pointers into it;
the keyboard driver writes into `current_process` while system call 2 reads from the
process of the running task; loading a program goes through the file interface to FAT16
and the disk streams.

## 2. Modules

| Module | Stands for | Notes |
|---|---|---|
| `Allocator` | what callers expect of `kmalloc`/`kfree` | abstract |
| `Heap` | `heap.c`, `kheap.c` | implements `Allocator` |
| `HeapProofs` | | theorems on `Heap` |
| `RunQueue` | tasks in the order of their start, and the running one | abstract |
| `Tasks` | `task.c`, the process table, system calls 6, 7 and 9, exceptions | implements `RunQueue` |
| `SystemCalls` | entries to and exits from the kernel: registers, stacks, address spaces | extends `Tasks` |
| `SystemCallsProofs` | | theorems on `Tasks` and `SystemCalls` |
| `ElfFile` | ELF headers and segments, page arithmetic | used by `ProcessMemory` |
| `ProcessMemory` | the memory of processes and their page directories | instance of `Allocator` for regions |
| `ProcessMemoryProofs` | | theorems on `ProcessMemory` |
| `KeyQueue` | a queue of keys per process | abstract |
| `Keyboard` | `keyboard.c`, `classic.c`, system call 2 | implements `KeyQueue` |
| `DiskStreamer` | `streamer.c` | used by `Fat16File`, composed with `Fat16Directory` |
| `Fat16File` | cluster chains, open, read, seek | |
| `Fat16FileProofs` | | theorems on `Fat16File` |
| `Fat16Directory` | count, load and search of a directory | extends `DiskStreamer` |
| `Fat16DirectoryProofs` | | theorems on `DiskStreamer` and `Fat16Directory` |
| `Files` | `file.c` and the walk along a path | |
| `Loader` | `elf_load`, `process_load_binary`, `process_load_data` | extends `Files` |
| `LoaderProofs` | | theorems on `Files` and `Loader` |
| `Terminal` | the cursor and the cells of the screen | used by `CommandLine` |
| `PathParser` | `pparser.c` | used by `CommandLine` |
| `CommandLine` | the shell, `readline`, `strtok`, `parse_command`, system call 7, `echo` | composes the two |
| `ConsoleProofs` | | theorems on `Keyboard`, `Terminal`, `PathParser` and `CommandLine` |
| `NaturalNumbers` | | induction, loops and remainders, for the proofs |
| `MC*` | values of the constants for TLC | |

Definitions carry the names of the functions they model. Operators commented
"Mutant" are altered forms of the definition that follows them, with the fault a slip in
that code would have; they document what each property can detect, and no
specification uses them.

**Heap.** `entries` holds the flags of the bytes of the table, and of the bytes around it that
an index out of bounds reaches (`Spill`); `live` holds the regions handed out.
`heap_get_start_block` is the closed form of the search: the first run that fits, else
the free run at the end of the table. `ScanLoop` is the loop of the source, one `ScanTurn` per block, and
`ScanIsLoop` says that the two agree. `kfree` follows the chain from the first block.
`kfree_null` is what `process_terminate_allocations` does with every empty entry: the block index is
negative, and the loop walks over the bytes below the table up to one without has-next.

**Tasks.** `tasks` is the list (`head`, `tail`, `current`, `next`, `prev`), with pointers that
may dangle; `live` the addresses at which a task structure is allocated;
`task_process` and `processes` the pointers between tasks and processes. A use of a
freed or null structure ends in mode "undefined", of which nothing is said. A load may
fail before anything is changed, after the task was linked (`process_load_unmappable`),
or for want of memory (`process_load_without_memory`). The heap may place a new
task at any free address, also one that was just freed. Constants say which programs
start others and which end.

**SystemCalls.** `cpu` holds the registers of the program, or none while the kernel runs; `registers` what is
saved in each task; `stack` the two words the wrappers of `liebeos.asm` push; `directory` the contents of
`cr3`; `kernel` what the kernel is at. `calls`, the last call of each task, is a history
variable that only properties read. A command or an exception is a step of `Tasks`, taken between the entry
(`isr80h_wrapper`, `interrupt_handler`) and the way out. There are two ways out, as in the
code: `leave` pops the frame of the entry, `task_return` loads registers saved in a task
(`Resume`). `ebx` stands for the registers that are treated as it is; `ebp` is apart, as
`restore_general_purpose_registers` spoils it, and `eax`, which carries the answer. A division by zero is a place in a
program from which `int_0_handler` returns to the same place.

**ElfFile, ProcessMemory.** The heap is a set of regions of whole pages handed out first-fit. A page
directory is a function from virtual pages to pages and rights; in the code it has two levels, whose memory
is counted with the task structure (`TaskBlocks`). A load maps the segments of the file, or the whole file, and the
stack. It takes, in this order, the process structure, the `elf_file`, the memory the file is read to, for a file
that is no ELF program a second image, the stack and the task; it may fail at each of them and wherever the file can be
unreadable, and then all but the task stays taken and belongs to nobody (`Lost`), as do the `elf_file` and the memory of a
refused file. `process_free` tests the owner, takes the rights away, clears the entry and frees; `process_terminate` frees the
allocations, the image, the `elf_file`, the stack and the task, but not the process structure. `copy_string_from_task`
borrows a page for the copy and may fault in the middle. Addresses are counted in parts of a page, so that segments
may begin and end inside pages, and wrap at `WordSize`. Requests have a positive size. `owner` of a region
is a history variable.

**Terminal, PathParser, CommandLine.** Characters are their codes. The terminal is a value that `terminal_writechar`
turns into another; nothing scrolls, and rows below the screen exist in the model as the memory behind the
screen does. `liebeos_terminal_readline` takes a key per step, `liebeos_parse_command` a token per
step, with `malloc` failing at any of them. The state of `strtok` outlives a line, as its global variables do. `seen` is a
history variable: what was kept from earlier lines when this one began.

**Keyboard.** `head` and `tail` are counters that wrap at `WordSize`; an index is the counter
modulo `Size`. An interrupt pushes to `current_process`, system call 2 pops from the
running task's process; `Keyboard` lets the two differ, as `Tasks` shows they do.

**DiskStreamer, Fat16File, Fat16Directory.** A byte is its position on the disk, so
delivering wrong, missing or misplaced bytes can be told apart. `Fat16Directory` counts one item per
step, as the loop does. A directory is the root, read once, or a subdirectory, read and
freed again and again.

**Files, Loader.** A path is the sequence of its parts and `Tree` what the disk holds.
`Files` keeps the private structures behind the descriptors, those lost by failed
opens included. `Loader` interleaves whole loads with arbitrary calls of other kernel code;
today only the loader uses files, and the table of descriptors is checked for more than that.

## 3. Runs

Passing runs:

- **heap**: five blocks, requests of one to three blocks. Every order of allocations and
  frees, with the heap full, fragmented and empty again. Regions are disjoint, the table marks
  exactly their blocks, chains spell regions, `kfree(0)` is harmless, and
  `Heap` implements `Allocator`. Requests go past the end of the pool here (see below), so
  the properties are shown to survive that.
- **system_calls**: three slots and three addresses, a shell that may start shells and
  `echo`, which ends, crashes or divides by zero; calls with and without an argument, known and unknown; the clock,
  an exception and an interrupt without a callback at any place of a program. A program always runs in its own
  address space and with its own registers, and gets the answer to its own call, even when other programs have
  been started and ended meanwhile; the kernel never runs on a freed page directory. The list is well formed in both directions and implements `RunQueue`; nothing
  undefined happens; failed loads leave no trace; keys go to the running program while there is one shell; a program
  that ends gives the processor to a shell. Three processes give the list a head, a tail and an inner
  position; that addresses equal slots makes every freed address reused at once. Two values suffice
  to tell the registers of two programs apart.
- **tasks_any**: three slots and any behaviour of programs, lack of memory included.
  The properties are those that hold until memory is misused: the tables mirror each other, and the kernel panics only when
  no process is left.
- **keyboard**: two processes, buffers of two keys, counters modulo four so that they
  wrap often. Caps lock, releases, unknown scan codes and the one that reads the byte behind the table occur; that byte
  may be zero, a character of the table, or another. `Keyboard` implements `KeyQueue`
  as long as no more keys are unread than the buffer holds.
- **fat16_file**: sectors of three bytes, clusters of two sectors, files of up to three of
  four clusters in any order, one of which has the number of an end mark. Reads from
  the start of a cluster in one block, as the loader does, and reads inside a
  sector deliver the file.
- **fat16_directory**: four items to a sector, up to three of them used or deleted. The
  count ends and is right, and a name is found unless a deleted item precedes it.
  The formulas for a read agree with the recursion of the source from every
  position of two sectors and for lengths beyond two sectors.
- **process_memory**: two processes on eleven pages, which they exhaust; an ELF program with code, data and an
  empty segment, one with data beyond its file, one whose data ends beyond the last address, and a file that is
  loaded as a plain binary after the ELF loader has refused it. A process can
  write only to its own pages, provided its segments lie in its file; everything taken for a process that was loaded can be reached
  from its structures, and none but the process structure is left when it has ended; no page is freed twice or by another process.
- **loader**: three descriptors, four private structures, seven paths. Open descriptors
  own their structures and do not disturb each other; a load restores the table.

- **command_line**: two lines of up to three characters, of a letter, a blank, a quote, a slash, backspace and enter,
  on a screen of four columns, so that every line is wrapped; `malloc` may fail at every call, and has room for five
  arguments. The screen shows the line; `strtok` is at rest between lines; arguments are the line split at blanks, and nothing else of it is lost;
  paths parse back. Two lines are needed for what `strtok` keeps; a quote left open by the first makes the second one
  split at a blank.

Runs that end in a violation (section 5): **heap_pool**, **tasks_dangling**, **fat16_directory_long**.

Fairness. `SystemCalls!FairSystemSpec`: weak fairness of the kernel's own steps, which nothing interrupts; strong
fairness of a program's start-up code, of the return from a wrapper, and of the exit call, because
interrupts only delay a program and the start-up code calls exit after `main`. Strong, as an interrupt disables
the program's step while it is served. No fairness is assumed of calls that launch programs or of interrupts. `Keyboard!FairSpec` assumes that the running program keeps
asking for keys, as `liebeos_getkey_block` does in a loop. `Fat16Directory!FairSpec` assumes that the
kernel goes on with its own loop, which nothing interrupts. No other liveness is claimed.

Deadlock is checked in every run; a panic and undefined behaviour are states that
stutter.

Bounds. `MaxUnread` (keys waiting), `MaxPos` (repeated SEEK_CUR), `MaxCount` (a count
that does not end), `MaxPrivates` (structures lost by failed opens), `MaxChain` and `MaxItems` are
named in the modules, as are `Rows` and `MaxLines` of `CommandLine` and `ProgramPages` of `ProcessMemory`. `MaxUnread` equals the size of the buffer, so the full buffer is
reached; `MaxPrivates` exceeds the descriptors by one, so an open with a full table is reached.

## 4. Proofs

All theorems are checked by TLAPS for every value of the constants that the named assumptions allow. Each
component has an inductive invariant, defined in its module (`HeapInv`, `TasksInv`, `ListInv`, `SystemInv`, `KeyboardInv`,
`ShellInv`, `ProcessMemoryInv`, `FileInv`, `DirectoryInv`, `LoaderInv`); TLC has checked each on the configuration of its run. The
properties follow from it.

**Heap** (from `HeapAssumption`, `SpillAssumption`, and `NonEmptyRequests`: sizes of at least one
byte that the alignment does not wrap to 0). The inductive invariant `HeapInv` adds two parts to the
properties: `BytesOfRegions`, the bytes of a region are those
`heap_mark_blocks_taken` wrote, without which nothing is known of where a free stops; and `StopByteBelow`,
some byte below the table stops `kfree(0)`. The argument: the block chosen is free and so are those
after it in the table (`StartBlockIsFree`, `GrantedRegion`); a chain walked from the
start of a region ends with the region (`ChainOfRegion`); therefore allocation and
free change the bytes of one region only. Proved: the invariant, `TypeOK`, `Disjoint`, `TableMatchesLive`,
`ChainsSpellRegions`, `FreeExact`, `NullFreeHarmless`, and the refinement of `Allocator`. Without the hypothesis,
`ScanIsLoop`: an invariant of the loop says after each turn what `count` and `start` are, the length and the start of
the free run that ends there, and that no earlier run was long enough.

**Tasks** (from `TasksAssumption`). `TasksInv` adds to the properties that the running task and
the head of the list are allocated in user mode (`UserListInUse`), which is what names the process that
ends and keeps a failed load from replacing its caller, and that nothing exists at
boot (`BootEmpty`). Proved, for every number of processes and every behaviour of programs: the invariant,
`TypeOK`, `TablesMirror`, `CurrentProcessRegistered`, `PanicOnlyWhenEmpty`,
`SlotsNeverOverwritten`.

The list is sound only for some programs: `task_list_remove` leaves a `prev` behind when the removed task has a
successor (section 5). `ShippedPrograms` states what the repository's programs keep to, while memory lasts: the program
of the boot starts others, and one that starts others never ends. Then the list is a stack. `ListInv` says so: walked
from its head it spells the allocated tasks, each once, with `prev` the inverse of `next`, and a program that
starts no others can only be the last, and then runs (`LaunchersFirst`). The argument: a start appends
(`StartsSpells`), an end takes off the last task (`EndsSpells`), a failed load appends and takes off again
(`FailsSpells`), so the missing assignment never matters. Proved from `ShippedPrograms`: the invariant, `NoUndefined`,
`PrevIsPrevious`, `FailedLoadHarmless`, and the refinement of `RunQueue`.

**SystemCalls** (from `TasksAssumption` and `SystemCallsAssumption`). Every step is built as a step of
`Tasks` or changes nothing of it (`SystemStepIsTasksStep`, `SystemIsTasks`), which brings the invariant
of `Tasks` along. The properties themselves speak of the running program only; what makes them inductive is what is
known of the others. `SystemInv` therefore says of every task that waits that it has not begun, or that its saved
registers are those of `int 0x80` inside call 6 or 7 and its stack holds the words the wrapper pushed
(`WaitingTasksAreSaved`); and of the running one, at each point of a call, that the frame, the stack and the last call
belong together (`RunningTaskFits`). The argument: a task stops running only in a command that starts
another, so it is saved in that call (`LaunchAnswers`); a task is resumed either fresh or in that call, and
then `ebp`, which the kernel has spoiled, is popped from its stack before its caller sees it (`RestoredFits`);
starting or ending tasks leaves the others' registers alone (`RenewedWaits`). Proved, for every set of programs,
commands, interrupts and values, lack of memory included: the invariant, `RightAddressSpace`,
`CallsPreserveRegisters`, `AnswerFitsCall`. From `ShippedPrograms` also `KeysToRunningWithOneShell`: with one shell the list has
at most two tasks, so when a program ends, the process that is left is the shell's, and so is the task that is resumed.

**Keyboard** (from `KeyboardAssumption`: the size of a buffer divides the word of the counters and is less than it; and
`KeysFit`: no process leaves more keys unread than its buffer holds, which the code does not prevent, see section 5).
`KeyboardInv` is `TypeOK`, the bound, and `ZeroMeansEmpty`: the bytes that are not zero are those of the unread keys,
wherever the counters stand. The argument is about remainders: counters less than `Size` apart have different
indices, and a counter that wraps keeps its index because `Size` divides `WordSize`. Proved: the invariant,
`ZeroMeansEmpty`, and the refinement of `KeyQueue`, in which the queue of a process is read off its buffer.

**Terminal, PathParser, CommandLine** (from `TerminalAssumption` and `CommandLineAssumption`: no key gives a terminator or a line
feed, which is so of the table in `classic.c`). `ShellInv` adds to the properties that both buffers end with a terminator nothing
overwrites, without which the searches of `strtok` would have no end; that `strtok` is left alone while a line is read
(`TokenizerKept`); and, between two tokens, how far it has read (`TokensOfLine`): the rest of the line is in its
buffer, its quotes are those of the part that was read, which ends at a cut, and the arguments are those that start in that part.
The arguments, each an induction over what the code's loop has done so far:

- the screen: `terminal_writechar` moves the cursor by one cell and writes none but that cell, and a backspace undoes
  it, also over the edge of a row (`WriteCharMoves`, `BackspaceMoves`); so erasing the last character of the line
  leaves the others on the screen;
- the tokens: a quote is open after a character in the buffer exactly when it is open there in the line, counted from its
  start (`QuotesOfLine`), so `strtok` stops where the line is cut (`EndsAreCuts`); between the old place and the new one exactly one
  argument starts (`StartsWithToken`), so one more is right (`SplitToNext`); where `strtok` finds no token,
  no argument starts any more (`SplitAtEnd`). `SplitAtCuts` of the invariant says at which blanks `strtok` splits a line, which is
  not at all of them (section 5). `ArgumentsOfLine` claims only what the code and its comment both say: that it is at blanks,
  that nothing else is lost, and that it is at every blank where a quote is open at each (`QuotedBlanks`);
- the path: after each call of `create_path_nodes` the parts found, joined by slashes, are the characters read
  (`PathNodeStep`), without the last one if that is a slash, and as many calls as there are characters reach the end (`PartsOfPath`).

Proved, for screens, buffers and lines of every size, characters of every kind and `malloc` failing anywhere: the invariant,
`LineOnScreen`, `TokenizerRests`, `ArgumentsOfLine`, `PartsJoinToPath`. Proving `LineOnScreen` showed that it was too
strong as first stated: of a line that runs below the last row that is modelled (`Rows`) no cell is known, and it now says so.

**ProcessMemory** (from `ElfFileAssumption` and `ProcessMemoryAssumption`: the heap, the stack and the program lie apart in the
virtual pages, sizes are positive, and no address of the heap is near the last one, so that pointers into an image do not wrap; `config.h` puts the heap last, 12 MB above the start of the program, the model
first, which makes no difference to programs that do not reach it). `ProcessMemoryInv` adds that regions in use share
no block, that what a process names is in use, its own and named once (`HoldsRegions`), and that a writable entry of its
directory is a page of its image, its stack, or, at its own address, of an allocation (`WritesHeld`). The last part is what
`process_free` depends on: it takes the rights away at the address of the allocation and nowhere else. Proved: the
invariant, `WritesOnlyOwnPages`, `RegionsAreReferenced`, `AllocationsDiffer`, `ReleasesOnlyOwn`. A first
attempt at the proof failed on a segment of no bytes that begins inside a page behind the end of the file: `process_map_elf`
still maps one page for it. `SegmentsInFile` now covers it, and so does a file of the run.

**DiskStreamer, Fat16Directory** (from `DiskStreamerAssumption`, `Fat16DirectoryAssumption`: the size of an item divides that of a
sector, and the bound `MaxCount` is above the items of a directory; `EndMarkAssumption`). `ReadIsLoop`: the recursion of
`diskstreamer_read` comes to the formulas from every position and for every length, by an invariant over its
calls. `DirectoryInv` says in the loop of the count that the used items before the stream are counted, or that the
directory fills its first sector and the stream goes round in it (`CountsSoFar`): in that case the count is wrong,
but it never ends either. Proved: the invariant, `CountsUsed`, `FindsUsed`, `ReadIsLoop`.

**Fat16File** (from `Fat16FileAssumption`). `FileInv` adds that the file fits its chain of clusters. The argument: a piece that
starts with a sector, or ends within one, is delivered whole (`PieceIsWhole`); its offset leads to the cluster its bytes
belong to, as no piece runs into the next cluster (`ClusterOfPiece`); so each block is right (`BlockFromClusterStart`,
`BlockWithinSector`), and a read is its blocks (`RightBlocks`). Proved, for sectors and clusters of every size and
files scattered in any way: the invariant, `BlocksFromClusterStart`, `ReadsWithinSector`.

**Files, Loader** (from `FilesAssumption`, `LoaderAssumption`). `LoaderInv` adds to the properties what holds at each stage of a
load: which descriptor it holds, that the others are as before, and what it knows of the file (`LoadProgress`). Proved, for
every disk, every number of descriptors and every order of other calls between loads: the invariant,
`DescriptorsOwnPrivates`, `CallsAreLocal`, `LoadRestoresTable`, `OutcomeFitsFile`, `LoadDefined`.

**NaturalNumbers.** Induction is done over a set, the numbers that have the property (`SetInduction`), since the
library's induction theorems take an operator. `LoopRuns` shows that a function defined by recursion over `0 .. N`
exists, and `LoopInduction` what holds after its turns: so what `ScanLoop`, `ReadLoop`, `print` and
`create_path_nodes` compute can be proved although they are recursive functions. The rest is about quotients and remainders.

Only model-checked: liveness (`ProgramsReturnUnlessDividing`, `WaitingKeyIsRead`, `CountEnds`), which needs fairness and ENABLED.
The definitions `TypeOK`, `Disjoint`,
`CurrentProcessRegistered` and `SlotsNeverOverwritten` are proved and need no run.

## 5. Where the code and its comments disagree

Shown by a run:

- **heap_pool** (`heap.c`, `heap_get_start_block`): the start of the last free run is
  returned even when it is too short, so the region leaves the pool and bytes after the
  table are written.
- **tasks_dangling** (`task.c`, `task_list_remove`): the successor of a removed task keeps
  its `prev`, which then points to freed memory; a removal of the successor writes through it. It
  needs a task that ends before one started after it, such as a launching program that exits.
- **fat16_directory_long** (`streamer.c`, `fat16_get_total_items_for_directory`): reading the last item of a
  sector moves the stream back to the second one, and the count of a directory with 16
  or more items never ends.

Visible in the definitions, without a run of their own:

- With nested shells `current_process` becomes the process of the lowest slot while another task runs, so keys go to
  one process and are awaited by another, though the comment calls it "the current process that is running"
  (`process_unlink`; `KeysToRunningWithOneShell` says when it does not happen).
- A division by zero is answered by a message and a return to the division: the gate is set to `int_0_handler` after the
  loop that set it to the handler with the callback, so the callback for interrupt 0 is never reached
  (`SystemCalls!int_0_handler`; hence the exception in `ProgramsReturnUnlessDividing`).
- `restore_general_purpose_registers` pops the kernel's `ebp` over the task's. The wrappers of the library do not use
  `ebp` after `int 0x80`, so no caller sees it (`CallsPreserveRegisters`).
- `liebeos_parse_command` says "split the command by space", but `strtok` ends a token at a blank only while a quote is
  open, and a quote left open counts in the next line (`EndsToken`, `SplitAtCuts`; `ArgumentsOfLine` is limited to where the two agree).
- A `malloc` that fails in the middle of a line leaves `sp` there, and the next line is read from that place
  (`TokenizerRests`). The shell frees no argument, so it comes to that.
- A backspace in an empty line erases a character of the prompt and becomes part of the line (`LineOnScreen`).
- The terminal never scrolls (`Terminal`).
- `process_map_elf` maps `p_memsz` bytes whatever the size of the file (`SegmentsInFile`).
- `process_terminate` keeps the process structure, `elf_load` the `elf_file` and the memory of a file it has refused, and a failed load what it took
  (`Lost` in `ProcessMemory`); a fault inside `copy_string_from_task` keeps its buffer.
- A size of 0, or within 4095 of 2^32, becomes 0 blocks: a pointer is returned and
  nothing is marked (`Heap!TotalBlocks`; excluded by `NonEmptyRequests`).
- After an exit `current_task` is moved on twice, by `task_list_remove` and by `task_next`, so
  one task is passed over (`Tasks!process_terminate_and_next`).
- `keyboard_push` never compares `tail` with `head`: a key too many overwrites the oldest, and after the pops
  that follow a zero byte hides keys still counted (`Keyboard`, with `MaxUnread` above `Size`).
- A scan code equal to the size of the table reads the byte behind it (`Keyboard!BytesBehind`); the properties of the queues hold
  whichever byte it is, and none says which key it stands for.
- `diskstreamer_read` continues with `total - 512` after a partial first sector: a
  read that starts inside a sector and crosses its end is cut short (`DiskStreamer!Delivered`).
- SEEK_END returns a value and leaves the position (`Fat16File!fat16_seek`); the end marks
  tested are those of FAT12 (`Marks`).
- The search of a directory stops after as many items as are used, though deleted items keep
  their places (`FindsUsed`).
- The last file descriptor is handed out and refused by every other call
  (`Files!file_get_descriptor`; hence the exception in `LoadRestoresTable`).
- Behind a part missing in a subdirectory the lookup goes on with a null item (`LeadsNowhere`).
- A failed `fopen` keeps the private structure; the nodes of a parsed path are never freed
  (the former is modelled, the latter is not).
- `process_load_for_slot` tests the wrong variable for want of memory.

## 6. Not modelled

The two levels of the page tables as such (a directory is one function) and tables of their own; the fields of ELF files
that nothing reads, and the base and end addresses the loader computes and nobody uses; the case of file names; the FAT16 header; the
ATA driver (a sector read is taken to succeed); colours; the greeting of the shell; `printf` and `itoa`, formatting that only the program `blank` calls; descriptor tables and the
boot loader, which run once before any of this state exists. File contents and names are atoms where no property is about them.
A string system call 7 copies by physical address (`strncpy(path + 3, ..., sizeof(path))`) is taken to be shorter than the path
buffer. In `CommandLine` a program whose arguments cannot be allocated (`process_inject_arguments`) counts as one that cannot be
started; what becomes of its process is in `Tasks`. The heap in `ProcessMemory` answers null when it is full, where `heap_get_start_block` may hand out a run that is
too short: that is the subject of `Heap`.

## 7. Plan

Every safety property of a passing run has a theorem. What could follow:

1. A load of `ProcessMemory` as several steps, one per `kmalloc`, so that its regions implement `Allocator` step by step;
   as one step it takes several regions at once, and only their disjointness is stated.
2. `Keyboard` and `CommandLine` composed, with the keys of the shell taken from its queue.
