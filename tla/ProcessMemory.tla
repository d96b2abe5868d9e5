---------------------------- MODULE ProcessMemory ----------------------------
(***************************************************************************)
(* The memory of processes (src/task/process.c, src/isr80h/heap.c,          *)
(* src/memory/paging/paging.c): what process_load takes from the kernel     *)
(* heap, the malloc and free system calls, the buffer a string is copied to *)
(* and what process_terminate gives back, together with every page          *)
(* directory: which page each virtual page stands for, and the rights.      *)
(*                                                                         *)
(* A block of the heap is a page.  A process sees every page at its own     *)
(* address, readable; its stack and its program lie at the addresses        *)
(* programs are linked to.                                                  *)
(***************************************************************************)
EXTENDS Integers, FiniteSets, Sequences, ElfFile

CONSTANTS
  Total,            \* number of blocks of the heap; addresses start at 1
  MaxProcesses,     \* LIEBE_OS_MAX_PROCESSES
  MaxAllocations,   \* LIEBE_OS_MAX_PROGRAM_ALLOCATIONS
  Images,           \* program files
  ProgramPage,      \* LIEBE_OS_PROGRAM_VIRTUAL_ADDRESS, as a page
  ProgramPages,     \* bound: the pages from there on that are modelled
  StackPage,        \* LIEBE_OS_PROGRAM_VIRTUAL_STACK_ADDRESS_END, as a page
  StackBlocks,      \* LIEBE_OS_USER_PROGRAM_STACK_SIZE, in blocks
  ProcessBlocks,    \* the process structure
  ElfFileBlocks,    \* struct elf_file
  TaskBlocks,       \* the task structure, its page directory and page tables
  Sizes             \* sizes passed to malloc, in blocks

\* The heap, the stack and the program lie apart.  (In config.h the heap comes last,
\* 12 MB above the start of the program; a program is taken not to reach it.)
\* The heap ends below the last address.
ASSUME ProcessMemoryAssumption ==
  /\ Total \in Nat
  /\ MaxProcesses \in Nat \ {0}
  /\ MaxAllocations \in Nat \ {0}
  /\ Images \subseteq Files
  /\ StackPage \in Nat /\ ProgramPage \in Nat
  /\ StackPage > Total /\ ProgramPage >= StackPage + StackBlocks
  /\ StackBlocks \in Nat \ {0} /\ ProgramPages \in Nat
  /\ ProcessBlocks \in Nat \ {0} /\ ElfFileBlocks \in Nat \ {0} /\ TaskBlocks \in Nat \ {0}
  /\ Sizes \subseteq Nat \ {0}
  /\ (Total + 1) * PageSize < WordSize

Addresses == 1 .. Total
Slots == 0 .. (MaxProcesses - 1)
VirtualPages == Addresses \cup (StackPage .. (ProgramPage + ProgramPages - 1))
Indices == 0 .. (MaxAllocations - 1)

NoPtr == 0                                  \* the null pointer
NoAllocation == [ptr |-> NoPtr, blocks |-> 0]
Unloaded == [image |-> NoPtr]               \* a free slot of `processes'
Lost == -1                                  \* the owner of what nobody points to

VARIABLES
  live,        \* the regions of the heap in use, and whom they were taken for
  processes,   \* by slot: file, what is held on the heap, page directory and allocations
  undefined    \* whether a null pointer has been used

vars == <<live, processes, undefined>>

Heap == INSTANCE Allocator WITH BlockCounts <- 1 .. Total

Loaded(p) == processes[p] /= Unloaded
-----------------------------------------------------------------------------
(* The heap: the first run of free blocks that is long enough, or null. *)

Fits(regions, n, a) ==
  /\ a + n - 1 <= Total
  /\ \A r \in regions : r.ptr + r.blocks <= a \/ a + n <= r.ptr

kzalloc(regions, n) ==
  LET fitting == {a \in Addresses : Fits(regions, n, a)}
  IN  IF fitting = {} THEN NoPtr ELSE CHOOSE a \in fitting : \A b \in fitting : a <= b

Region(a, n, p) == [ptr |-> a, blocks |-> n, owner |-> p]

kfree(regions, a) == {r \in regions : r.ptr /= a}
-----------------------------------------------------------------------------
(* The page directory. *)

Entry(page, right) == [page |-> page, right |-> right]

\* create_new_page_directory: every page at its own address, read only.
create_new_page_directory == [v \in VirtualPages |-> Entry(v, "read")]

\* paging_map_to: n pages from page phys on, seen from page virt on.
paging_map_to(dir, virt, phys, n, right) ==
  [v \in VirtualPages |->
     IF v \in virt .. (virt + n - 1) THEN Entry(phys + v - virt, right) ELSE dir[v]]

\* A segment that paging_map_to refuses.
Refused(file, image) ==
  \E i \in DOMAIN file.segments : PageCount(image, file.segments[i]) < 0

\* process_map_elf: all program headers in their order, of whatever type; a later
\* one replaces the pages it shares with an earlier one.
process_map_elf(dir, file, image) ==
  LET mapped[i \in 0 .. Len(file.segments)] ==
        IF i = 0 THEN dir
        ELSE LET s == file.segments[i]
             IN  paging_map_to(mapped[i - 1], paging_align_to_lower_page(s.vaddr),
                               FirstPage(image, s), PageCount(image, s),
                               IF s.writable THEN "write" ELSE "read")
  IN  mapped[Len(file.segments)]

process_map_binary(dir, file, image) ==
  paging_map_to(dir, ProgramPage, image, BlocksOfFile(file), "write")

\* process_map_memory: the program and its stack.
process_map_memory(file, image, stack) ==
  LET with_image == IF elf_validate_loaded(file)
                      THEN process_map_elf(create_new_page_directory, file, image)
                      ELSE process_map_binary(create_new_page_directory, file, image)
  IN  paging_map_to(with_image, StackPage, stack, StackBlocks, "write")
-----------------------------------------------------------------------------
Init ==
  /\ live = {}
  /\ processes = [p \in Slots |-> Unloaded]
  /\ undefined = FALSE

\* The first free slot, as a set.
process_get_free_slot ==
  {p \in Slots : ~Loaded(p) /\ \A q \in 0 .. (p - 1) : Loaded(q)}

\* process_load_for_slot: the process, the elf_file and the memory elf_load reads
\* the file to, the stack and the task, in this order.  When the file is no ELF
\* program nobody points to the elf_file and that memory any more, and
\* process_load_binary reads the file again, to an image of its own.  The file may
\* be missing or unreadable, each time.  The process, the elf_file, the memory
\* of elf_load and the task are used without a test for null.  Whatever the load
\* has taken is lost when it fails, the task excepted.
process_load(p, file) ==
  LET elf == elf_validate_loaded(file)
      keeper == IF elf THEN p ELSE Lost
      blocks == BlocksOfFile(file)
      process == kzalloc(live, ProcessBlocks)
      with_process == live \cup {Region(process, ProcessBlocks, p)}
      elf_file == kzalloc(with_process, ElfFileBlocks)
      with_elf_file == with_process \cup {Region(elf_file, ElfFileBlocks, keeper)}
      memory == kzalloc(with_elf_file, blocks)
      with_memory == with_elf_file \cup {Region(memory, blocks, keeper)}
      image == IF elf THEN memory ELSE kzalloc(with_memory, blocks)
      with_image == with_memory \cup {Region(image, blocks, p)}
      stack == kzalloc(with_image, StackBlocks)
      with_stack == with_image \cup {Region(stack, StackBlocks, p)}
      task == kzalloc(with_stack, TaskBlocks)
      Fails(regions) ==
        /\ live' = live \cup {[r EXCEPT !.owner = Lost] : r \in regions \ live}
        /\ UNCHANGED <<processes, undefined>>
      Misused == undefined' = TRUE /\ UNCHANGED <<live, processes>>
  IN  \/ process /= NoPtr /\ elf_file = NoPtr /\ Fails(with_process)
      \/ process /= NoPtr /\ elf_file /= NoPtr /\
           \/ Fails(with_elf_file)
           \/ memory /= NoPtr /\ Fails(with_memory)
           \/ memory /= NoPtr /\ image /= NoPtr /\ Fails(with_image)
      \/ IF process = NoPtr \/ elf_file = NoPtr \/ memory = NoPtr
           THEN Misused
         ELSE IF image = NoPtr
           THEN Fails(with_memory)
         ELSE IF stack = NoPtr
           THEN Fails(with_image)
         ELSE IF task = NoPtr
           THEN Misused
         ELSE IF elf /\ Refused(file, image)
           THEN Fails(with_stack)
         ELSE /\ live' = with_stack \cup {Region(task, TaskBlocks, p)}
              /\ processes' = [processes EXCEPT ![p] =
                   [process |-> process, file |-> file,
                    elf_file |-> IF elf THEN elf_file ELSE NoPtr,
                    image |-> image, stack |-> stack, task |-> task,
                    directory |-> process_map_memory(file, image, stack),
                    allocations |-> [i \in Indices |-> NoAllocation]]]
              /\ UNCHANGED undefined

\* The first free entry of the table of allocations, as a set.
process_find_free_allocation_index(p) ==
  {i \in Indices : /\ processes[p].allocations[i].ptr = NoPtr
                   /\ \A j \in 0 .. (i - 1) : processes[p].allocations[j].ptr /= NoPtr}

\* process_malloc, for system call 4 and for the arguments of a program.
process_malloc(p, n) ==
  LET a == kzalloc(live, n)
  IN  IF a = NoPtr \/ process_find_free_allocation_index(p) = {}
        THEN UNCHANGED vars
        ELSE \E i \in process_find_free_allocation_index(p) :
               /\ live' = live \cup {Region(a, n, p)}
               /\ processes' = [processes EXCEPT
                    ![p].directory = paging_map_to(@, a, a, n, "write"),
                    ![p].allocations[i] = [ptr |-> a, blocks |-> n]]
               /\ UNCHANGED undefined

\* The entry of the table with the pointer, as a set.  The null pointer is that
\* of every free entry.
is_current_process_ptr(p, a) ==
  {i \in Indices : /\ processes[p].allocations[i].ptr = a
                   /\ \A j \in 0 .. (i - 1) : processes[p].allocations[j].ptr /= a}

\* Mutant: a pointer that is not in the table is freed all the same.
process_free_unchecked(p, a) ==
  /\ live' = kfree(live, a)
  /\ processes' = [processes EXCEPT ![p].allocations =
       [i \in Indices |-> IF i \in is_current_process_ptr(p, a) THEN NoAllocation ELSE @[i]]]
  /\ UNCHANGED undefined

\* Mutant: the entry of the table is not cleared.
process_free_keeps_entry(p, a) ==
  \E i \in is_current_process_ptr(p, a) :
    /\ processes' = [processes EXCEPT
         ![p].directory = paging_map_to(@, a, a, processes[p].allocations[i].blocks, "none")]
    /\ live' = kfree(live, a)
    /\ UNCHANGED undefined

\* process_free: a pointer that is not in the table is ignored.
process_free(p, a) ==
  \E i \in is_current_process_ptr(p, a) :
    LET allocation == processes[p].allocations[i]
    IN  /\ processes' = [processes EXCEPT
             ![p].directory = paging_map_to(@, a, a, allocation.blocks, "none"),
             ![p].allocations[i] = NoAllocation]
        /\ live' = kfree(live, a)
        /\ UNCHANGED undefined

\* What a process points to.
AllocationsOf(p) == {processes[p].allocations[i].ptr : i \in Indices} \ {NoPtr}

\* Mutant: the elf_file is not given back.
elf_close_keeps_file(own) == {own.image}

\* The image of a program, and the elf_file if it is an ELF program.
elf_close(own) == {own.image, own.elf_file}

\* process_terminate: the allocations, the program, the stack and the task.  The
\* process structure is not given back: nothing points to it any more.
Released(regions, p) ==
  LET own == processes[p]
      freed == {r \in regions :
                  r.ptr \notin AllocationsOf(p) \cup elf_close(own) \cup {own.stack, own.task}}
  IN  {IF r.ptr = own.process THEN [r EXCEPT !.owner = Lost] ELSE r : r \in freed}

process_terminate(p) ==
  /\ live' = Released(live, p)
  /\ processes' = [processes EXCEPT ![p] = Unloaded]
  /\ UNCHANGED undefined

\* Mutant: the entry of the buffer is not set back.
copy_string_from_task_stays_mapped(p, v) ==
  LET tmp == kzalloc(live, 1)
      dir == processes[p].directory
      mapped == paging_map_to(dir, tmp, tmp, 1, "write")
  IN  IF tmp = NoPtr
        THEN UNCHANGED vars
        ELSE /\ processes' = [processes EXCEPT ![p].directory = mapped]
             /\ UNCHANGED <<live, undefined>>

\* copy_string_from_task, for the print system call with a string on page v: a
\* buffer of the kernel is made writable for the program, the string is copied
\* under the program's page directory, and the entry is set back before the
\* buffer is freed.  A string on a page that is not present, such as one the
\* program has freed, raises an exception in the kernel: the program ends and
\* the buffer is lost.
copy_string_from_task(p, v) ==
  LET tmp == kzalloc(live, 1)
      dir == processes[p].directory
      mapped == paging_map_to(dir, tmp, tmp, 1, "write")
      restored == [mapped EXCEPT ![tmp] = dir[tmp]]
  IN  IF tmp = NoPtr
        THEN UNCHANGED vars
      ELSE IF mapped[v].right = "none"
        THEN /\ live' = Released(live \cup {Region(tmp, 1, Lost)}, p)
             /\ processes' = [processes EXCEPT ![p] = Unloaded]
             /\ UNCHANGED undefined
      ELSE /\ processes' = [processes EXCEPT ![p].directory = restored]
           /\ UNCHANGED <<live, undefined>>

Next ==
  \/ ~undefined /\ \E p \in process_get_free_slot, file \in Images : process_load(p, file)
  \/ ~undefined /\ \E p \in Slots, n \in Sizes : Loaded(p) /\ process_malloc(p, n)
  \/ ~undefined /\ \E p \in Slots, a \in Addresses \cup {NoPtr} : Loaded(p) /\ process_free(p, a)
  \/ ~undefined /\ \E p \in Slots : Loaded(p) /\ process_terminate(p)
  \/ ~undefined /\ \E p \in Slots, v \in VirtualPages : Loaded(p) /\ copy_string_from_task(p, v)
  \/ undefined /\ UNCHANGED vars

Spec == Init /\ [][Next]_vars
-----------------------------------------------------------------------------
(* Properties. *)

\* The pages a process can write to, wherever it sees them.
Writable(p) ==
  LET dir == processes[p].directory
  IN  {dir[v].page : v \in {u \in VirtualPages : dir[u].right = "write"}}

OwnedPages(p) == UNION {Heap!BlocksOf(r) : r \in {s \in live : s.owner = p}}

\* A process can write to no page but its own: neither to one of another process
\* nor to a page table or a buffer of the kernel, nor to a page it has freed and
\* that is someone else's now.  Provided the segments of the program lie in its
\* file: process_map_elf maps p_memsz bytes of memory, whatever follows the file.
WritesOnlyOwnPages ==
  \A p \in Slots :
    (Loaded(p) /\ (elf_validate_loaded(processes[p].file) => SegmentsInFile(processes[p].file)))
      => Writable(p) \subseteq OwnedPages(p)

\* What the structure of a process points to on the heap, and the structure itself.
Structures(own) == {own.process, own.elf_file, own.image, own.stack, own.task} \ {NoPtr}

\* What is passed to kfree sooner or later, and the process structure.
References(p) == IF Loaded(p) THEN AllocationsOf(p) \cup Structures(processes[p]) ELSE {}

\* The regions taken for a process are those it points to: none is lost while it
\* runs, none but its process structure stays behind when it has ended ("need to
\* clean the assigned memory"), and every pointer it will free is one of a region
\* in use that no one else will free.  (Two regions are nobody's as soon as they
\* are taken and never come back: the elf_file and the memory elf_load has read a
\* file to that is no ELF program.  Nor does what a load that fails has taken.)
RegionsAreReferenced ==
  \A p \in Slots : {r.ptr : r \in {s \in live : s.owner = p}} = References(p)

\* Two entries of the table never name the same region: none is freed twice.
AllocationsDiffer ==
  \A p \in {q \in Slots : Loaded(q)} : \A i, j \in Indices :
    (i /= j /\ processes[p].allocations[i].ptr = processes[p].allocations[j].ptr)
      => processes[p].allocations[i] = NoAllocation

\* A system call of one process releases no region of another.
ReleasesOnlyOwn ==
  [][\A r \in live \ live' : r.owner \in Slots /\ processes[r.owner]' /= processes[r.owner]]_vars
-----------------------------------------------------------------------------
(* The inductive invariant. *)

Regions == [ptr : Addresses, blocks : Nat \ {0}, owner : Slots \cup {Lost}]
Entries == [page : Int, right : {"none", "read", "write"}]
Allocations == [ptr : Addresses \cup {NoPtr}, blocks : Nat]
ProcessRecords ==
  [process : Addresses, file : Images, elf_file : Addresses \cup {NoPtr},
   image : Addresses, stack : Addresses, task : Addresses,
   directory : [VirtualPages -> Entries], allocations : [Indices -> Allocations]]

\* The types of the heap's regions and of the processes.
TypeOK ==
  /\ live \subseteq Regions
  /\ processes \in [Slots -> ProcessRecords \cup {Unloaded}]
  /\ undefined \in BOOLEAN

\* Regions in use share no block.
RegionsApart(regions) ==
  \A r, s \in regions : r /= s => Heap!BlocksOf(r) \cap Heap!BlocksOf(s) = {}

\* What a process will give back, or leave behind, is in use, its own, of the
\* size it takes it to be of, and named once.
HoldsRegions(p) ==
  LET own == processes[p]
  IN  /\ Region(own.process, ProcessBlocks, p) \in live
      /\ own.elf_file /= NoPtr => Region(own.elf_file, ElfFileBlocks, p) \in live
      /\ Region(own.image, BlocksOfFile(own.file), p) \in live
      /\ Region(own.stack, StackBlocks, p) \in live
      /\ Region(own.task, TaskBlocks, p) \in live
      /\ own.process \notin {own.elf_file, own.image, own.stack, own.task}
      /\ own.elf_file \notin {own.image, own.stack, own.task}
      /\ own.image \notin {own.stack, own.task}
      /\ own.stack /= own.task
      /\ \A i \in Indices :
           LET a == own.allocations[i]
           IN  \/ a = NoAllocation
               \/ /\ Region(a.ptr, a.blocks, p) \in live
                  /\ a.ptr \notin Structures(own)

\* The writable entries of a page directory: pages of the image or the stack,
\* wherever they are seen, and pages of an allocation at their own address.
WritesHeld(p) ==
  LET own == processes[p]
  IN  \A v \in VirtualPages : own.directory[v].right = "write" =>
        \/ own.directory[v].page \in own.image .. (own.image + BlocksOfFile(own.file) - 1)
        \/ own.directory[v].page \in own.stack .. (own.stack + StackBlocks - 1)
        \/ /\ own.directory[v].page = v
           /\ \E i \in Indices :
                LET a == own.allocations[i] IN v \in a.ptr .. (a.ptr + a.blocks - 1)

ProcessMemoryInv ==
  /\ TypeOK
  /\ RegionsApart(live)
  /\ \A p \in Slots : Loaded(p) => HoldsRegions(p)
  /\ \A p \in Slots :
       (Loaded(p) /\ (elf_validate_loaded(processes[p].file) => SegmentsInFile(processes[p].file)))
         => WritesHeld(p)
  /\ RegionsAreReferenced
  /\ AllocationsDiffer
=============================================================================
