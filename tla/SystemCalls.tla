----------------------------- MODULE SystemCalls -----------------------------
(***************************************************************************)
(* How programs enter and leave the kernel: the wrappers of the standard    *)
(* library (programs/stdlib/src/liebeos.asm), the interrupt stubs and their *)
(* handlers (src/idt/idt.asm, idt.c), the registers a task is saved to and  *)
(* resumed from (src/task/task.c, task.asm) and the page directory in use   *)
(* (src/kernel/kernel.c, src/memory/paging/paging.c).                       *)
(*                                                                         *)
(* The module Tasks decides which task runs next: a command or an exception *)
(* is a step of Tasks between the entry to the kernel and the way out.      *)
(*                                                                         *)
(* Of the registers, ebx stands for ecx, edx, esi and edi too, esp counts   *)
(* the words on the stack of the program, and ip is a place in its code.    *)
(***************************************************************************)
EXTENDS Tasks

CONSTANTS
  Values,        \* what programs keep in registers and pass as arguments
  KernelStack,   \* an address of the kernel's stack
  Garbage,       \* a word from memory that is not the stack of the task
  Registered80,  \* the commands of isr80h_register_commands
  Commands,      \* the commands programs ask for
  Callbacks,     \* interrupts with a callback that returns: clock and keyboard
  Exceptions,    \* interrupts whose callback is idt_handle_exception
  Silent,        \* interrupts without a callback
  Dividing       \* the programs that divide by zero

ASSUME SystemCallsAssumption ==
  /\ Values \subseteq Nat \ {0}
  /\ KernelStack \in Nat /\ Garbage \in Nat
  /\ {0, 2, 4, 6, 7, 9} \subseteq Registered80
  /\ Commands \subseteq Nat /\ Callbacks \cup Exceptions \cup Silent \subseteq Nat
  /\ Callbacks \cap Exceptions = {} /\ Silent \cap (Callbacks \cup Exceptions) = {}
  /\ Dividing \subseteq Programs

KernelDirectory == NULL    \* page_directory_obj, the directory of the kernel

VARIABLES
  cpu,         \* the registers
  interrupts,  \* the interrupt flag
  segments,    \* whose data segment ds, es, fs and gs select
  directory,   \* the page directory in cr3: a task's, or the kernel's
  registers,   \* task->registers
  stack,       \* the two topmost words on the stack of a program in a wrapper
  kernel,      \* what the kernel is at: the frame, the number and the result
  calls        \* the last call of each task: command and value in ebx and ebp

context == <<cpu, interrupts, segments, directory, registers, stack, kernel, calls>>
systemVars == <<vars, context>>

\* Depths of the stack: in main, and in a wrapper after its pushes.
InMain == 1
Pushed(command) == IF command \in {2, 9} THEN 3 ELSE 4

NoCall == [command |-> 0, value |-> 0]
EmptyStack == [d \in {3, 4} |-> 0]
Zero == [eax |-> 0, ebx |-> 0, ebp |-> 0, esp |-> 0, ip |-> "none"]
InUserCode == [point |-> "none", number |-> 0, frame |-> Zero, result |-> 0]

UserMode == mode = "user" /\ kernel.point = "none"
-----------------------------------------------------------------------------
(* Registers of a task. *)

\* task_init: a zeroed structure, the entry point and the top of the stack.
task_init == [Zero EXCEPT !.ip = "_start"]

\* Mutant: the frame goes to the task of current_process.
task_save_state_current_process(t, frame) ==
  [registers EXCEPT ![processes[current_process].task] = frame]

task_save_state(t, frame) == [registers EXCEPT ![t] = frame]

\* restore_general_purpose_registers loads ebp and then pops the kernel's ebp
\* over it.
restore_general_purpose_registers(saved) == [saved EXCEPT !.ebp = KernelStack]

\* task_return: iretd with the saved registers and the interrupt flag set.
task_return(saved) ==
  /\ cpu' = restore_general_purpose_registers(saved)
  /\ segments' = "user"
  /\ interrupts' = TRUE

\* Mutant: the directory stays as it is.
kernel_page_registers_only == segments' = "kernel" /\ directory' = directory

kernel_page == segments' = "kernel" /\ directory' = KernelDirectory

\* task_page: user_registers and task_switch(current_task).
task_page == segments' = "user" /\ directory' = Running

\* Mutant: the index is counted from the wrong end.
task_get_stack_item_up(t, index) ==
  LET depth == registers[t].esp + index
  IN  IF depth \in DOMAIN stack[t] THEN stack[t][depth] ELSE Garbage

\* task_get_stack_item: the page directory of the task is used for the read
\* and the kernel's is back afterwards.
task_get_stack_item(t, index) ==
  LET depth == registers[t].esp - index
  IN  IF depth \in DOMAIN stack[t] THEN stack[t][depth] ELSE Garbage
-----------------------------------------------------------------------------
(* Programs. *)

\* _start and main_wrapper, up to the function main.
start(v) ==
  /\ UserMode /\ cpu.ip = "_start"
  /\ cpu' = [cpu EXCEPT !.ip = "main", !.esp = InMain, !.ebx = v, !.ebp = v]
  /\ calls' = [calls EXCEPT ![Running] = [command |-> 0, value |-> v]]
  /\ UNCHANGED <<vars, interrupts, segments, directory, registers, stack, kernel>>

\* A program reaches a division by zero.
divide ==
  /\ UserMode /\ cpu.ip = "main" /\ program(Running) \in Dividing
  /\ cpu' = [cpu EXCEPT !.ip = "div"]
  /\ UNCHANGED <<vars, interrupts, segments, directory, registers, stack, kernel, calls>>

\* What the shipped programs ask for.
Asks(command) ==
  /\ command \in {6, 7} => program(Running) \in Launchers
  /\ command = 9 => program(Running) \in Terminating

\* The registers at int 0x80 in a wrapper called with the value v.
AtInt80(command, v) ==
  [eax |-> command, ebx |-> v, ebp |-> 3, esp |-> Pushed(command), ip |-> "int 0x80"]

\* The end of a wrapper: the argument is dropped, ebp popped, ret.
wrapper_return ==
  /\ UserMode /\ cpu.ip = "int 0x80"
  /\ LET depth == IF cpu.esp = 4 THEN cpu.esp - 1 ELSE cpu.esp
     IN  cpu' = [cpu EXCEPT !.ebp = IF depth = 3 THEN stack[Running][3] ELSE Garbage,
                            !.esp = depth - 2, !.ip = "main"]
  /\ UNCHANGED <<vars, interrupts, segments, directory, registers, stack, kernel, calls>>
-----------------------------------------------------------------------------
(* Entries to the kernel.  Every gate is an interrupt gate and clears the *)
(* interrupt flag. *)

\* A program computes v and calls a wrapper, which pushes ebp and the argument
\* v; isr80h_wrapper pushes the registers; isr80h_handler takes the kernel's
\* directory and saves the frame to the current task.
isr80h_wrapper(command, v) ==
  LET frame == AtInt80(command, v)
  IN  /\ UserMode /\ cpu.ip = "main" /\ Asks(command)
      /\ cpu' = Zero
      /\ interrupts' = FALSE
      /\ kernel_page
      /\ stack' = [stack EXCEPT ![Running][3] = v,
                                ![Running][4] = IF Pushed(command) = 4 THEN v ELSE @]
      /\ registers' = task_save_state(Running, frame)
      /\ kernel' = [point |-> "command", number |-> command, frame |-> frame, result |-> 0]
      /\ calls' = [calls EXCEPT ![Running] = [command |-> command, value |-> v]]
      /\ UNCHANGED vars

\* interrupt_handler, up to the callback; without one nothing is saved.  An
\* exception that pushes an error code shifts the frame by a word, which is
\* saved to a task about to end.
interrupt_handler(n) ==
  /\ UserMode
  /\ n \in Exceptions => program(Running) \in Terminating /\ cpu.ip /= "div"
  /\ cpu' = Zero
  /\ interrupts' = FALSE
  /\ kernel_page
  /\ registers' = IF n \in Silent THEN registers ELSE task_save_state(Running, cpu)
  /\ kernel' = [point |-> "interrupt", number |-> n, frame |-> cpu, result |-> 0]
  /\ UNCHANGED <<vars, stack, calls>>

\* int_0_handler prints a message and returns to the division, in the directory
\* and with the segments of the program; the callback registered for interrupt
\* 0 is not reached.
int_0_handler ==
  /\ UserMode /\ cpu.ip = "div"
  /\ UNCHANGED systemVars
-----------------------------------------------------------------------------
(* The kernel. *)

\* Tasks have been started or ended: a new one is initialised, a freed one is no
\* more.
Renewed ==
  /\ registers' = [a \in Addresses |->
                     IF a \notin live' THEN Zero
                     ELSE IF a \notin live THEN task_init ELSE registers[a]]
  /\ stack' = [a \in Addresses |-> IF a \in live /\ a \in live' THEN stack[a] ELSE EmptyStack]
  /\ calls' = [a \in Addresses |-> IF a \in live /\ a \in live' THEN calls[a] ELSE NoCall]

\* The task that is current now is resumed.
Resume ==
  /\ Renewed
  /\ directory' = tasks'.current
  /\ task_return(registers'[tasks'.current])
  /\ kernel' = InUserCode

\* The result for the program that is resumed by leave.
Answer(result) ==
  /\ kernel' = [kernel EXCEPT !.point = "leave", !.result = result]
  /\ UNCHANGED <<cpu, interrupts, segments, directory>>

\* After a step of Tasks: the current task is resumed, or the caller is told of
\* an error, or nothing follows.
ResumeOrFail(error) ==
  \/ mode' = "user" /\ tasks'.current /= tasks.current /\ Resume
  \/ /\ mode' = "user" /\ tasks'.current = tasks.current
     /\ Renewed
     /\ Answer(error)
  \/ mode' /= "user" /\ UNCHANGED context

\* kernel_main and task_run_first_ever_task.
boot ==
  /\ kernel_main
  /\ IF mode' = "user" THEN Resume ELSE UNCHANGED context

\* The commands that return to their caller, by their number.
Results(command) ==
  IF command \notin Registered80 THEN {0}
  ELSE IF command = 0 THEN {task_get_stack_item(Running, 0) + task_get_stack_item(Running, 1)}
  ELSE IF command \in {2, 4} THEN Values \cup {0}
  ELSE {0}

\* isr80h_handle_command.
isr80h_handle_command ==
  /\ mode = "user" /\ kernel.point = "command"
  /\ \/ /\ kernel.number \notin {6, 7, 9}
        /\ \E result \in Results(kernel.number) : Answer(result)
        /\ UNCHANGED <<vars, registers, stack, calls>>
     \/ /\ kernel.number = 6
        /\ \E prog \in Programs : isr80h_command6_process_load_start(prog)
        /\ ResumeOrFail(0)
     \/ /\ kernel.number = 7
        /\ \E prog \in Programs : isr80h_command7_invoke_system_command(prog)
        /\ ResumeOrFail(-1)
     \/ /\ kernel.number = 9
        /\ isr80h_command9_exit
        /\ IF mode' = "user" THEN Resume ELSE UNCHANGED context

\* idt_clock does nothing; the callback of the keyboard changes nothing here.
idt_clock == UNCHANGED vars

\* The callback of an interrupt.
callback ==
  /\ mode = "user" /\ kernel.point = "interrupt"
  /\ \/ /\ kernel.number \in Exceptions
        /\ idt_handle_exception
        /\ IF mode' = "user" THEN Resume ELSE UNCHANGED context
     \/ /\ kernel.number \in Callbacks
        /\ idt_clock
        /\ Answer(kernel.frame.eax)
        /\ UNCHANGED <<registers, stack, calls>>
     \/ /\ kernel.number \in Silent
        /\ Answer(kernel.frame.eax)
        /\ UNCHANGED <<vars, registers, stack, calls>>

\* task_page, popad, the result of a command in eax, and iret: the flags of the
\* program, in which interrupts are enabled, come back with it.
leave ==
  /\ mode = "user" /\ kernel.point = "leave"
  /\ task_page
  /\ cpu' = [kernel.frame EXCEPT !.eax = kernel.result]
  /\ interrupts' = TRUE
  /\ kernel' = InUserCode
  /\ UNCHANGED <<vars, registers, stack, calls>>
-----------------------------------------------------------------------------
SystemInit ==
  /\ Init
  /\ cpu = Zero /\ interrupts = FALSE
  /\ segments = "kernel" /\ directory = KernelDirectory
  /\ registers = [a \in Addresses |-> Zero]
  /\ stack = [a \in Addresses |-> EmptyStack]
  /\ kernel = InUserCode
  /\ calls = [a \in Addresses |-> NoCall]

system_halted == Halted /\ UNCHANGED context

SystemNext ==
  \/ boot
  \/ \E v \in Values : start(v)
  \/ divide
  \/ \E command \in Commands, v \in Values : isr80h_wrapper(command, v)
  \/ wrapper_return
  \/ \E n \in Callbacks \cup Exceptions \cup Silent : interrupt_handler(n)
  \/ int_0_handler
  \/ isr80h_handle_command
  \/ callback
  \/ leave
  \/ system_halted

SystemSpec == SystemInit /\ [][SystemNext]_systemVars

\* The kernel runs on by itself.  Interrupts only delay a program: it leaves its
\* start-up code and its wrappers, and one that ends reaches its exit call.
FairSystemSpec ==
  /\ SystemSpec
  /\ WF_systemVars(isr80h_handle_command \/ callback \/ leave)
  /\ SF_systemVars(\E v \in Values : start(v))
  /\ SF_systemVars(wrapper_return)
  /\ SF_systemVars(\E v \in Values : isr80h_wrapper(9, v))
-----------------------------------------------------------------------------
(* Properties. *)

\* A program runs in the address space of its own task, with its own segments
\* and with interrupts enabled, and the kernel in its own address space: the
\* directory in use is never one that has been freed.
RightAddressSpace ==
  /\ UserMode => directory = Running /\ segments = "user" /\ interrupts
  /\ (mode = "user" /\ ~UserMode) => directory = KernelDirectory /\ ~interrupts

\* A call of the standard library preserves the registers of its caller, also
\* when other programs have run and ended before it returns, and although the
\* kernel resumes a task with an ebp of its own.
CallsPreserveRegisters ==
  (UserMode /\ cpu.ip = "main") =>
    /\ cpu.ebx = calls[Running].value /\ cpu.ebp = calls[Running].value
    /\ cpu.esp = InMain

\* An answer in eax that belongs to a call.
Answers(call, eax) ==
  /\ call.command = 0 => eax = call.value + call.value
  /\ call.command \notin Registered80 => eax = 0
  /\ call.command = 6 => eax \in {0, 6}
  /\ call.command = 7 => eax \in {-1, 7}

\* The answer in eax belongs to the call that returns: a sum is the sum of the
\* two words on top of the caller's stack, an unknown command gives 0, and a
\* program whose call has started another gets the number of the command back.
AnswerFitsCall ==
  (UserMode /\ cpu.ip = "int 0x80") => Answers(calls[Running], cpu.eax)

\* As long as one shell runs, keys go to the process that runs: the process of
\* the lowest slot, which becomes current when a program ends, is the one that
\* is resumed.  With a second shell this is lost for good.
KeysToRunningWithOneShell ==
  (mode = "user" /\ Cardinality({s \in Registered : processes[s].program \in Launchers}) <= 1)
    => CurrentProcessRuns

\* A program that ends gives the processor back to one that launches others,
\* unless it has divided by zero.
ProgramsReturnUnlessDividing ==
  (mode = "user" /\ program(Running) \in Terminating)
    ~> (mode = "user" /\ (program(Running) \in Launchers \/ cpu.ip = "div"))
-----------------------------------------------------------------------------
(* The inductive invariant. *)

Registers ==
  [eax : Int, ebx : Int, ebp : Int, esp : Int,
   ip : {"none", "_start", "main", "div", "int 0x80"}]

Calls == [command : Nat, value : Nat]
Words == [{3, 4} -> Int]
Kernels ==
  [point : {"none", "command", "interrupt", "leave"}, number : Nat,
   frame : Registers, result : Int]

\* The types of the registers and of what the kernel keeps of them.
SystemTypeOK ==
  /\ cpu \in Registers
  /\ registers \in [Addresses -> Registers]
  /\ stack \in [Addresses -> Words]
  /\ calls \in [Addresses -> Calls]
  /\ kernel \in Kernels

\* The registers f of a program with this last call and these words on its
\* stack, wherever it was interrupted or goes on.
Fits(call, words, f) ==
  /\ f.ip = "main" => f.ebx = call.value /\ f.ebp = call.value /\ f.esp = InMain
  /\ f.ip = "int 0x80" =>
       /\ f.ebx = call.value /\ f.esp = Pushed(call.command) /\ words[3] = call.value
       /\ Answers(call, f.eax)

\* The registers f are those of the call.
SavedInCall(call, words, f) ==
  /\ f = AtInt80(call.command, call.value)
  /\ words[3] = call.value
  /\ Pushed(call.command) = 4 => words[4] = call.value

\* A task that waits has not begun, or is inside the call that started another
\* program.
Waits(call, words, f) ==
  f = task_init \/ (SavedInCall(call, words, f) /\ call.command \in {6, 7})

\* Whatever the programs that have been started since have done.
WaitingTasksAreSaved ==
  mode = "user" => \A t \in live \ {Running} : Waits(calls[t], stack[t], registers[t])

\* What is known of the registers of the running program at each point.
RunningTaskFits ==
  LET call == calls[Running]
      words == stack[Running]
  IN  mode = "user" =>
        /\ kernel.point = "none" => Fits(call, words, cpu)
        /\ kernel.point = "command" =>
             /\ SavedInCall(call, words, kernel.frame)
             /\ registers[Running] = kernel.frame /\ kernel.number = call.command
        /\ kernel.point = "interrupt" => Fits(call, words, kernel.frame)
        /\ kernel.point = "leave" =>
             Fits(call, words, [kernel.frame EXCEPT !.eax = kernel.result])

SystemInv ==
  /\ TasksInv /\ SystemTypeOK /\ RightAddressSpace
  /\ WaitingTasksAreSaved /\ RunningTaskFits
=============================================================================
