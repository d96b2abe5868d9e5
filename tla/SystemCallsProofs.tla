------------------------- MODULE SystemCallsProofs -------------------------
(***************************************************************************)
(* Proofs about tasks and processes, for any number of them, any programs   *)
(* and any heap that returns fresh addresses, also when memory runs out;    *)
(* about the list of tasks, with programs like those of the repository; and *)
(* about entering and leaving the kernel, for any commands and interrupts.  *)
(***************************************************************************)
EXTENDS SystemCalls, NaturalNumbers, FiniteSetTheorems, SequenceTheorems

\* Appending a task keeps the types; it becomes the tail.
LEMMA task_newType ==
  ASSUME NEW l \in TaskLists, NEW t \in Addresses, l.head /= NULL, l.tail \in Addresses
  PROVE  /\ task_new(l, t) \in TaskLists
         /\ task_new(l, t).head = l.head
         /\ task_new(l, t).current = l.current
         /\ task_new(l, t).tail = t
         /\ task_new(l, t).next[t] = IF l.tail = t THEN t ELSE NULL
         /\ task_new(l, t).prev[t] = l.tail
  BY DEF task_new, TaskLists, MaybeAddress

\* The first task of all.
LEMMA task_newFirst ==
  ASSUME NEW l \in TaskLists, NEW t \in Addresses, l.head = NULL
  PROVE  /\ task_new(l, t) \in TaskLists
         /\ task_new(l, t).head = t
         /\ task_new(l, t).current = t
  BY DEF task_new, TaskLists, MaybeAddress

LEMMA task_get_nextType ==
  ASSUME NEW l \in TaskLists, l.current \in Addresses
  PROVE  task_get_next(l) \in MaybeAddress
  BY DEF task_get_next, TaskLists

\* Removing a task keeps the types.  When the current task is the head of the
\* list and is removed, the new head and the new current task are the same.
LEMMA task_list_removeType ==
  ASSUME TasksAssumption, NEW l \in TaskLists, NEW t \in Addresses, l.current \in Addresses
  PROVE  /\ task_list_remove(l, t) \in TaskLists
         /\ t /= l.head => task_list_remove(l, t).head = l.head
         /\ t /= l.current => task_list_remove(l, t).current = l.current
         /\ (t = l.current /\ t = l.head)
              => task_list_remove(l, t).current = task_list_remove(l, t).head
<1> DEFINE u == [l EXCEPT !.next = IF l.prev[t] = NULL THEN l.next
                                   ELSE [l.next EXCEPT ![l.prev[t]] = l.next[t]],
                          !.head = IF t = l.head THEN l.next[t] ELSE l.head,
                          !.tail = IF t = l.tail THEN l.prev[t] ELSE l.tail]
<1>1. /\ u \in TaskLists
      /\ u.head = (IF t = l.head THEN l.next[t] ELSE l.head)
      /\ u.current = l.current
      /\ u.next[t] = l.next[t]
  BY DEF TaskLists, MaybeAddress
<1>2. task_list_remove(l, t) = IF t = l.current THEN [u EXCEPT !.current = task_get_next(u)]
                               ELSE u
  BY DEF task_list_remove
<1> HIDE DEF u
<1>3. task_get_next(u) \in MaybeAddress
  BY <1>1, task_get_nextType
<1>4. /\ [u EXCEPT !.current = task_get_next(u)] \in TaskLists
      /\ [u EXCEPT !.current = task_get_next(u)].head = u.head
      /\ [u EXCEPT !.current = task_get_next(u)].current = task_get_next(u)
  BY <1>1, <1>3 DEF TaskLists
<1>5. t = l.current /\ t = l.head => task_get_next(u) = u.head
  BY <1>1 DEF task_get_next
<1> QED BY <1>1, <1>2, <1>4, <1>5

\* An undefined outcome changes nothing the invariant speaks of.
LEMMA UndefinedPreservesTasksInv ==
  ASSUME TasksInv, Undefined PROVE TasksInv'
  BY DEF Undefined, TasksInv, TypeOK, TablesMirror, CurrentProcessRegistered, PanicOnlyWhenEmpty,
         UserListInUse, BootEmpty, Registered, Running

\* A successful load keeps the invariant.
LEMMA process_load_switchPreservesTasksInv ==
  ASSUME TasksInv, NEW prog \in Programs, NEW switch \in BOOLEAN,
         process_load_switch(prog, switch), mode = "user" \/ (mode = "boot" /\ switch)
  PROVE  TasksInv'
<1>1. PICK s \in process_get_free_slot, t \in Addresses \ live :
        IF task_new_defined(tasks)
          THEN /\ tasks' = IF switch THEN task_switch(task_new(tasks, t), t)
                                     ELSE task_new(tasks, t)
               /\ live' = live \cup {t}
               /\ task_process' = [task_process EXCEPT ![t] = s]
               /\ processes' = [processes EXCEPT ![s] = [task |-> t, program |-> prog]]
               /\ current_process' = s
               /\ mode' = "user"
          ELSE Undefined
  BY DEF process_load_switch
<1>2. CASE ~task_new_defined(tasks)
  BY <1>1, <1>2, UndefinedPreservesTasksInv
<1>3. CASE task_new_defined(tasks)
  <2>1. s \in Slots /\ s \notin Registered
    BY <1>1 DEF process_get_free_slot, Registered
  <2>2. /\ task_new(tasks, t) \in TaskLists
        /\ task_new(tasks, t).head \in live \cup {t}
        /\ mode = "user" => task_new(tasks, t).current = Running
    <3>1. CASE tasks.head = NULL
      <4>1. mode = "boot"
        BY <3>1, TasksAssumption DEF TasksInv, TypeOK, UserListInUse
      <4> QED BY <3>1, <4>1, task_newFirst DEF TasksInv, TypeOK
    <3>2. CASE tasks.head /= NULL
      <4>1. mode = "user" /\ tasks.tail \in Addresses
        BY <3>2, <1>3 DEF TasksInv, TypeOK, BootEmpty, task_new_defined
      <4> QED BY <3>2, <4>1, task_newType DEF TasksInv, TypeOK, UserListInUse, Running
    <3> QED BY <3>1, <3>2
  <2>3. /\ tasks' \in TaskLists
        /\ tasks'.head \in live'
        /\ tasks'.current \in live'
    BY <1>1, <1>3, <2>2 DEF TaskLists, MaybeAddress, task_switch, TasksInv, UserListInUse, Running
  <2>4. /\ live' = live \cup {t}
        /\ task_process' = [task_process EXCEPT ![t] = s]
        /\ processes' = [processes EXCEPT ![s] = [task |-> t, program |-> prog]]
        /\ current_process' = s
        /\ mode' = "user"
    BY <1>1, <1>3
  <2>5. [task |-> t, program |-> prog] /= NULL
    BY TasksAssumption
  <2>6. TypeOK'
    BY <2>1, <2>3, <2>4 DEF TasksInv, TypeOK
  <2>7. Registered' = Registered \cup {s}
    BY <2>1, <2>4, <2>5 DEF TasksInv, TypeOK, Registered
  <2>8. TablesMirror'
    <3>1. ASSUME NEW i \in Registered'
          PROVE  processes'[i].task \in live' /\ task_process'[processes'[i].task] = i
      BY <2>1, <2>4, <2>7 DEF TasksInv, TypeOK, TablesMirror, Registered
    <3>2. ASSUME NEW u \in live'
          PROVE  task_process'[u] \in Registered' /\ processes'[task_process'[u]].task = u
      BY <2>1, <2>4, <2>7 DEF TasksInv, TypeOK, TablesMirror, Registered
    <3> QED BY <3>1, <3>2 DEF TablesMirror
  <2> QED BY <2>3, <2>4, <2>6, <2>7, <2>8
          DEF TasksInv, CurrentProcessRegistered, PanicOnlyWhenEmpty, UserListInUse, BootEmpty,
              Running
<1> QED BY <1>2, <1>3

\* A load that fails after the task was created keeps the invariant.
LEMMA process_load_unmappablePreservesTasksInv ==
  ASSUME TasksInv, process_load_unmappable, mode = "user"
  PROVE  TasksInv'
<1>1. PICK s \in process_get_free_slot, t \in Addresses \ live :
        IF task_new_defined(tasks)
          THEN /\ tasks' = task_list_remove(task_new(tasks, t), t)
               /\ task_process' = [task_process EXCEPT ![t] = s]
               /\ UNCHANGED <<live, processes, current_process, mode>>
          ELSE Undefined
  BY DEF process_load_unmappable
<1>2. CASE ~task_new_defined(tasks)
  BY <1>1, <1>2, UndefinedPreservesTasksInv
<1>3. CASE task_new_defined(tasks)
  <2>1. s \in Slots
    BY DEF process_get_free_slot
  <2>2. /\ tasks \in TaskLists
        /\ tasks.head \in live /\ tasks.head /= NULL /\ tasks.tail \in Addresses
        /\ Running \in live /\ live \subseteq Addresses
    BY <1>3, TasksAssumption DEF TasksInv, TypeOK, UserListInUse, task_new_defined
  <2>3. /\ task_new(tasks, t) \in TaskLists
        /\ task_new(tasks, t).head = tasks.head
        /\ task_new(tasks, t).current = Running
    BY <2>2, task_newType DEF Running
  <2>4. /\ tasks' \in TaskLists
        /\ tasks'.head = tasks.head
        /\ tasks'.current = Running
    <3> DEFINE l == task_new(tasks, t)
    <3>1. l.current \in Addresses /\ t /= l.head /\ t /= l.current
      BY <2>2, <2>3
    <3>2. tasks' = task_list_remove(l, t)
      BY <1>1, <1>3
    <3> QED BY <3>1, <3>2, <2>3, TasksAssumption, task_list_removeType
  <2>5. /\ task_process' = [task_process EXCEPT ![t] = s]
        /\ UNCHANGED <<live, processes, current_process, mode>>
    BY <1>1, <1>3
  <2>6. TypeOK'
    BY <2>1, <2>4, <2>5 DEF TasksInv, TypeOK
  <2>7. TablesMirror'
    BY <2>5, <1>1 DEF TasksInv, TypeOK, TablesMirror, Registered
  <2> QED BY <2>2, <2>4, <2>5, <2>6, <2>7
          DEF TasksInv, CurrentProcessRegistered, PanicOnlyWhenEmpty, UserListInUse, BootEmpty,
              Running, Registered
<1> QED BY <1>2, <1>3

\* A table that is not empty has a first process.
LEMMA FirstProcess ==
  ASSUME NEW table, NEW s \in Slots, table[s] /= NULL
  PROVE  \E i \in Slots : table[i] /= NULL /\ \A j \in 0 .. (i - 1) : table[j] = NULL
<1> DEFINE Used == {i \in 0 .. s : table[i] /= NULL}
<1>1. Used \in SUBSET Nat /\ s \in Used
  BY TasksAssumption DEF Slots
<1>2. PICK i \in Used : \A j \in Used : i <= j
  <2>1. PICK i \in Used : \A j \in Used : <<j, i>> \notin OpToRel(<, Nat)
    BY <1>1, NatLessThanWellFounded, WFMin
  <2>2. \A j \in Used : ~(j < i)
    BY <2>1, <1>1 DEF OpToRel
  <2> QED BY <2>2, <1>1
<1>3. i \in Slots /\ table[i] /= NULL
  BY <1>2, TasksAssumption DEF Slots
<1>4. \A j \in 0 .. (i - 1) : table[j] = NULL
  BY <1>2, <1>3, TasksAssumption DEF Slots
<1> QED BY <1>3, <1>4

\* What process_terminate_and_next ends: the process of the running task.
LEMMA EndedProcess ==
  ASSUME TasksInv, mode = "user"
  PROVE  /\ process_of_running \in Registered
         /\ processes[process_of_running].task = Running
         /\ Running \in live /\ Running \in Addresses
         /\ tasks \in TaskLists
         /\ Registered \subseteq Slots
  BY DEF TasksInv, TypeOK, TablesMirror, UserListInUse, process_of_running, Registered

\* Ending the running task keeps the invariant.
LEMMA process_terminate_and_nextPreservesTasksInv ==
  ASSUME TasksInv, process_terminate_and_next, mode = "user"
  PROVE  TasksInv'
<1> DEFINE s == process_of_running
           t == processes[s].task
           table == [processes EXCEPT ![s] = NULL]
           removed == task_list_remove(tasks, t)
           next_task == task_get_next(removed)
           remaining == live \ {t}
           rest == {i \in Slots : table[i] /= NULL}
<1>1. CASE Undefined
  BY <1>1, UndefinedPreservesTasksInv
<1>2. /\ s \in Registered /\ s \in Slots /\ t = Running
      /\ t \in live /\ t \in Addresses /\ tasks \in TaskLists
  BY EndedProcess DEF Registered
<1>3. rest = Registered \ {s}
  BY <1>2, TasksAssumption DEF TasksInv, TypeOK, Registered
<1>4. /\ table \in [Slots -> [task : Addresses, program : Programs] \cup {NULL}]
      /\ \A i \in rest : table[i] = processes[i]
  BY <1>2 DEF TasksInv, TypeOK
<1>5. /\ \A i \in rest : table[i].task \in remaining /\ task_process[table[i].task] = i
      /\ \A u \in remaining : task_process[u] \in rest /\ table[task_process[u]].task = u
  <2>1. ASSUME NEW i \in rest
        PROVE  table[i].task \in remaining /\ task_process[table[i].task] = i
    BY <1>2, <1>3, <1>4 DEF TasksInv, TablesMirror, process_of_running
  <2>2. ASSUME NEW u \in remaining
        PROVE  task_process[u] \in rest /\ table[task_process[u]].task = u
    BY <1>2, <1>3, <1>4 DEF TasksInv, TablesMirror
  <2> QED BY <2>1, <2>2
<1>6. /\ removed \in TaskLists
      /\ t /= tasks.head => removed.head = tasks.head
      /\ t = tasks.head => removed.current = removed.head
  BY <1>2, TasksAssumption, task_list_removeType DEF Running
<1>7. CASE /\ tasks' = removed /\ live' = remaining /\ processes' = table
           /\ mode' = "panic"
           /\ UNCHANGED <<task_process, current_process>>
           /\ NoProcess(table)
  <2>1. rest = {} /\ remaining = {}
    BY <1>5, <1>7 DEF NoProcess
  <2>2. Registered' = {} /\ live' = {}
    BY <1>7, <2>1 DEF Registered
  <2>3. TypeOK'
    BY <1>4, <1>6, <1>7 DEF TasksInv, TypeOK
  <2> QED BY <1>7, <2>2, <2>3
          DEF TasksInv, TablesMirror, CurrentProcessRegistered, PanicOnlyWhenEmpty, UserListInUse,
              BootEmpty
<1>8. CASE /\ ~(current_process = s /\ NoProcess(table))
           /\ removed.current \in remaining /\ next_task \in remaining
           /\ tasks' = task_switch(removed, next_task)
           /\ live' = remaining
           /\ processes' = table
           /\ current_process' = process_unlink(table, s)
           /\ UNCHANGED <<task_process, mode>>
  <2>1. remaining \subseteq Addresses
    BY DEF TasksInv, TypeOK
  <2>2. tasks' \in TaskLists /\ tasks'.head = removed.head /\ tasks'.current = next_task
    BY <1>6, <1>8, <2>1 DEF task_switch, TaskLists, MaybeAddress
  <2>3. removed.head \in remaining
    BY <1>6, <1>8 DEF TasksInv, UserListInUse
  <2>4. current_process' \in rest
    <3>1. CASE current_process = s
      <4>1. \E i \in Slots : table[i] /= NULL /\ \A j \in 0 .. (i - 1) : table[j] = NULL
        BY <1>8, <3>1, FirstProcess DEF NoProcess
      <4>2. process_switch_to_any(table) \in rest
        BY <4>1 DEF process_switch_to_any
      <4> QED BY <3>1, <4>2, <1>8 DEF process_unlink
    <3>2. CASE current_process /= s
      BY <3>2, <1>3, <1>8 DEF process_unlink, TasksInv, CurrentProcessRegistered
    <3> QED BY <3>1, <3>2
  <2>5. TypeOK'
    BY <1>4, <1>8, <2>1, <2>2, <2>4 DEF TasksInv, TypeOK
  <2>6. Registered' = rest
    BY <1>8 DEF Registered
  <2>7. TablesMirror'
    BY <1>5, <1>8, <2>6 DEF TablesMirror
  <2> QED BY <1>8, <2>2, <2>3, <2>4, <2>5, <2>6, <2>7
          DEF TasksInv, CurrentProcessRegistered, PanicOnlyWhenEmpty, UserListInUse, BootEmpty,
              Running
<1> QED BY <1>1, <1>7, <1>8 DEF process_terminate_and_next

LEMMA InitEstablishesTasksInv == Init => TasksInv
<1> SUFFICES ASSUME Init PROVE TasksInv
  OBVIOUS
<1>1. TypeOK
  BY DEF Init, TypeOK, TaskLists, MaybeAddress
<1>2. Registered = {} /\ live = {}
  BY DEF Init, Registered
<1> QED BY <1>1, <1>2 DEF Init, TasksInv, TablesMirror, CurrentProcessRegistered,
                          PanicOnlyWhenEmpty, UserListInUse, BootEmpty

\* A step that changes nothing.
LEMMA StutterPreservesTasksInv ==
  ASSUME TasksInv, UNCHANGED vars PROVE TasksInv'
  BY DEF vars, TasksInv, TypeOK, TablesMirror, CurrentProcessRegistered, PanicOnlyWhenEmpty,
         UserListInUse, BootEmpty, Registered, Running

\* Boot, the three system calls, exceptions and the two ways of standing still.
LEMMA NextPreservesTasksInv ==
  ASSUME TasksInv, [Next]_vars
  PROVE  TasksInv'
<1>1. CASE kernel_main
  <2>1. CASE process_load_switch(Shell, TRUE)
    BY <1>1, <2>1, process_load_switchPreservesTasksInv, TasksAssumption DEF kernel_main
  <2>2. CASE mode' = "panic" /\ UNCHANGED <<tasks, live, task_process, processes, current_process>>
    BY <1>1, <2>2 DEF kernel_main, TasksInv, TypeOK, TablesMirror, CurrentProcessRegistered,
                      PanicOnlyWhenEmpty, UserListInUse, BootEmpty, Registered
  <2>3. CASE process_load_without_memory
    BY <2>3, UndefinedPreservesTasksInv DEF process_load_without_memory
  <2> QED BY <1>1, <2>1, <2>2, <2>3 DEF kernel_main
<1>2. ASSUME NEW prog \in Programs, isr80h_command6_process_load_start(prog)
      PROVE  TasksInv'
  BY <1>2, process_load_switchPreservesTasksInv, process_load_unmappablePreservesTasksInv,
     UndefinedPreservesTasksInv, StutterPreservesTasksInv
     DEF isr80h_command6_process_load_start, Launches, process_load_without_memory,
         process_load_fails
<1>3. ASSUME NEW prog \in Programs, isr80h_command7_invoke_system_command(prog)
      PROVE  TasksInv'
  BY <1>3, process_load_switchPreservesTasksInv, process_load_unmappablePreservesTasksInv,
     UndefinedPreservesTasksInv, StutterPreservesTasksInv
     DEF isr80h_command7_invoke_system_command, Launches, process_load_without_memory,
         process_load_fails
<1>4. CASE isr80h_command9_exit
  BY <1>4, process_terminate_and_nextPreservesTasksInv DEF isr80h_command9_exit
<1>5. CASE idt_handle_exception
  BY <1>5, process_terminate_and_nextPreservesTasksInv DEF idt_handle_exception
<1>6. CASE Halted \/ UNCHANGED vars
  BY <1>6, StutterPreservesTasksInv DEF Halted
<1> QED BY <1>1, <1>2, <1>3, <1>4, <1>5, <1>6 DEF Next
-----------------------------------------------------------------------------
\* The inductive invariant of tasks and processes holds in every reachable state.
THEOREM TasksInvariant == Spec => []TasksInv
<1>1. Init => TasksInv
  BY InitEstablishesTasksInv
<1>2. TasksInv /\ [Next]_vars => TasksInv'
  BY NextPreservesTasksInv
<1> QED BY <1>1, <1>2, PTL DEF Spec

\* Type correctness of the task list, the tables and the current pointers.
THEOREM TasksTypeOK == Spec => []TypeOK
<1>1. TasksInv => TypeOK
  BY DEF TasksInv
<1> QED BY <1>1, TasksInvariant, PTL

\* Every process in the table has its own allocated task and every allocated
\* task its own process in the table.
THEOREM TasksTablesMirror == Spec => []TablesMirror
<1>1. TasksInv => TablesMirror
  BY DEF TasksInv
<1> QED BY <1>1, TasksInvariant, PTL

\* While programs run, current_process is a process of the table.
THEOREM TasksCurrentProcessRegistered == Spec => []CurrentProcessRegistered
<1>1. TasksInv => CurrentProcessRegistered
  BY DEF TasksInv
<1> QED BY <1>1, TasksInvariant, PTL

\* The kernel panics for want of tasks only when no process is left.
THEOREM TasksPanicOnlyWhenEmpty == Spec => []PanicOnlyWhenEmpty
<1>1. TasksInv => PanicOnlyWhenEmpty
  BY DEF TasksInv
<1> QED BY <1>1, TasksInvariant, PTL

\* What a step does to the table of processes: it enters a process in a free
\* slot, ends the process of the running task, or leaves the table alone.
LEMMA TableSteps ==
  ASSUME TasksInv, [Next]_vars
  PROVE  \/ processes' = processes
         \/ \E s \in Slots : /\ s \notin Registered
                             /\ \E p : processes' = [processes EXCEPT ![s] = p]
         \/ /\ process_of_running \in Registered
            /\ processes' = [processes EXCEPT ![process_of_running] = NULL]
<1> USE DEF Undefined
<1>1. ASSUME NEW prog, NEW switch, process_load_switch(prog, switch)
      PROVE  \/ processes' = processes
             \/ \E s \in Slots : /\ s \notin Registered
                                 /\ \E p : processes' = [processes EXCEPT ![s] = p]
  BY <1>1 DEF process_load_switch, process_get_free_slot, Registered
<1>2. ASSUME process_load_unmappable \/ process_load_without_memory \/ process_load_fails
               \/ Halted \/ UNCHANGED vars
      PROVE  processes' = processes
  BY <1>2 DEF process_load_unmappable, process_load_without_memory, process_load_fails, Halted, vars
<1>3. ASSUME mode = "user", process_terminate_and_next
      PROVE  \/ processes' = processes
             \/ /\ process_of_running \in Registered
                /\ processes' = [processes EXCEPT ![process_of_running] = NULL]
  BY <1>3, EndedProcess DEF process_terminate_and_next
<1>4. CASE kernel_main
  BY <1>1, <1>2, <1>4 DEF kernel_main
<1>5. ASSUME NEW prog \in Programs,
             \/ isr80h_command6_process_load_start(prog)
             \/ isr80h_command7_invoke_system_command(prog)
      PROVE  \/ processes' = processes
             \/ \E s \in Slots : /\ s \notin Registered
                                 /\ \E p : processes' = [processes EXCEPT ![s] = p]
  BY <1>1, <1>2, <1>5 DEF isr80h_command6_process_load_start, isr80h_command7_invoke_system_command
<1>6. CASE isr80h_command9_exit \/ idt_handle_exception
  BY <1>3, <1>6 DEF isr80h_command9_exit, idt_handle_exception
<1> QED BY <1>2, <1>4, <1>5, <1>6 DEF Next

\* No slot in use is ever overwritten.
THEOREM TasksSlotsNeverOverwritten == Spec => SlotsNeverOverwritten
<1> DEFINE A == \A s \in Registered \cap Registered' : processes'[s] = processes[s]
<1>1. TasksInv /\ [Next]_vars => [A]_vars
  <2> SUFFICES ASSUME TasksInv, [Next]_vars PROVE A
    OBVIOUS
  <2> QED BY TableSteps DEF Registered, TasksInv, TypeOK
<1> QED BY <1>1, TasksInvariant, PTL DEF Spec, SlotsNeverOverwritten
-----------------------------------------------------------------------------
(* The task list, with the shipped programs. *)

\* What task_new does to every field.
LEMMA task_newFields ==
  ASSUME NEW l \in TaskLists, NEW t \in Addresses, l.head /= NULL, l.tail \in Addresses, t /= l.tail
  PROVE  LET m == task_new(l, t)
         IN  /\ m \in TaskLists
             /\ m.head = l.head /\ m.tail = t /\ m.current = l.current
             /\ \A a \in Addresses :
                  /\ m.next[a] = IF a = l.tail THEN t ELSE IF a = t THEN NULL ELSE l.next[a]
                  /\ m.prev[a] = IF a = t THEN l.tail ELSE l.prev[a]
  BY DEF task_new, TaskLists, MaybeAddress

\* What task_list_remove does to every field, when the last task is removed.
LEMMA task_list_removeTail ==
  ASSUME NEW l \in TaskLists, NEW t \in Addresses, NEW p \in Addresses,
         t = l.tail, t /= l.head, l.prev[t] = p, p /= t, l.next[t] = NULL, NULL \notin Addresses
  PROVE  LET m == task_list_remove(l, t)
         IN  /\ m \in TaskLists
             /\ m.head = l.head /\ m.tail = p
             /\ m.current = IF t = l.current THEN l.head ELSE l.current
             /\ m.prev = l.prev
             /\ \A a \in Addresses : m.next[a] = IF a = p THEN NULL ELSE l.next[a]
<1> DEFINE u == [l EXCEPT !.next = [l.next EXCEPT ![p] = NULL], !.tail = p]
<1>1. /\ u \in TaskLists
      /\ u.head = l.head /\ u.tail = p /\ u.current = l.current /\ u.prev = l.prev
      /\ \A a \in Addresses : u.next[a] = IF a = p THEN NULL ELSE l.next[a]
  BY DEF TaskLists, MaybeAddress
<1>2. u = [l EXCEPT !.next = IF l.prev[t] = NULL THEN l.next
                             ELSE [l.next EXCEPT ![l.prev[t]] = l.next[t]],
                    !.head = IF t = l.head THEN l.next[t] ELSE l.head,
                    !.tail = IF t = l.tail THEN l.prev[t] ELSE l.tail]
  BY DEF TaskLists
<1>3. task_list_remove(l, t) = IF t = l.current THEN [u EXCEPT !.current = task_get_next(u)]
                               ELSE u
  BY <1>2 DEF task_list_remove
<1> HIDE DEF u
<1>4. t = l.current => task_get_next(u) = l.head
  BY <1>1 DEF task_get_next
<1>5. CASE t = l.current
  <2>1. task_list_remove(l, t) = [u EXCEPT !.current = l.head]
    BY <1>3, <1>4, <1>5
  <2>2. l.head \in MaybeAddress
    BY DEF TaskLists
  <2> QED BY <1>1, <1>5, <2>1, <2>2 DEF TaskLists
<1>6. CASE t /= l.current
  BY <1>1, <1>3, <1>6
<1> QED BY <1>5, <1>6

\* A queue with one task more, and with one less.
Longer(n, q, t) == [i \in 1 .. (n + 1) |-> IF i = n + 1 THEN t ELSE q[i]]
Shorter(n, q) == [i \in 1 .. (n - 1) |-> q[i]]

\* A program is started: its task goes to the end of the list and runs, and its
\* process is the current one.
Starts(n, q, prog) ==
  /\ mode' = "user"
  /\ \E t \in Addresses \ live :
       /\ live' = live \cup {t}
       /\ tasks'.current = t
       /\ current_process' = task_process'[t]
       /\ ListSpells(n + 1, Longer(n, q, t))'
       /\ program(t)' = prog
       /\ \A u \in live : program(u)' = program(u)

\* The facts about the list the proofs below work with.
LEMMA ListFacts ==
  ASSUME TasksInv, mode = "user", NEW n \in Nat \ {0}, NEW q, ListSpells(n, q)
  PROVE  /\ tasks \in TaskLists /\ live \subseteq Addresses /\ NULL \notin Addresses
         /\ \A i \in 1 .. n : q[i] \in live /\ q[i] /= NULL
         /\ 1 \in 1 .. n /\ n \in 1 .. n
         /\ tasks.head = q[1] /\ tasks.tail = q[n]
         /\ tasks.head /= NULL /\ tasks.tail \in live
         /\ task_new_defined(tasks)
<1>1. tasks \in TaskLists /\ live \subseteq Addresses /\ NULL \notin Addresses
  BY TasksAssumption DEF TasksInv, TypeOK
<1>2. 1 \in 1 .. n /\ n \in 1 .. n
  OBVIOUS
<1>3. q \in [1 .. n -> live] /\ tasks.head = q[1] /\ tasks.tail = q[n]
  BY DEF ListSpells
<1>4. \A i \in 1 .. n : q[i] \in live /\ q[i] /= NULL
  BY <1>1, <1>3
<1> QED BY <1>1, <1>2, <1>3, <1>4 DEF task_new_defined

LEMMA process_load_switchStarts ==
  ASSUME TasksInv, mode = "user", NEW n \in Nat \ {0}, NEW q, ListSpells(n, q),
         NEW prog, process_load_switch(prog, TRUE)
  PROVE  Starts(n, q, prog)
<1>1. /\ tasks \in TaskLists /\ live \subseteq Addresses /\ NULL \notin Addresses
      /\ \A i \in 1 .. n : q[i] \in live /\ q[i] /= NULL
      /\ 1 \in 1 .. n /\ n \in 1 .. n
      /\ tasks.head = q[1] /\ tasks.tail = q[n]
      /\ tasks.head /= NULL /\ tasks.tail \in live
      /\ task_new_defined(tasks)
  BY ListFacts
<1>2. PICK s \in process_get_free_slot, t \in Addresses \ live :
        /\ tasks' = task_switch(task_new(tasks, t), t)
        /\ live' = live \cup {t}
        /\ task_process' = [task_process EXCEPT ![t] = s]
        /\ processes' = [processes EXCEPT ![s] = [task |-> t, program |-> prog]]
        /\ current_process' = s
        /\ mode' = "user"
  BY <1>1 DEF process_load_switch
<1>3. PICK m \in TaskLists :
        /\ m = task_new(tasks, t)
        /\ m.head = tasks.head /\ m.tail = t
        /\ \A a \in Addresses :
             /\ m.next[a] = IF a = q[n] THEN t ELSE IF a = t THEN NULL ELSE tasks.next[a]
             /\ m.prev[a] = IF a = t THEN q[n] ELSE tasks.prev[a]
  <2>1. t \in Addresses /\ tasks.tail \in Addresses /\ t /= tasks.tail
    BY <1>1
  <2> QED BY <1>1, <2>1, task_newFields
<1>4. /\ tasks'.head = q[1] /\ tasks'.tail = t /\ tasks'.current = t
      /\ tasks'.next = m.next /\ tasks'.prev = m.prev
  BY <1>1, <1>2, <1>3 DEF task_switch, TaskLists
<1>5. PICK r : r = Longer(n, q, t)
  OBVIOUS
<1>6. /\ r[n + 1] = t /\ \A i \in 1 .. n : r[i] = q[i]
      /\ 1 .. (n + 1) = (1 .. n) \cup {n + 1}
  BY <1>5 DEF Longer
<1>7. /\ q \in [1 .. n -> live]
      /\ \A u \in live : \E i \in 1 .. n : q[i] = u
      /\ \A i, j \in 1 .. n : q[i] = q[j] => i = j
      /\ \A i \in 1 .. n : tasks.prev[q[i]] = IF i = 1 THEN NULL ELSE q[i - 1]
      /\ \A i \in 1 .. n : tasks.next[q[i]] = IF i = n THEN NULL ELSE q[i + 1]
  BY DEF ListSpells
<1>8. ListSpells(n + 1, r)'
  <2>1. r \in [1 .. (n + 1) -> live']
    BY <1>1, <1>2, <1>5 DEF Longer
  <2>2. \A u \in live' : \E i \in 1 .. (n + 1) : r[i] = u
    BY <1>2, <1>6, <1>7
  <2>3. \A i, j \in 1 .. (n + 1) : r[i] = r[j] => i = j
    BY <1>1, <1>6, <1>7
  <2>4. tasks'.head = r[1] /\ tasks'.tail = r[n + 1]
    BY <1>1, <1>4, <1>6
  <2>5. ASSUME NEW i \in 1 .. (n + 1)
        PROVE  /\ m.prev[r[i]] = IF i = 1 THEN NULL ELSE r[i - 1]
               /\ m.next[r[i]] = IF i = n + 1 THEN NULL ELSE r[i + 1]
    <3>1. CASE i = n + 1
      <4>1. r[i] = t /\ i /= 1 /\ i - 1 = n /\ r[n] = q[n] /\ t /= q[n] /\ t \in Addresses
        BY <1>1, <1>6, <3>1
      <4> QED BY <1>3, <3>1, <4>1
    <3>2. CASE i \in 1 .. n
      <4>1. r[i] = q[i] /\ q[i] \in Addresses /\ q[i] /= t /\ i /= n + 1
        BY <1>1, <1>6, <3>2
      <4>2. i /= 1 => i - 1 \in 1 .. n
        BY <3>2
      <4>3. m.prev[r[i]] = IF i = 1 THEN NULL ELSE r[i - 1]
        BY <1>3, <1>6, <1>7, <3>2, <4>1, <4>2
      <4>4. CASE i = n
        BY <1>3, <1>6, <4>1, <4>3, <4>4
      <4>5. CASE i /= n
        <5>1. i + 1 \in 1 .. n /\ q[i] /= q[n]
          BY <1>1, <1>7, <3>2, <4>5
        <5> QED BY <1>3, <1>6, <1>7, <3>2, <4>1, <4>3, <4>5, <5>1
      <4> QED BY <4>3, <4>4, <4>5
    <3> QED BY <1>6, <3>1, <3>2
  <2> QED BY <1>4, <2>1, <2>2, <2>3, <2>4, <2>5 DEF ListSpells
<1>9. /\ s \in Slots /\ s \notin Registered
      /\ task_process \in [Addresses -> Slots \cup {NULL}]
      /\ processes \in [Slots -> [task : Addresses, program : Programs] \cup {NULL}]
  BY DEF process_get_free_slot, Registered, TasksInv, TypeOK
<1>10. task_process'[t] = s /\ processes'[s].program = prog
  BY <1>2, <1>9
<1>11. program(t)' = prog
  BY <1>10 DEF program
<1>12. ASSUME NEW u \in live PROVE program(u)' = program(u)
  <2>1. task_process[u] \in Registered /\ task_process[u] /= s
    BY <1>9 DEF TasksInv, TablesMirror
  <2>2. task_process'[u] = task_process[u] /\ processes'[task_process[u]] = processes[task_process[u]]
    BY <1>1, <1>2, <1>9, <2>1 DEF Registered
  <2> QED BY <2>2 DEF program
<1> QED BY <1>2, <1>4, <1>5, <1>8, <1>10, <1>11, <1>12 DEF Starts

\* A load that fails: the list spells what it did, and the same task runs.
Fails(n, q) ==
  /\ UNCHANGED <<live, processes, current_process, mode>>
  /\ tasks'.head = tasks.head /\ tasks'.tail = tasks.tail /\ tasks'.current = tasks.current
  /\ \A t \in live : /\ tasks'.next[t] = tasks.next[t] /\ tasks'.prev[t] = tasks.prev[t]
                     /\ task_process'[t] = task_process[t]

LEMMA process_load_unmappableFails ==
  ASSUME TasksInv, mode = "user", NEW n \in Nat \ {0}, NEW q, ListSpells(n, q),
         process_load_unmappable
  PROVE  Fails(n, q)
<1>1. /\ tasks \in TaskLists /\ live \subseteq Addresses /\ NULL \notin Addresses
      /\ \A i \in 1 .. n : q[i] \in live /\ q[i] /= NULL
      /\ 1 \in 1 .. n /\ n \in 1 .. n
      /\ tasks.head = q[1] /\ tasks.tail = q[n]
      /\ tasks.head /= NULL /\ tasks.tail \in live
      /\ task_new_defined(tasks)
  BY ListFacts
<1>2. PICK s \in process_get_free_slot, t \in Addresses \ live :
        /\ tasks' = task_list_remove(task_new(tasks, t), t)
        /\ task_process' = [task_process EXCEPT ![t] = s]
        /\ UNCHANGED <<live, processes, current_process, mode>>
  BY <1>1 DEF process_load_unmappable
<1>3. PICK m \in TaskLists :
        /\ m = task_new(tasks, t)
        /\ m.head = tasks.head /\ m.tail = t /\ m.current = tasks.current
        /\ \A a \in Addresses :
             /\ m.next[a] = IF a = q[n] THEN t ELSE IF a = t THEN NULL ELSE tasks.next[a]
             /\ m.prev[a] = IF a = t THEN q[n] ELSE tasks.prev[a]
  <2>1. t \in Addresses /\ tasks.tail \in Addresses /\ t /= tasks.tail
    BY <1>1
  <2> QED BY <1>1, <2>1, task_newFields
<1>4. PICK p \in Addresses : p = q[n] /\ p /= t
  BY <1>1
<1>5. t \in Addresses /\ t = m.tail /\ t /= m.head /\ m.prev[t] = p /\ m.next[t] = NULL
  BY <1>1, <1>3, <1>4
<1>6. Running \in live
  BY DEF TasksInv, UserListInUse
<1>7. /\ tasks'.head = m.head /\ tasks'.tail = p
      /\ tasks'.current = m.current
      /\ tasks'.prev = m.prev
      /\ \A a \in Addresses : tasks'.next[a] = IF a = p THEN NULL ELSE m.next[a]
  <2>1. t /= m.current
    BY <1>3, <1>6 DEF Running
  <2>2. tasks' = task_list_remove(m, t)
    BY <1>2, <1>3
  <2> QED BY <1>1, <1>4, <1>5, <2>1, <2>2, task_list_removeTail
<1>8. ASSUME NEW u \in live
      PROVE  tasks'.next[u] = tasks.next[u] /\ tasks'.prev[u] = tasks.prev[u]
  <2>1. u \in Addresses /\ u /= t /\ tasks.next[q[n]] = NULL
    BY <1>1 DEF ListSpells
  <2> QED BY <1>3, <1>4, <1>7, <2>1
<1>9. \A u \in live : task_process'[u] = task_process[u]
  BY <1>1, <1>2 DEF TasksInv, TypeOK
<1> QED BY <1>1, <1>2, <1>3, <1>4, <1>7, <1>8, <1>9 DEF Fails

\* The running program ends: its task is the last of the list, and one of the
\* others runs.
Ends(n, q) ==
  /\ n > 1 /\ Running = q[n]
  /\ mode' = "user"
  /\ live' = live \ {q[n]}
  /\ tasks'.current \in live'
  /\ ListSpells(n - 1, Shorter(n, q))'
  /\ \A u \in live' : program(u)' = program(u)
  /\ Registered' \subseteq Registered /\ UNCHANGED task_process

LEMMA process_terminate_and_nextEnds ==
  ASSUME TasksInv, mode = "user", NEW n \in Nat \ {0}, NEW q, ListSpells(n, q), n > 1,
         Running = q[n], process_terminate_and_next
  PROVE  Ends(n, q)
<1>1. /\ tasks \in TaskLists /\ live \subseteq Addresses /\ NULL \notin Addresses
      /\ \A i \in 1 .. n : q[i] \in live /\ q[i] /= NULL
      /\ 1 \in 1 .. n /\ n \in 1 .. n
      /\ tasks.head = q[1] /\ tasks.tail = q[n]
  BY ListFacts
<1>2. /\ q \in [1 .. n -> live]
      /\ \A u \in live : \E i \in 1 .. n : q[i] = u
      /\ \A i, j \in 1 .. n : q[i] = q[j] => i = j
      /\ \A i \in 1 .. n : tasks.prev[q[i]] = IF i = 1 THEN NULL ELSE q[i - 1]
      /\ \A i \in 1 .. n : tasks.next[q[i]] = IF i = n THEN NULL ELSE q[i + 1]
  BY DEF ListSpells
<1>3. PICK s \in Registered : s = process_of_running /\ processes[s].task = q[n] /\ s \in Slots
  BY EndedProcess DEF Registered
<1>4. PICK t \in Addresses : t = q[n] /\ t = tasks.current
  BY <1>1 DEF Running
<1>5. PICK p \in Addresses : p = q[n - 1] /\ p \in live /\ p /= t
  <2>1. n - 1 \in 1 .. n /\ n - 1 /= n
    OBVIOUS
  <2>2. q[n - 1] \in live /\ q[n - 1] \in Addresses
    BY <1>1, <2>1
  <2>3. q[n - 1] /= q[n]
    BY <1>1, <1>2, <2>1
  <2> QED BY <1>4, <2>2, <2>3
<1>6. /\ t = tasks.tail /\ t /= tasks.head /\ tasks.prev[t] = p /\ tasks.next[t] = NULL
      /\ n /= 1
  <2>1. n /= 1
    OBVIOUS
  <2>2. q[1] /= q[n]
    BY <1>1, <1>2, <2>1
  <2>3. tasks.prev[q[n]] = q[n - 1] /\ tasks.next[q[n]] = NULL
    BY <1>1, <1>2, <2>1
  <2> QED BY <1>1, <1>4, <1>5, <2>1, <2>2, <2>3
<1>7. PICK m \in TaskLists :
        /\ m = task_list_remove(tasks, t)
        /\ m.head = tasks.head /\ m.tail = p /\ m.current = tasks.head /\ m.prev = tasks.prev
        /\ \A a \in Addresses : m.next[a] = IF a = p THEN NULL ELSE tasks.next[a]
  <2>1. PICK l \in TaskLists : l = tasks
    BY <1>1
  <2>2. /\ t = l.tail /\ t /= l.head /\ l.prev[t] = p /\ p /= t /\ l.next[t] = NULL
        /\ NULL \notin Addresses
    BY <1>1, <1>4, <1>5, <1>6, <2>1
  <2>3. PICK m : m = task_list_remove(l, t)
    OBVIOUS
  <2>4. /\ task_list_remove(l, t) \in TaskLists
        /\ task_list_remove(l, t).head = l.head /\ task_list_remove(l, t).tail = p
        /\ task_list_remove(l, t).current = IF t = l.current THEN l.head ELSE l.current
        /\ task_list_remove(l, t).prev = l.prev
        /\ \A a \in Addresses :
             task_list_remove(l, t).next[a] = IF a = p THEN NULL ELSE l.next[a]
    BY <2>2, task_list_removeTail
  <2>5. /\ m \in TaskLists
        /\ m.head = l.head /\ m.tail = p /\ m.current = l.head /\ m.prev = l.prev
        /\ \A a \in Addresses : m.next[a] = IF a = p THEN NULL ELSE l.next[a]
    BY <1>4, <2>1, <2>3, <2>4
  <2> QED BY <2>1, <2>3, <2>5
<1>8. task_list_remove_defined(tasks, t)
  BY <1>5, <1>6 DEF task_list_remove_defined
<1>9. PICK k : k = task_get_next(m)
  OBVIOUS
<1>10. m.current \in live \ {t} /\ k \in live \ {t}
  <2>1. q[1] \in live /\ q[1] /= t /\ q[1] \in Addresses
    BY <1>1, <1>2, <1>4, <1>6
  <2>2. m.next[q[1]] = NULL \/ m.next[q[1]] \in live \ {t}
    <3>1. CASE q[1] = p
      BY <1>7, <2>1, <3>1
    <3>2. CASE q[1] /= p
      <4>1. n /= 2 /\ 1 + 1 \in 1 .. n /\ 1 + 1 /= n
        BY <1>5, <1>6, <3>2
      <4>2. tasks.next[q[1]] = q[1 + 1] /\ q[1 + 1] \in live /\ q[1 + 1] /= q[n]
        BY <1>1, <1>2, <1>6, <4>1
      <4> QED BY <1>4, <1>7, <2>1, <3>2, <4>2
    <3> QED BY <3>1, <3>2
  <2> QED BY <1>1, <1>7, <1>9, <2>1, <2>2 DEF task_get_next
<1>11. ~NoProcess([processes EXCEPT ![s] = NULL])
  <2>1. PICK i : i = task_process[q[1]] /\ i \in Registered /\ processes[i].task = q[1]
    BY <1>1 DEF TasksInv, TablesMirror
  <2>2. i /= s /\ i \in Slots /\ processes[i] /= NULL
    BY <1>1, <1>3, <1>4, <1>6, <2>1 DEF Registered
  <2> QED BY <2>2 DEF NoProcess, TasksInv, TypeOK
<1>12. /\ tasks' = task_switch(m, k)
       /\ live' = live \ {t}
       /\ processes' = [processes EXCEPT ![s] = NULL]
       /\ UNCHANGED <<task_process, mode>>
  BY <1>3, <1>4, <1>7, <1>8, <1>9, <1>10, <1>11 DEF process_terminate_and_next
<1>13. /\ tasks'.head = q[1] /\ tasks'.tail = p /\ tasks'.current = k
       /\ tasks'.next = m.next /\ tasks'.prev = tasks.prev
  BY <1>1, <1>7, <1>12 DEF task_switch, TaskLists
<1>14. PICK r : r = Shorter(n, q)
  OBVIOUS
<1>15. /\ \A i \in 1 .. (n - 1) : r[i] = q[i] /\ i \in 1 .. n /\ i /= n
       /\ 1 .. n = (1 .. (n - 1)) \cup {n}
       /\ n - 1 \in 1 .. (n - 1) /\ 1 \in 1 .. (n - 1)
  BY <1>14 DEF Shorter
<1>16. ListSpells(n - 1, r)'
  <2>1. r \in [1 .. (n - 1) -> live']
    <3>1. \A i \in 1 .. (n - 1) : q[i] \in live'
      <4>1. ASSUME NEW i \in 1 .. (n - 1) PROVE q[i] \in live /\ q[i] /= q[n]
        BY <1>1, <1>2, <1>15
      <4> QED BY <1>4, <1>12, <4>1
    <3> QED BY <1>14, <3>1 DEF Shorter
  <2>2. \A u \in live' : \E i \in 1 .. (n - 1) : r[i] = u
    BY <1>2, <1>4, <1>12, <1>15
  <2>3. \A i, j \in 1 .. (n - 1) : r[i] = r[j] => i = j
    BY <1>2, <1>15
  <2>4. tasks'.head = r[1] /\ tasks'.tail = r[n - 1]
    BY <1>5, <1>13, <1>15
  <2>5. ASSUME NEW i \in 1 .. (n - 1)
        PROVE  /\ tasks.prev[r[i]] = IF i = 1 THEN NULL ELSE r[i - 1]
               /\ m.next[r[i]] = IF i = n - 1 THEN NULL ELSE r[i + 1]
    <3>1. r[i] = q[i] /\ q[i] \in Addresses /\ i \in 1 .. n /\ i /= n
      BY <1>1, <1>15
    <3>2. i /= 1 => i - 1 \in 1 .. (n - 1)
      OBVIOUS
    <3>3. tasks.prev[r[i]] = IF i = 1 THEN NULL ELSE r[i - 1]
      BY <1>2, <1>15, <3>1, <3>2
    <3>4. CASE i = n - 1
      BY <1>5, <1>7, <3>1, <3>3, <3>4
    <3>5. CASE i /= n - 1
      <4>1. i + 1 \in 1 .. (n - 1) /\ n - 1 \in 1 .. n
        BY <3>5
      <4>2. q[i] /= p
        BY <1>2, <1>5, <3>1, <3>5, <4>1
      <4>3. m.next[r[i]] = tasks.next[q[i]]
        BY <1>7, <3>1, <4>2
      <4>4. tasks.next[q[i]] = q[i + 1] /\ r[i + 1] = q[i + 1]
        BY <1>2, <1>15, <3>1, <4>1
      <4> QED BY <3>3, <3>5, <4>3, <4>4
    <3> QED BY <3>4, <3>5
  <2> QED BY <1>13, <2>1, <2>2, <2>3, <2>4, <2>5 DEF ListSpells
<1>17. ASSUME NEW u \in live' PROVE program(u)' = program(u)
  <2>1. u \in live /\ u /= t /\ task_process[u] \in Registered /\ task_process[u] /= s
    BY <1>3, <1>4, <1>12 DEF TasksInv, TablesMirror
  <2>2. processes'[task_process[u]] = processes[task_process[u]]
    BY <1>12, <2>1 DEF TasksInv, TypeOK, Registered
  <2> QED BY <1>12, <2>2 DEF program
<1>18. Registered' \subseteq Registered
  BY <1>12 DEF TasksInv, TypeOK, Registered
<1> QED BY <1>4, <1>10, <1>12, <1>13, <1>14, <1>16, <1>17, <1>18 DEF Ends

\* What the list is in every state: ListInv without counting its tasks.
Spelled ==
  /\ mode /= "undefined"
  /\ mode /= "user" => live = {} /\ tasks.current = NULL
  /\ mode = "user" => \E n \in Nat \ {0} : \E q : ListSpells(n, q) /\ LaunchersFirst(n, q)

\* With the shipped programs every step in user mode starts a program from one
\* that starts programs, or fails to, or ends the last task of the list.
LEMMA ShippedStep ==
  ASSUME ShippedPrograms, TasksInv, mode = "user", [Next]_vars,
         NEW n \in Nat \ {0}, NEW q, ListSpells(n, q), LaunchersFirst(n, q)
  PROVE  \/ program(Running) \in Launchers /\ \E prog \in Programs : Starts(n, q, prog)
         \/ Fails(n, q)
         \/ Ends(n, q)
<1>1. CASE UNCHANGED vars
  BY <1>1 DEF vars, Fails
<1>2. ~process_load_without_memory
  BY DEF ShippedPrograms, process_load_without_memory
<1>3. ASSUME NEW prog \in Programs,
             isr80h_command6_process_load_start(prog) \/ isr80h_command7_invoke_system_command(prog)
      PROVE  \/ program(Running) \in Launchers /\ Starts(n, q, prog)
             \/ Fails(n, q)
  <2>1. /\ program(Running) \in Launchers
        /\ process_load_switch(prog, TRUE) \/ process_load_fails \/ process_load_unmappable
    BY <1>2, <1>3 DEF isr80h_command6_process_load_start, isr80h_command7_invoke_system_command,
                      Launches, ShippedPrograms
  <2>2. process_load_fails => Fails(n, q)
    BY DEF process_load_fails, vars, Fails
  <2> QED BY <2>1, <2>2, process_load_switchStarts, process_load_unmappableFails
<1>4. ASSUME isr80h_command9_exit \/ idt_handle_exception PROVE Ends(n, q)
  <2>1. program(Running) \in Terminating /\ process_terminate_and_next
    BY <1>4 DEF isr80h_command9_exit, idt_handle_exception
  <2>2. program(Running) \notin Launchers /\ Running \in live
    BY <2>1 DEF ShippedPrograms, TasksInv, UserListInUse
  <2>3. PICK i \in 1 .. n : q[i] = Running
    BY <2>2 DEF ListSpells
  <2>4. Running = q[n]
    BY <2>2, <2>3 DEF LaunchersFirst
  <2>5. n /= 1
    BY <2>2, <2>4 DEF LaunchersFirst
  <2>6. n > 1
    BY <2>5
  <2> QED BY <2>1, <2>4, <2>6, process_terminate_and_nextEnds
<1>5. ~kernel_main /\ ~Halted
  BY DEF kernel_main, Halted
<1> QED BY <1>1, <1>3, <1>4, <1>5 DEF Next

\* The first task of the list.
LEMMA BootSpells ==
  ASSUME ShippedPrograms, TasksInv, mode = "boot", process_load_switch(Shell, TRUE)
  PROVE  mode' = "user" /\ \E q : ListSpells(1, q)' /\ LaunchersFirst(1, q)' /\ q[1] = tasks'.current
<1>1. live = {} /\ tasks.head = NULL /\ tasks \in TaskLists /\ task_new_defined(tasks)
  BY DEF TasksInv, TypeOK, BootEmpty, task_new_defined
<1>2. PICK s \in process_get_free_slot, t \in Addresses \ live :
        /\ tasks' = task_switch(task_new(tasks, t), t)
        /\ live' = live \cup {t}
        /\ task_process' = [task_process EXCEPT ![t] = s]
        /\ processes' = [processes EXCEPT ![s] = [task |-> t, program |-> Shell]]
        /\ mode' = "user"
  BY <1>1 DEF process_load_switch
<1>3. /\ tasks'.head = t /\ tasks'.tail = t /\ tasks'.current = t
      /\ tasks'.next[t] = NULL /\ tasks'.prev[t] = NULL
  BY <1>1, <1>2 DEF task_new, task_switch, TaskLists, MaybeAddress
<1>4. PICK q : q = [i \in 1 .. 1 |-> t]
  OBVIOUS
<1>5. q \in [1 .. 1 -> {t}] /\ q[1] = t /\ \A i \in 1 .. 1 : i = 1
  BY <1>4
<1>6. ListSpells(1, q)'
  <2>1. live' = {t}
    BY <1>1, <1>2
  <2> QED BY <1>3, <1>5, <2>1 DEF ListSpells
<1>7. program(t)' \in Launchers
  <2>1. task_process'[t] = s /\ processes'[s].program = Shell
    BY <1>2 DEF process_get_free_slot, TasksInv, TypeOK
  <2> QED BY <2>1 DEF program, ShippedPrograms
<1>8. LaunchersFirst(1, q)'
  BY <1>3, <1>5, <1>7 DEF LaunchersFirst
<1> QED BY <1>2, <1>3, <1>5, <1>6, <1>8

\* A failed load leaves the list as it was.
LEMMA FailsSpells ==
  ASSUME TasksInv, mode = "user", NEW n \in Nat \ {0}, NEW q, ListSpells(n, q), LaunchersFirst(n, q),
         Fails(n, q)
  PROVE  ListSpells(n, q)' /\ LaunchersFirst(n, q)'
<1>1. \A i \in 1 .. n : q[i] \in live
  BY ListFacts
<1>2. live' = live /\ 1 \in 1 .. n /\ n \in 1 .. n
  BY DEF Fails
<1>3. ListSpells(n, q)'
  <2>1. \A i \in 1 .. n : tasks'.prev[q[i]] = tasks.prev[q[i]] /\ tasks'.next[q[i]] = tasks.next[q[i]]
    BY <1>1 DEF Fails
  <2>2. tasks'.head = tasks.head /\ tasks'.tail = tasks.tail
    BY DEF Fails
  <2> QED BY <1>2, <2>1, <2>2 DEF ListSpells
<1>4. \A i \in 1 .. n : program(q[i])' = program(q[i])
  BY <1>1 DEF program, Fails
<1>5. Running' = Running
  BY DEF Fails, Running
<1> QED BY <1>2, <1>3, <1>4, <1>5 DEF LaunchersFirst

\* One that succeeds, from a program that starts others.
LEMMA StartsSpells ==
  ASSUME TasksInv, mode = "user", NEW n \in Nat \ {0}, NEW q, ListSpells(n, q), LaunchersFirst(n, q),
         program(Running) \in Launchers, NEW prog, Starts(n, q, prog)
  PROVE  \E t \in Addresses \ live :
           /\ live' = live \cup {t} /\ tasks'.current = t
           /\ ListSpells(n + 1, Longer(n, q, t))' /\ LaunchersFirst(n + 1, Longer(n, q, t))'
<1>1. PICK t \in Addresses \ live :
       /\ live' = live \cup {t}
       /\ tasks'.current = t
       /\ ListSpells(n + 1, Longer(n, q, t))'
       /\ \A u \in live : program(u)' = program(u)
  BY DEF Starts
<1>2. PICK r : r = Longer(n, q, t)
  OBVIOUS
<1>3. /\ r[n + 1] = t /\ \A i \in 1 .. n : r[i] = q[i]
      /\ 1 .. (n + 1) = (1 .. n) \cup {n + 1} /\ 1 \in 1 .. n
  BY <1>2 DEF Longer
<1>4. \A i \in 1 .. n : q[i] \in live /\ program(q[i]) \in Launchers
  BY ListFacts DEF LaunchersFirst
<1>5. \A i \in 1 .. n : program(r[i])' \in Launchers
  BY <1>1, <1>3, <1>4
<1>6. Running' = r[n + 1]
  BY <1>1, <1>3 DEF Running
<1>7. LaunchersFirst(n + 1, r)'
  BY <1>3, <1>5, <1>6 DEF LaunchersFirst
<1> QED BY <1>1, <1>2, <1>7

\* The end of the last task of the list: those left all start programs.
LEMMA EndsSpells ==
  ASSUME TasksInv, mode = "user", NEW n \in Nat \ {0}, NEW q, ListSpells(n, q), LaunchersFirst(n, q),
         Ends(n, q)
  PROVE  /\ n - 1 \in Nat \ {0}
         /\ ListSpells(n - 1, Shorter(n, q))' /\ LaunchersFirst(n - 1, Shorter(n, q))'
         /\ \A u \in live' : program(u)' \in Launchers
<1>1. n - 1 \in Nat \ {0} /\ ListSpells(n - 1, Shorter(n, q))'
  BY DEF Ends
<1>2. PICK r : r = Shorter(n, q)
  OBVIOUS
<1>3. ASSUME NEW i \in 1 .. (n - 1) PROVE r[i] = q[i] /\ i \in 1 .. n /\ i /= n
  BY <1>2 DEF Shorter
<1>4. ASSUME NEW i \in 1 .. (n - 1) PROVE program(r[i])' \in Launchers
  <2>1. r[i] \in live'
    BY <1>1, <1>2 DEF ListSpells
  <2>2. program(r[i])' = program(q[i])
    BY <1>3, <2>1 DEF Ends
  <2> QED BY <1>3, <2>2 DEF LaunchersFirst
<1>5. LaunchersFirst(n - 1, r)'
  <2>1. 1 \in 1 .. (n - 1)
    BY <1>1
  <2> QED BY <1>4, <2>1 DEF LaunchersFirst
<1>6. ASSUME NEW u \in live' PROVE program(u)' \in Launchers
  <2>1. PICK i \in 1 .. (n - 1) : r[i] = u
    BY <1>1, <1>2 DEF ListSpells
  <2> QED BY <1>4, <2>1
<1> QED BY <1>1, <1>2, <1>5, <1>6

LEMMA NextPreservesSpelled ==
  ASSUME ShippedPrograms, TasksInv, Spelled, [Next]_vars
  PROVE  Spelled'
<1>1. CASE mode = "user"
  <2>1. PICK n \in Nat \ {0} : \E q : ListSpells(n, q) /\ LaunchersFirst(n, q)
    BY <1>1 DEF Spelled
  <2>2. PICK q : ListSpells(n, q) /\ LaunchersFirst(n, q)
    BY <2>1
  <2>3. CASE program(Running) \in Launchers /\ \E prog \in Programs : Starts(n, q, prog)
    <3>1. mode' = "user" /\ n + 1 \in Nat \ {0}
      BY <2>3 DEF Starts
    <3> QED BY <1>1, <2>2, <2>3, <3>1, StartsSpells DEF Spelled
  <2>4. CASE Fails(n, q)
    <3>1. mode' = "user"
      BY <1>1, <2>4 DEF Fails
    <3> QED BY <1>1, <2>2, <2>4, <3>1, FailsSpells DEF Spelled
  <2>5. CASE Ends(n, q)
    <3>1. mode' = "user"
      BY <2>5 DEF Ends
    <3> QED BY <1>1, <2>2, <2>5, <3>1, EndsSpells DEF Spelled
  <2> QED BY <1>1, <2>2, <2>3, <2>4, <2>5, ShippedStep
<1>2. CASE mode /= "user"
  <2>1. CASE kernel_main
    <3>1. CASE process_load_switch(Shell, TRUE)
      <4>1. mode = "boot" /\ 1 \in Nat \ {0}
        BY <2>1 DEF kernel_main
      <4> QED BY <3>1, <4>1, BootSpells DEF Spelled
    <3>2. CASE mode' = "panic" /\ UNCHANGED <<tasks, live, task_process, processes, current_process>>
      BY <1>2, <3>2 DEF Spelled
    <3> QED BY <2>1, <3>1, <3>2 DEF kernel_main, process_load_without_memory, ShippedPrograms
  <2>2. CASE UNCHANGED vars
    BY <1>2, <2>2 DEF Spelled, vars
  <2> QED BY <1>2, <2>1, <2>2 DEF Next, Halted, isr80h_command6_process_load_start,
        isr80h_command7_invoke_system_command, Launches, isr80h_command9_exit, idt_handle_exception
<1> QED BY <1>1, <1>2

\* The list, with the shipped programs.
LEMMA SpelledAlways == ShippedPrograms => (Spec => [](TasksInv /\ Spelled))
<1> SUFFICES ASSUME ShippedPrograms PROVE Spec => [](TasksInv /\ Spelled)
  OBVIOUS
<1>1. Init => Spelled
  BY DEF Init, Spelled
<1>2. TasksInv /\ Spelled /\ [Next]_vars => Spelled'
  BY NextPreservesSpelled
<1> QED BY <1>1, <1>2, TasksInvariant, PTL DEF Spec

\* With the shipped programs, and while memory lasts, no freed and no null task
\* structure is ever used: task_new and task_list_remove write to tasks only.
THEOREM TasksNoUndefined == ShippedPrograms => (Spec => []NoUndefined)
<1> SUFFICES ASSUME ShippedPrograms PROVE Spec => []NoUndefined
  OBVIOUS
<1>1. Spelled => NoUndefined
  BY DEF Spelled, NoUndefined
<1> QED BY <1>1, SpelledAlways, PTL

\* With the shipped programs task->prev is the previous task in the order, although
\* task_list_remove does not set the prev field of the task after the removed one:
\* only the last task of the list ends.
THEOREM TasksPrevIsPrevious == ShippedPrograms => (Spec => []PrevIsPrevious)
<1> SUFFICES ASSUME ShippedPrograms PROVE Spec => []PrevIsPrevious
  OBVIOUS
<1>1. TasksInv /\ Spelled => PrevIsPrevious
  <2> SUFFICES ASSUME TasksInv, Spelled, NEW t \in live
               PROVE  IF t = tasks.head THEN tasks.prev[t] = NULL
                      ELSE tasks.prev[t] \in live /\ tasks.next[tasks.prev[t]] = t
    BY DEF PrevIsPrevious
  <2>1. mode = "user"
    BY DEF Spelled
  <2>2. PICK n \in Nat \ {0} : \E q : ListSpells(n, q)
    BY <2>1 DEF Spelled
  <2>3. PICK q : ListSpells(n, q)
    BY <2>2
  <2>4. PICK i \in 1 .. n : q[i] = t
    BY <2>3 DEF ListSpells
  <2>5. CASE i = 1
    BY <2>3, <2>4, <2>5 DEF ListSpells
  <2>6. CASE i /= 1
    <3>1. i - 1 \in 1 .. n /\ i - 1 /= n /\ (i - 1) + 1 = i /\ 1 \in 1 .. n
      BY <2>6
    <3>2. tasks.prev[t] = q[i - 1] /\ q[i - 1] \in live /\ tasks.next[q[i - 1]] = q[i]
      BY <2>3, <2>4, <2>6, <3>1 DEF ListSpells
    <3>3. t /= tasks.head
      BY <2>3, <2>4, <2>6, <3>1 DEF ListSpells
    <3> QED BY <2>4, <3>2, <3>3
  <2> QED BY <2>5, <2>6
<1> QED BY <1>1, SpelledAlways, PTL

\* With the shipped programs a load that fails, also after it has created the task
\* and taken it off the list again, leaves the list, the tables and the running
\* task alone.
THEOREM TasksFailedLoadHarmless == ShippedPrograms => (Spec => FailedLoadHarmless)
<1> SUFFICES ASSUME ShippedPrograms PROVE Spec => FailedLoadHarmless
  OBVIOUS
<1> DEFINE A == (live' = live /\ mode' = "user") =>
                  /\ UNCHANGED <<processes, current_process>>
                  /\ tasks'.head = tasks.head /\ tasks'.tail = tasks.tail
                  /\ tasks'.current = tasks.current
                  /\ \A t \in live : tasks'.next[t] = tasks.next[t] /\ tasks'.prev[t] = tasks.prev[t]
<1>1. ASSUME TasksInv, Spelled, [Next]_vars PROVE [A]_vars
  <2>1. CASE mode = "user"
    <3>1. PICK n \in Nat \ {0} : \E q : ListSpells(n, q) /\ LaunchersFirst(n, q)
      BY <1>1, <2>1 DEF Spelled
    <3>2. PICK q : ListSpells(n, q) /\ LaunchersFirst(n, q)
      BY <3>1
    <3>3. ASSUME NEW prog, Starts(n, q, prog) PROVE live' /= live
      BY <3>3 DEF Starts
    <3>4. Ends(n, q) => live' /= live
      BY <1>1, <2>1 DEF Ends, TasksInv, UserListInUse
    <3>5. Fails(n, q) => A
      BY DEF Fails
    <3> QED BY <1>1, <2>1, <3>2, <3>3, <3>4, <3>5, ShippedStep
  <2>2. CASE mode /= "user"
    <3>1. live = {} /\ mode /= "undefined"
      BY <1>1, <2>2 DEF Spelled
    <3>2. CASE mode' = "user"
      <4>1. UNCHANGED vars \/ (mode = "boot" /\ process_load_switch(Shell, TRUE))
        BY <1>1, <2>2, <3>2 DEF Next, Halted, kernel_main, process_load_without_memory, Undefined,
              ShippedPrograms, isr80h_command6_process_load_start,
              isr80h_command7_invoke_system_command, Launches, isr80h_command9_exit,
              idt_handle_exception
      <4>2. ASSUME mode = "boot", process_load_switch(Shell, TRUE) PROVE live' /= live
        <5>1. PICK q : ListSpells(1, q)'
          BY <1>1, <4>2, BootSpells
        <5>2. q[1] \in live'
          BY <5>1 DEF ListSpells
        <5> QED BY <3>1, <5>2
      <4> QED BY <4>1, <4>2
    <3> QED BY <3>2
  <2> QED BY <2>1, <2>2
<1>2. [][A]_vars => FailedLoadHarmless
  BY DEF FailedLoadHarmless
<1>3. TasksInv /\ Spelled /\ [Next]_vars => [A]_vars
  BY <1>1
<1> HIDE DEF A
<1>4. Spec => [][A]_vars
  BY <1>3, SpelledAlways, PTL DEF Spec
<1> QED BY <1>2, <1>4
-----------------------------------------------------------------------------
(* The run queue. *)

\* The number of tasks.
LEMMA ListLength ==
  ASSUME TasksInv, NEW n \in Nat \ {0}, NEW q, ListSpells(n, q)
  PROVE  Cardinality(live) = n /\ n <= MaxProcesses
<1>1. q \in Bijection(1 .. n, live)
  BY DEF ListSpells, Bijection, Injection, Surjection, IsInjective
<1>2. IsFiniteSet(1 .. n) /\ Cardinality(1 .. n) = n
  BY FS_Interval
<1>3. IsFiniteSet(live) /\ Cardinality(live) = n
  BY <1>1, <1>2, FS_Bijection DEF ExistsBijection
<1>4. IsFiniteSet(Slots) /\ Cardinality(Slots) = MaxProcesses
  <2>1. 0 \in Int /\ MaxProcesses - 1 \in Int /\ ~(0 > MaxProcesses - 1)
    BY TasksAssumption
  <2>2. (MaxProcesses - 1) - 0 + 1 = MaxProcesses
    BY TasksAssumption
  <2> QED BY <2>1, <2>2, FS_Interval DEF Slots
<1>5. PICK f : f = [t \in live |-> task_process[t]]
  OBVIOUS
<1>6. f \in Injection(live, Slots)
  <2>1. \A t \in live : task_process[t] \in Slots /\ processes[task_process[t]].task = t
    BY DEF TasksInv, TablesMirror, Registered
  <2> QED BY <1>5, <2>1 DEF Injection, IsInjective
<1>7. Cardinality(live) <= Cardinality(Slots)
  BY <1>4, <1>6, FS_Injection
<1> QED BY <1>3, <1>4, <1>7

\* Following next from task_head visits the tasks of the list one after the other.
LEMMA Walked ==
  ASSUME TasksInv, NEW n \in Nat \ {0}, NEW q, ListSpells(n, q)
  PROVE  RunQueueOfList = q
<1> DEFINE Step(k, at) == IF k = 0 THEN tasks.head
                          ELSE IF at[k - 1] = NULL THEN NULL ELSE tasks.next[at[k - 1]]
           Loop(at) == at = [k \in 0 .. MaxProcesses |-> Step(k, at)]
           w == CHOOSE at : Loop(at)
           g == [k \in 0 .. MaxProcesses |-> IF k < n THEN q[k + 1] ELSE NULL]
<1>1. Walk = w
  BY DEF Walk
<1>2. /\ q \in [1 .. n -> live] /\ tasks.head = q[1]
      /\ \A i \in 1 .. n : q[i] /= NULL /\ tasks.next[q[i]] = IF i = n THEN NULL ELSE q[i + 1]
  <2>1. NULL \notin live
    BY TasksAssumption DEF TasksInv, TypeOK
  <2> QED BY <2>1 DEF ListSpells
<1>3. Cardinality(live) = n /\ n <= MaxProcesses /\ MaxProcesses \in Nat
  BY ListLength, TasksAssumption
<1>4. ASSUME NEW k \in 0 .. MaxProcesses PROVE g[k] = Step(k, g)
  <2>1. CASE k = 0
    BY <1>2, <1>3, <2>1
  <2>2. CASE k /= 0 /\ k < n
    <3>1. k \in 1 .. n /\ k /= n /\ k - 1 \in 0 .. MaxProcesses /\ k - 1 < n /\ (k - 1) + 1 = k
      BY <1>3, <2>2
    <3>2. g[k - 1] = q[k] /\ g[k] = q[k + 1]
      BY <2>2, <3>1
    <3> QED BY <1>2, <2>2, <3>1, <3>2
  <2>3. CASE k = n
    <3>1. k \in 1 .. n /\ k - 1 \in 0 .. MaxProcesses /\ k - 1 < n /\ (k - 1) + 1 = k /\ ~(k < n)
      BY <1>3, <2>3
    <3>2. g[k - 1] = q[k] /\ g[k] = NULL
      BY <3>1
    <3> QED BY <1>2, <2>3, <3>1, <3>2
  <2>4. CASE k > n
    <3>1. k - 1 \in 0 .. MaxProcesses /\ ~(k - 1 < n) /\ ~(k < n) /\ k /= 0
      BY <1>3, <2>4
    <3>2. g[k - 1] = NULL /\ g[k] = NULL
      BY <3>1
    <3> QED BY <3>1, <3>2
  <2> QED BY <1>3, <2>1, <2>2, <2>3, <2>4
<1>5. Loop(g)
  BY <1>4
<1>6. Loop(w)
  <2> HIDE DEF Loop, g
  <2> QED BY <1>5
<1> HIDE DEF w, g
<1>7. \A k \in 0 .. MaxProcesses : w[k] = Step(k, w)
  BY <1>6
<1> HIDE DEF Loop
<1> DEFINE T == {k \in Nat : k < n => w[k] = q[k + 1]}
<1>8. 0 \in T
  BY <1>2, <1>3, <1>7
<1>9. ASSUME NEW k \in Nat, k \in T PROVE k + 1 \in T
  <2> SUFFICES ASSUME k + 1 < n PROVE w[k + 1] = q[(k + 1) + 1]
    OBVIOUS
  <2>1. /\ k + 1 \in 0 .. MaxProcesses /\ k + 1 /= 0 /\ (k + 1) - 1 = k
        /\ k + 1 \in 1 .. n /\ k + 1 /= n /\ w[k] = q[k + 1]
    BY <1>3, <1>9
  <2>2. w[k + 1] = tasks.next[q[k + 1]]
    BY <1>2, <1>7, <2>1
  <2> QED BY <1>2, <2>1, <2>2
<1>10. \A k \in Nat : k \in T
  <2> HIDE DEF T
  <2> QED BY <1>8, <1>9, SetInduction
<1>11. ASSUME NEW k \in 1 .. n PROVE w[k - 1] = q[k]
  <2>1. k - 1 \in Nat /\ k - 1 < n /\ (k - 1) + 1 = k
    OBVIOUS
  <2> QED BY <1>10, <2>1
<1>12. RunQueueOfList = [k \in 1 .. n |-> w[k - 1]]
  BY <1>1, <1>3 DEF RunQueueOfList
<1> QED BY <1>2, <1>11, <1>12

\* The invariant of the list.
THEOREM TasksListInvariant == ShippedPrograms => (Spec => []ListInv)
<1> SUFFICES ASSUME ShippedPrograms PROVE Spec => []ListInv
  OBVIOUS
<1>1. ASSUME TasksInv, Spelled PROVE ListInv
  <2>1. ASSUME mode = "user"
        PROVE  /\ ListSpells(Cardinality(live), RunQueueOfList)
               /\ LaunchersFirst(Cardinality(live), RunQueueOfList)
               /\ Cardinality(live) \in 1 .. MaxProcesses
    <3>1. PICK n \in Nat \ {0} : \E q : ListSpells(n, q) /\ LaunchersFirst(n, q)
      BY <1>1, <2>1 DEF Spelled
    <3>2. PICK q : ListSpells(n, q) /\ LaunchersFirst(n, q)
      BY <3>1
    <3>3. Cardinality(live) = n /\ n <= MaxProcesses /\ RunQueueOfList = q
      BY <1>1, <3>2, ListLength, Walked
    <3>4. n \in 1 .. MaxProcesses
      BY <3>3, TasksAssumption
    <3> QED BY <3>2, <3>3, <3>4
  <2> QED BY <1>1, <2>1 DEF ListInv, Spelled
<1>2. TasksInv /\ Spelled => ListInv
  BY <1>1
<1> QED BY <1>2, SpelledAlways, PTL

\* What Walked says, as a state predicate.
WalkedIsQueue == \A n \in Nat \ {0} : \A q : ListSpells(n, q) => RunQueueOfList = q

LEMMA WalkedAlways == TasksInv => WalkedIsQueue
  BY Walked DEF WalkedIsQueue

NoTasksNoQueue == live = {} => RunQueueOfList = << >>

LEMMA EmptyQueue == NoTasksNoQueue
<1> SUFFICES ASSUME live = {} PROVE RunQueueOfList = << >>
  BY DEF NoTasksNoQueue
<1>1. Cardinality(live) = 0
  BY FS_EmptySet
<1>2. PICK w : w = Walk
  OBVIOUS
<1>3. RunQueueOfList = [k \in 1 .. 0 |-> w[k - 1]]
  BY <1>1, <1>2 DEF RunQueueOfList
<1> QED BY <1>3

\* A function on 1 .. n is a sequence of length n.
LEMMA QueueIsSequence ==
  ASSUME NEW n \in Nat, NEW S, NEW q \in [1 .. n -> S]
  PROVE  q \in Seq(S) /\ Len(q) = n /\ DOMAIN q = 1 .. n
  OBVIOUS

LEMMA LongerAppends ==
  ASSUME NEW n \in Nat, NEW S, NEW q \in [1 .. n -> S], NEW t \in S
  PROVE  Longer(n, q, t) = Append(q, t)
<1>1. q \in Seq(S) /\ Len(q) = n
  BY QueueIsSequence
<1>2. /\ Append(q, t) \in Seq(S) /\ Len(Append(q, t)) = n + 1
      /\ \A i \in 1 .. n : Append(q, t)[i] = q[i]
      /\ Append(q, t)[n + 1] = t
  BY <1>1, AppendProperties
<1>3. PICK r \in Seq(S) : r = Append(q, t)
  BY <1>2
<1>4. PICK l : l = Longer(n, q, t)
  OBVIOUS
<1>5. l \in [1 .. (n + 1) -> S] /\ \A i \in 1 .. (n + 1) : l[i] = IF i = n + 1 THEN t ELSE q[i]
  BY <1>4 DEF Longer
<1>6. l \in Seq(S) /\ Len(l) = n + 1
  BY <1>5, QueueIsSequence
<1>7. \A i \in 1 .. Len(l) : l[i] = r[i]
  BY <1>2, <1>3, <1>5, <1>6
<1>8. l = r
  BY <1>2, <1>3, <1>6, <1>7, SeqEqual
<1> QED BY <1>3, <1>4, <1>8

\* Every step of the list is one of the run queue.
LEMMA QueueStep ==
  ASSUME ShippedPrograms, TasksInv, Spelled, [Next]_vars
  PROVE  [Queue!Next]_<<RunQueueOfList, tasks.current>>
<1>1. WalkedIsQueue /\ WalkedIsQueue'
  <2>1. TasksInv'
    BY NextPreservesTasksInv
  <2>2. TasksInv' => WalkedIsQueue'
    BY WalkedAlways, PTL
  <2> QED BY <2>1, <2>2, WalkedAlways
<1>2. CASE mode = "user"
  <2>1. PICK n \in Nat \ {0} : \E q : ListSpells(n, q) /\ LaunchersFirst(n, q)
    BY <1>2 DEF Spelled
  <2>2. PICK q : ListSpells(n, q) /\ LaunchersFirst(n, q)
    BY <2>1
  <2>3. RunQueueOfList = q /\ live \subseteq Addresses
    BY <1>1, <2>2 DEF WalkedIsQueue, TasksInv, TypeOK
  <2>4. /\ q \in [1 .. n -> live] /\ q \in Seq(live) /\ Len(q) = n /\ DOMAIN q = 1 .. n
        /\ \A u \in live : \E i \in 1 .. n : q[i] = u
    BY <2>2, QueueIsSequence DEF ListSpells
  <2>5. CASE program(Running) \in Launchers /\ \E prog \in Programs : Starts(n, q, prog)
    <3>1. PICK t \in Addresses \ live : tasks'.current = t /\ ListSpells(n + 1, Longer(n, q, t))'
      BY <2>5 DEF Starts
    <3>2. n + 1 \in Nat \ {0}
      OBVIOUS
    <3>3. RunQueueOfList' = Longer(n, q, t)
      BY <1>1, <3>1, <3>2 DEF WalkedIsQueue
    <3>4. Longer(n, q, t) = Append(q, t)
      <4>1. q \in [1 .. n -> Addresses] /\ t \in Addresses /\ n \in Nat
        BY <2>3, <2>4
      <4> QED BY <4>1, LongerAppends
    <3>5. t \notin {q[i] : i \in DOMAIN q}
      BY <2>4
    <3> QED BY <2>3, <3>1, <3>3, <3>4, <3>5 DEF Queue!Next, Queue!Start, Queue!Members
  <2>6. CASE Fails(n, q)
    <3>1. ListSpells(n, q)'
      BY <1>2, <2>2, <2>6, FailsSpells
    <3>2. RunQueueOfList' = q
      BY <1>1, <3>1 DEF WalkedIsQueue
    <3> QED BY <2>3, <2>6, <3>2 DEF Fails
  <2>7. CASE Ends(n, q)
    <3>1. n - 1 \in Nat \ {0} /\ ListSpells(n - 1, Shorter(n, q))'
      BY <1>2, <2>2, <2>7, EndsSpells
    <3>2. RunQueueOfList' = Shorter(n, q)
      BY <1>1, <3>1 DEF WalkedIsQueue
    <3>3. Shorter(n, q) = [j \in 1 .. (Len(q) - 1) |-> IF j < n THEN q[j] ELSE q[j + 1]]
      BY <2>4 DEF Shorter
    <3>4. n \in DOMAIN q /\ q[n] = tasks.current
      BY <2>4, <2>7 DEF Ends, Running
    <3>5. tasks'.current \in {Shorter(n, q)[i] : i \in DOMAIN Shorter(n, q)}
      <4>1. PICK i \in 1 .. (n - 1) : Shorter(n, q)[i] = tasks'.current
        BY <2>7, <3>1 DEF ListSpells, Ends
      <4> QED BY <4>1 DEF Shorter
    <3> QED BY <2>3, <3>2, <3>3, <3>4, <3>5 DEF Queue!Next, Queue!End, Queue!Members
  <2> QED BY <1>2, <2>2, <2>5, <2>6, <2>7, ShippedStep
<1>3. CASE mode /= "user"
  <2>1. live = {} /\ tasks.current = NULL
    BY <1>3 DEF Spelled
  <2>2. RunQueueOfList = << >>
    BY <2>1, EmptyQueue DEF NoTasksNoQueue
  <2>3. CASE mode = "boot" /\ process_load_switch(Shell, TRUE)
    <3>1. PICK q : ListSpells(1, q)' /\ q[1] = tasks'.current
      BY <2>3, BootSpells
    <3>2. RunQueueOfList' = q /\ 1 \in Nat \ {0}
      BY <1>1, <3>1 DEF WalkedIsQueue
    <3>3. PICK t \in Addresses : t = tasks'.current
      <4>1. TasksInv' /\ mode' = "user"
        BY <2>3, NextPreservesTasksInv, BootSpells
      <4> QED BY <4>1 DEF TasksInv, TypeOK, UserListInUse, Running
    <3>4. q \in [1 .. 1 -> {t}]
      <4>1. q \in [1 .. 1 -> live'] /\ \A i \in 1 .. 1 : i = 1
        BY <3>1 DEF ListSpells
      <4> QED BY <3>1, <3>3, <4>1
    <3>5. q = Append(<< >>, t)
      BY <3>1, <3>3, <3>4
    <3>6. t \notin {<< >>[i] : i \in DOMAIN << >>}
      OBVIOUS
    <3> QED BY <2>2, <3>2, <3>3, <3>5, <3>6 DEF Queue!Next, Queue!Start, Queue!Members
  <2>4. CASE UNCHANGED <<tasks, live>>
    <3>1. live' = {} /\ tasks'.current = tasks.current
      BY <2>1, <2>4
    <3>2. NoTasksNoQueue'
      BY EmptyQueue, PTL
    <3> QED BY <2>2, <3>1, <3>2 DEF NoTasksNoQueue
  <2> QED BY <1>3, <2>3, <2>4 DEF Next, vars, Halted, kernel_main, process_load_without_memory,
        ShippedPrograms, isr80h_command6_process_load_start, isr80h_command7_invoke_system_command,
        Launches, isr80h_command9_exit, idt_handle_exception
<1> QED BY <1>2, <1>3

\* With the shipped programs the doubly linked list implements the run queue:
\* walked from its head it holds the tasks in the order in which they were
\* started, and the one that runs is among them.
THEOREM TasksImplementRunQueue == ShippedPrograms => (Spec => ImplementsRunQueue)
<1> SUFFICES ASSUME ShippedPrograms PROVE Spec => ImplementsRunQueue
  OBVIOUS
<1>1. Init => Queue!Init
  BY EmptyQueue DEF Init, Queue!Init, NoTasksNoQueue
<1>2. TasksInv /\ Spelled /\ [Next]_vars => [Queue!Next]_<<RunQueueOfList, tasks.current>>
  BY QueueStep
<1> QED BY <1>1, <1>2, SpelledAlways, PTL DEF Spec, ImplementsRunQueue, Queue!Spec
-----------------------------------------------------------------------------
(* Entering and leaving the kernel. *)

\* Every step of the system is a step of Tasks, or leaves the tasks alone.
LEMMA SystemStepIsTasksStep ==
  ASSUME [SystemNext]_systemVars PROVE [Next]_vars
<1>1. CASE boot \/ system_halted
  BY <1>1 DEF boot, system_halted, Next
<1>2. CASE isr80h_handle_command
  BY <1>2 DEF isr80h_handle_command, Next
<1>3. CASE callback
  BY <1>3 DEF callback, idt_clock, Next
<1>4. CASE UNCHANGED systemVars \/ divide \/ wrapper_return \/ int_0_handler \/ leave
  BY <1>4 DEF systemVars, divide, wrapper_return, int_0_handler, leave
<1>5. ASSUME NEW v \in Values, start(v) PROVE UNCHANGED vars
  BY <1>5 DEF start
<1>6. ASSUME NEW command \in Commands, NEW v \in Values, isr80h_wrapper(command, v)
      PROVE  UNCHANGED vars
  BY <1>6 DEF isr80h_wrapper
<1>7. ASSUME NEW n, interrupt_handler(n) PROVE UNCHANGED vars
  BY <1>7 DEF interrupt_handler
<1> QED BY <1>1, <1>2, <1>3, <1>4, <1>5, <1>6, <1>7 DEF SystemNext

\* What is proved of Tasks holds of the system, whose module extends it.
LEMMA SystemIsTasks == SystemSpec => Spec
<1>1. SystemInit => Init
  BY DEF SystemInit
<1>2. [SystemNext]_systemVars => [Next]_vars
  BY SystemStepIsTasksStep
<1> QED BY <1>1, <1>2, PTL DEF SystemSpec, Spec
-----------------------------------------------------------------------------
(* What steps of Tasks do to the tasks. *)

\* A load ends outside user mode, or appends at most one task, which is the only
\* other one that can be current afterwards.
LEMMA LoadStep ==
  ASSUME TasksInv, NEW prog \in Programs,
         \/ isr80h_command6_process_load_start(prog)
         \/ isr80h_command7_invoke_system_command(prog),
         mode' = "user"
  PROVE  /\ live \subseteq live' /\ Running \in live
         /\ tasks'.current = Running \/ tasks'.current \in live' \ live
<1> USE DEF Undefined
<1>1. mode = "user" /\ Running \in live /\ live \subseteq Addresses
  BY DEF isr80h_command6_process_load_start, isr80h_command7_invoke_system_command, Launches,
         TasksInv, UserListInUse, TypeOK
<1>2. tasks \in TaskLists /\ tasks.head \in live /\ tasks.head /= NULL
  BY <1>1, TasksAssumption DEF TasksInv, TypeOK, UserListInUse
<1>3. ASSUME NEW t \in Addresses \ live, task_new_defined(tasks)
      PROVE  /\ task_new(tasks, t) \in TaskLists
             /\ task_new(tasks, t).current = Running
             /\ task_new(tasks, t).head = tasks.head
  <2>1. tasks.tail \in Addresses
    BY <1>1, <1>2, <1>3 DEF task_new_defined
  <2> QED BY <1>2, <2>1, task_newType DEF Running
<1>4. ASSUME NEW switch \in BOOLEAN, process_load_switch(prog, switch)
      PROVE  /\ live \subseteq live'
             /\ tasks'.current = Running \/ tasks'.current \in live' \ live
  <2>1. PICK t \in Addresses \ live :
          /\ task_new_defined(tasks)
          /\ tasks' = IF switch THEN task_switch(task_new(tasks, t), t) ELSE task_new(tasks, t)
          /\ live' = live \cup {t}
    BY <1>4 DEF process_load_switch
  <2>2. /\ task_new(tasks, t) \in TaskLists
        /\ task_new(tasks, t).current = Running
    BY <1>3, <2>1
  <2> QED BY <2>1, <2>2 DEF task_switch, TaskLists
<1>5. ASSUME process_load_unmappable
      PROVE  live' = live /\ tasks'.current = Running
  <2>1. PICK t \in Addresses \ live :
          /\ task_new_defined(tasks)
          /\ tasks' = task_list_remove(task_new(tasks, t), t)
          /\ live' = live
    BY <1>5 DEF process_load_unmappable
  <2>2. /\ task_new(tasks, t) \in TaskLists
        /\ task_new(tasks, t).current = Running
    BY <1>3, <2>1
  <2> QED BY <1>1, <2>1, <2>2, TasksAssumption, task_list_removeType
<1>6. ASSUME process_load_fails PROVE live' = live /\ tasks'.current = Running
  BY <1>6 DEF process_load_fails, vars, Running
<1> QED BY <1>1, <1>4, <1>5, <1>6
        DEF isr80h_command6_process_load_start, isr80h_command7_invoke_system_command,
            process_load_without_memory

\* An end that does not stop the system frees the running task and no other.
LEMMA EndStep ==
  ASSUME TasksInv, mode = "user", process_terminate_and_next, mode' = "user"
  PROVE  live' = live \ {Running}
  BY EndedProcess DEF process_terminate_and_next, Undefined

\* The kernel comes to user mode with the task of the shell and no other.
LEMMA BootStep ==
  ASSUME TasksInv, kernel_main
  PROVE  live = {}
  BY DEF kernel_main, TasksInv, BootEmpty
-----------------------------------------------------------------------------
(* The invariant. *)

LEMMA ConstantTypes ==
  /\ Zero \in Registers /\ task_init \in Registers /\ task_init.ip = "_start"
  /\ InUserCode \in Kernels /\ InUserCode.point = "none"
  /\ EmptyStack \in Words
  /\ NoCall \in Calls
<1>1. Zero \in Registers
  BY DEF Zero, Registers
<1>2. task_init \in Registers /\ task_init.ip = "_start"
  BY <1>1 DEF task_init, Registers
<1>3. InUserCode \in Kernels /\ InUserCode.point = "none"
  BY <1>1 DEF InUserCode, Kernels
<1>4. EmptyStack \in Words
  BY DEF EmptyStack, Words
<1>5. NoCall \in Calls
  BY DEF NoCall, Calls
<1> QED BY <1>1, <1>2, <1>3, <1>4, <1>5

\* What system calls 6 and 7 answer.
LEMMA LaunchAnswers ==
  ASSUME NEW call \in Calls, call.command \in {6, 7}, NEW eax \in Int,
         call.command = 6 => eax \in {0, 6}, call.command = 7 => eax \in {-1, 7}
  PROVE  Answers(call, eax)
<1>1. call.command \notin Registered80 => eax = 0
  BY SystemCallsAssumption
<1>2. call.command = 0 => eax = call.value + call.value
  OBVIOUS
<1> QED BY <1>1, <1>2 DEF Answers

\* restore_general_purpose_registers loses ebp, which a program inside a call
\* does not need: a task that waits can be resumed.
LEMMA RestoredFits ==
  ASSUME NEW call \in Calls, NEW words \in Words, NEW saved \in Registers,
         Waits(call, words, saved)
  PROVE  /\ restore_general_purpose_registers(saved) \in Registers
         /\ Fits(call, words, restore_general_purpose_registers(saved))
<1> DEFINE f == restore_general_purpose_registers(saved)
<1> SUFFICES f \in Registers /\ Fits(call, words, f)
  OBVIOUS
<1>1. KernelStack \in Int
  BY SystemCallsAssumption
<1>2. /\ f \in Registers
      /\ f.eax = saved.eax /\ f.ebx = saved.ebx /\ f.esp = saved.esp /\ f.ip = saved.ip
  BY <1>1 DEF restore_general_purpose_registers, Registers
<1> HIDE DEF f
<1>3. CASE saved = task_init
  BY <1>2, <1>3, ConstantTypes DEF Fits
<1>4. CASE SavedInCall(call, words, saved) /\ call.command \in {6, 7}
  <2>1. /\ f.eax = call.command /\ f.ebx = call.value
        /\ f.esp = Pushed(call.command) /\ f.ip = "int 0x80"
        /\ words[3] = call.value
    BY <1>2, <1>4 DEF SavedInCall, AtInt80
  <2>2. f.eax \in Int /\ (call.command = 6 => f.eax = 6)
    BY <1>2, <2>1 DEF Registers
  <2>3. call.command = 7 => f.eax = 7
    BY <2>1
  <2>4. Answers(call, f.eax)
    BY <1>4, <2>2, <2>3, LaunchAnswers
  <2> QED BY <1>2, <2>1, <2>4 DEF Fits
<1> QED BY <1>2, <1>3, <1>4 DEF Waits

\* What Renewed does to the tasks that stay and to the new ones.
LEMMA RenewedWaits ==
  ASSUME SystemInv, TypeOK', Renewed
  PROVE  /\ registers' \in [Addresses -> Registers]
         /\ stack' \in [Addresses -> Words]
         /\ calls' \in [Addresses -> Calls]
         /\ \A t \in live' \cap live :
              registers'[t] = registers[t] /\ stack'[t] = stack[t] /\ calls'[t] = calls[t]
         /\ \A t \in live' \ live : Waits(calls'[t], stack'[t], registers'[t])
<1>1. live \subseteq Addresses /\ live' \subseteq Addresses
  BY DEF SystemInv, TasksInv, TypeOK
<1>2. /\ registers' \in [Addresses -> Registers]
      /\ stack' \in [Addresses -> Words]
      /\ calls' \in [Addresses -> Calls]
  BY ConstantTypes DEF Renewed, SystemInv, SystemTypeOK
<1>3. ASSUME NEW t \in live' \cap live
      PROVE  registers'[t] = registers[t] /\ stack'[t] = stack[t] /\ calls'[t] = calls[t]
  BY <1>1, <1>3 DEF Renewed
<1>4. ASSUME NEW t \in live' \ live
      PROVE  Waits(calls'[t], stack'[t], registers'[t])
  BY <1>1, <1>4 DEF Renewed, Waits
<1> QED BY <1>2, <1>3, <1>4

\* Resuming a task among tasks that all wait.
LEMMA ResumePreservesSystemInv ==
  ASSUME SystemInv, TasksInv', mode' = "user", Resume,
         \A t \in live' \cap live : Waits(calls[t], stack[t], registers[t])
  PROVE  SystemInv'
<1>1. tasks'.current \in live' /\ live' \subseteq Addresses /\ Running' = tasks'.current
  BY DEF TasksInv, TypeOK, UserListInUse, Running
<1>2. /\ \A t \in live' : Waits(calls'[t], stack'[t], registers'[t])
      /\ registers' \in [Addresses -> Registers]
      /\ stack' \in [Addresses -> Words]
      /\ calls' \in [Addresses -> Calls]
  BY RenewedWaits DEF Resume, TasksInv
<1>3. /\ cpu' = restore_general_purpose_registers(registers'[Running'])
      /\ segments' = "user" /\ interrupts' = TRUE
      /\ directory' = Running' /\ kernel' = InUserCode
  BY <1>1 DEF Resume, task_return
<1>4. cpu' \in Registers /\ Fits(calls'[Running'], stack'[Running'], cpu')
  BY <1>1, <1>2, <1>3, RestoredFits
<1>5. kernel'.point = "none"
  BY <1>3, ConstantTypes
<1>6. SystemTypeOK'
  BY <1>2, <1>3, <1>4, ConstantTypes DEF SystemTypeOK
<1>7. RightAddressSpace'
  BY <1>3, <1>5 DEF RightAddressSpace, UserMode
<1>8. WaitingTasksAreSaved'
  BY <1>2 DEF WaitingTasksAreSaved
<1>9. RunningTaskFits'
  BY <1>4, <1>5 DEF RunningTaskFits
<1> QED BY <1>6, <1>7, <1>8, <1>9 DEF SystemInv

\* Where nothing follows, nothing is claimed.
LEMMA StopPreservesSystemInv ==
  ASSUME SystemInv, TasksInv', mode' /= "user", UNCHANGED context
  PROVE  SystemInv'
  BY DEF context, SystemInv, SystemTypeOK, RightAddressSpace, UserMode, WaitingTasksAreSaved,
         RunningTaskFits

\* An answer that fits the registers the program was interrupted with.
LEMMA AnswerPreservesSystemInv ==
  ASSUME SystemInv, TasksInv', mode = "user", mode' = "user", Running' = Running,
         kernel.point \in {"command", "interrupt"}, NEW result \in Int, Answer(result),
         registers' \in [Addresses -> Registers],
         stack' \in [Addresses -> Words],
         calls' \in [Addresses -> Calls],
         \A t \in live' \ {Running} : Waits(calls'[t], stack'[t], registers'[t]),
         Fits(calls'[Running], stack'[Running], [kernel.frame EXCEPT !.eax = result])
  PROVE  SystemInv'
<1>1. kernel \in Kernels /\ cpu \in Registers
  BY DEF SystemInv, SystemTypeOK
<1>2. /\ kernel' \in Kernels /\ kernel'.point = "leave"
      /\ kernel'.frame = kernel.frame /\ kernel'.result = result
  BY <1>1 DEF Answer, Kernels
<1>3. SystemTypeOK'
  BY <1>1, <1>2 DEF SystemTypeOK, Answer
<1>4. RightAddressSpace'
  BY <1>2 DEF SystemInv, RightAddressSpace, UserMode, Answer
<1>5. WaitingTasksAreSaved'
  BY DEF WaitingTasksAreSaved
<1>6. RunningTaskFits'
  BY <1>2 DEF RunningTaskFits
<1> QED BY <1>3, <1>4, <1>5, <1>6 DEF SystemInv

\* An answer to the call the kernel is at.
LEMMA CallFits ==
  ASSUME NEW call \in Calls, NEW words \in Words, NEW frame \in Registers,
         SavedInCall(call, words, frame), NEW result \in Int, Answers(call, result)
  PROVE  Fits(call, words, [frame EXCEPT !.eax = result])
<1> DEFINE f == [frame EXCEPT !.eax = result]
<1>1. /\ f.eax = result /\ f.ebx = frame.ebx /\ f.esp = frame.esp /\ f.ip = frame.ip
  BY DEF Registers
<1>2. frame.ebx = call.value /\ frame.esp = Pushed(call.command) /\ frame.ip = "int 0x80"
  BY DEF SavedInCall, AtInt80
<1> HIDE DEF f
<1>3. Fits(call, words, f)
  BY <1>1, <1>2 DEF Fits, SavedInCall
<1> QED BY <1>3 DEF f

\* A step of a program, or its entry to the kernel, that leaves the tasks alone.
LEMMA UserStep ==
  ASSUME SystemInv, UNCHANGED vars
  PROVE  /\ TasksInv' /\ mode' = mode /\ live' = live /\ Running' = Running
         /\ mode = "user" => Running \in live /\ Running \in Addresses
<1>1. TasksInv'
  BY StutterPreservesTasksInv DEF SystemInv
<1> QED BY <1>1 DEF vars, Running, SystemInv, TasksInv, TypeOK, UserListInUse

LEMMA startPreservesSystemInv ==
  ASSUME SystemInv, NEW v \in Values, start(v)
  PROVE  SystemInv'
<1>1. v \in Nat
  BY SystemCallsAssumption
<1>2. UNCHANGED vars /\ mode = "user" /\ kernel.point = "none"
  BY DEF start, UserMode
<1>3. /\ TasksInv' /\ mode' = mode /\ live' = live /\ Running' = Running
      /\ Running \in live /\ Running \in Addresses
  BY <1>2, UserStep
<1>4. cpu \in Registers /\ calls \in [Addresses -> Calls]
  BY DEF SystemInv, SystemTypeOK
<1>5. /\ cpu' \in Registers /\ cpu'.ip = "main"
      /\ cpu'.ebx = v /\ cpu'.ebp = v /\ cpu'.esp = InMain
  <2>1. cpu' = [cpu EXCEPT !.ip = "main", !.esp = InMain, !.ebx = v, !.ebp = v]
    BY DEF start
  <2>2. InMain \in Int /\ v \in Int
    BY <1>1 DEF InMain
  <2> QED BY <1>4, <2>1, <2>2 DEF Registers
<1>6. calls' \in [Addresses -> Calls] /\ calls'[Running].value = v
      /\ \A t \in Addresses \ {Running} : calls'[t] = calls[t]
  BY <1>1, <1>3, <1>4 DEF start, Calls
<1>7. SystemTypeOK'
  BY <1>5, <1>6 DEF start, SystemInv, SystemTypeOK
<1>8. RightAddressSpace'
  BY <1>2, <1>3 DEF start, SystemInv, RightAddressSpace, UserMode
<1>9. WaitingTasksAreSaved'
  <2>1. UNCHANGED <<registers, stack>> /\ live \subseteq Addresses
    BY DEF start, SystemInv, TasksInv, TypeOK
  <2> QED BY <1>2, <1>3, <1>6, <2>1 DEF SystemInv, WaitingTasksAreSaved
<1>10. RunningTaskFits'
  BY <1>2, <1>3, <1>5, <1>6 DEF start, RunningTaskFits, Fits
<1> QED BY <1>3, <1>7, <1>8, <1>9, <1>10 DEF SystemInv

\* A step that changes the registers of the running program and nothing else.
LEMMA CpuStepPreservesSystemInv ==
  ASSUME SystemInv, UserMode, cpu' \in Registers,
         UNCHANGED <<vars, interrupts, segments, directory, registers, stack, kernel, calls>>,
         Fits(calls[Running], stack[Running], cpu')
  PROVE  SystemInv'
<1>1. /\ TasksInv' /\ mode' = mode /\ live' = live /\ Running' = Running
  BY UserStep
<1>2. SystemTypeOK'
  BY DEF SystemInv, SystemTypeOK
<1>3. RightAddressSpace'
  BY <1>1 DEF SystemInv, RightAddressSpace, UserMode
<1>4. WaitingTasksAreSaved'
  BY <1>1 DEF SystemInv, WaitingTasksAreSaved
<1>5. RunningTaskFits'
  BY <1>1 DEF RunningTaskFits, UserMode
<1> QED BY <1>1, <1>2, <1>3, <1>4, <1>5 DEF SystemInv

LEMMA dividePreservesSystemInv ==
  ASSUME SystemInv, divide PROVE SystemInv'
<1>1. cpu \in Registers
  BY DEF SystemInv, SystemTypeOK
<1>2. cpu' \in Registers /\ cpu'.ip = "div"
  BY <1>1 DEF divide, Registers
<1>3. Fits(calls[Running], stack[Running], cpu')
  BY <1>2 DEF Fits
<1> QED BY <1>2, <1>3, CpuStepPreservesSystemInv DEF divide

\* The wrapper gives its caller the ebp it has pushed.
LEMMA wrapper_returnPreservesSystemInv ==
  ASSUME SystemInv, wrapper_return PROVE SystemInv'
<1>1. UserMode /\ cpu.ip = "int 0x80" /\ cpu \in Registers
  BY DEF wrapper_return, SystemInv, SystemTypeOK
<1>2. Running \in Addresses /\ calls[Running] \in Calls /\ stack[Running] \in Words
  BY <1>1 DEF UserMode, SystemInv, SystemTypeOK, TasksInv, TypeOK, UserListInUse
<1>3. /\ cpu.ebx = calls[Running].value
      /\ cpu.esp = Pushed(calls[Running].command)
      /\ stack[Running][3] = calls[Running].value
  BY <1>1 DEF UserMode, SystemInv, RunningTaskFits, Fits
<1>4. cpu.esp \in {3, 4}
  BY <1>3 DEF Pushed
<1>5. cpu' = [cpu EXCEPT !.ebp = stack[Running][3], !.esp = InMain, !.ip = "main"]
  <2> DEFINE depth == IF cpu.esp = 4 THEN cpu.esp - 1 ELSE cpu.esp
  <2>1. cpu' = [cpu EXCEPT !.ebp = IF depth = 3 THEN stack[Running][3] ELSE Garbage,
                           !.esp = depth - 2, !.ip = "main"]
    BY DEF wrapper_return
  <2>2. depth = 3 /\ depth - 2 = InMain
    BY <1>4 DEF InMain
  <2> HIDE DEF depth
  <2> QED BY <2>1, <2>2
<1>6. stack[Running][3] \in Int /\ InMain \in Int
  BY <1>2 DEF Words, InMain
<1>7. /\ cpu' \in Registers /\ cpu'.ip = "main" /\ cpu'.ebx = cpu.ebx
      /\ cpu'.ebp = stack[Running][3] /\ cpu'.esp = InMain
  BY <1>1, <1>5, <1>6 DEF Registers
<1>8. Fits(calls[Running], stack[Running], cpu')
  BY <1>3, <1>7 DEF Fits
<1> QED BY <1>1, <1>7, <1>8, CpuStepPreservesSystemInv DEF wrapper_return

\* isr80h_handler saves the frame of the call to the running task.
LEMMA isr80h_wrapperPreservesSystemInv ==
  ASSUME SystemInv, NEW command \in Commands, NEW v \in Values, isr80h_wrapper(command, v)
  PROVE  SystemInv'
<1> DEFINE frame == AtInt80(command, v)
<1>1. v \in Nat /\ command \in Nat
  BY SystemCallsAssumption
<1>2. UNCHANGED vars /\ mode = "user" /\ kernel.point = "none"
  BY DEF isr80h_wrapper, UserMode
<1>3. /\ TasksInv' /\ mode' = mode /\ live' = live /\ Running' = Running
      /\ Running \in live /\ Running \in Addresses /\ live \subseteq Addresses
  BY <1>2, UserStep DEF SystemInv, TasksInv, TypeOK
<1>4. /\ registers \in [Addresses -> Registers] /\ stack \in [Addresses -> Words]
      /\ calls \in [Addresses -> Calls]
  BY DEF SystemInv, SystemTypeOK
<1>5. frame \in Registers
  BY <1>1 DEF AtInt80, Pushed, Registers
<1>6. /\ kernel' = [point |-> "command", number |-> command, frame |-> frame, result |-> 0]
      /\ cpu' = Zero /\ interrupts' = FALSE /\ directory' = KernelDirectory
      /\ registers' = [registers EXCEPT ![Running] = frame]
      /\ calls' = [calls EXCEPT ![Running] = [command |-> command, value |-> v]]
  BY DEF isr80h_wrapper, kernel_page, task_save_state
<1>7. /\ kernel' \in Kernels /\ kernel'.point = "command"
      /\ kernel'.frame = frame /\ kernel'.number = command
  BY <1>1, <1>5, <1>6 DEF Kernels
<1>8. /\ calls' \in [Addresses -> Calls]
      /\ calls'[Running].command = command /\ calls'[Running].value = v
      /\ \A t \in Addresses \ {Running} : calls'[t] = calls[t]
  BY <1>1, <1>3, <1>4, <1>6 DEF Calls
<1>9. /\ registers' \in [Addresses -> Registers] /\ registers'[Running] = frame
      /\ \A t \in Addresses \ {Running} : registers'[t] = registers[t]
  BY <1>3, <1>4, <1>5, <1>6
<1>10. /\ stack' \in [Addresses -> Words]
       /\ stack'[Running][3] = v /\ (Pushed(command) = 4 => stack'[Running][4] = v)
       /\ \A t \in Addresses \ {Running} : stack'[t] = stack[t]
  <2>1. stack' = [stack EXCEPT ![Running][3] = v,
                               ![Running][4] = IF Pushed(command) = 4 THEN v ELSE @]
    BY DEF isr80h_wrapper
  <2> QED BY <1>1, <1>3, <1>4, <2>1 DEF Words
<1> HIDE DEF frame
<1>11. SystemTypeOK'
  BY <1>6, <1>7, <1>8, <1>9, <1>10, ConstantTypes DEF SystemTypeOK
<1>12. RightAddressSpace'
  BY <1>6, <1>7 DEF RightAddressSpace, UserMode
<1>13. WaitingTasksAreSaved'
  BY <1>2, <1>3, <1>8, <1>9, <1>10 DEF SystemInv, WaitingTasksAreSaved
<1>14. SavedInCall(calls'[Running], stack'[Running], frame)
  BY <1>8, <1>10 DEF SavedInCall, frame
<1>15. RunningTaskFits'
  BY <1>3, <1>7, <1>8, <1>9, <1>14 DEF RunningTaskFits
<1> QED BY <1>3, <1>11, <1>12, <1>13, <1>15 DEF SystemInv

\* An interrupt keeps the registers in the frame.
LEMMA interrupt_handlerPreservesSystemInv ==
  ASSUME SystemInv, NEW n \in Callbacks \cup Exceptions \cup Silent, interrupt_handler(n)
  PROVE  SystemInv'
<1>1. n \in Nat
  BY SystemCallsAssumption
<1>2. UNCHANGED <<vars, stack, calls>> /\ mode = "user" /\ kernel.point = "none"
  BY DEF interrupt_handler, UserMode
<1>3. /\ TasksInv' /\ mode' = mode /\ live' = live /\ Running' = Running
      /\ Running \in live /\ Running \in Addresses /\ live \subseteq Addresses
  BY <1>2, UserStep DEF SystemInv, TasksInv, TypeOK
<1>4. registers \in [Addresses -> Registers] /\ cpu \in Registers
  BY DEF SystemInv, SystemTypeOK
<1>5. /\ kernel' = [point |-> "interrupt", number |-> n, frame |-> cpu, result |-> 0]
      /\ cpu' = Zero /\ interrupts' = FALSE /\ directory' = KernelDirectory
      /\ registers' = registers \/ registers' = [registers EXCEPT ![Running] = cpu]
  BY DEF interrupt_handler, kernel_page, task_save_state
<1>6. /\ kernel' \in Kernels /\ kernel'.point = "interrupt" /\ kernel'.frame = cpu
  BY <1>1, <1>4, <1>5 DEF Kernels
<1>7. /\ registers' \in [Addresses -> Registers]
      /\ \A t \in Addresses \ {Running} : registers'[t] = registers[t]
  BY <1>3, <1>4, <1>5
<1>8. SystemTypeOK'
  BY <1>2, <1>5, <1>6, <1>7, ConstantTypes DEF SystemInv, SystemTypeOK
<1>9. RightAddressSpace'
  BY <1>5, <1>6 DEF RightAddressSpace, UserMode
<1>10. WaitingTasksAreSaved'
  BY <1>2, <1>3, <1>7 DEF SystemInv, WaitingTasksAreSaved
<1>11. RunningTaskFits'
  BY <1>2, <1>3, <1>6 DEF SystemInv, RunningTaskFits
<1> QED BY <1>3, <1>8, <1>9, <1>10, <1>11 DEF SystemInv

\* The way back to the program that was interrupted.
LEMMA leavePreservesSystemInv ==
  ASSUME SystemInv, leave PROVE SystemInv'
<1>1. UNCHANGED <<vars, registers, stack, calls>> /\ mode = "user" /\ kernel.point = "leave"
  BY DEF leave
<1>2. /\ TasksInv' /\ mode' = mode /\ live' = live /\ Running' = Running
      /\ Running \in live /\ Running \in Addresses
  BY <1>1, UserStep
<1>3. kernel \in Kernels
  BY DEF SystemInv, SystemTypeOK
<1>4. cpu' = [kernel.frame EXCEPT !.eax = kernel.result] /\ cpu' \in Registers
  BY <1>3 DEF leave, Kernels, Registers
<1>5. /\ kernel' = InUserCode /\ kernel'.point = "none"
      /\ segments' = "user" /\ directory' = Running /\ interrupts' = TRUE
  BY ConstantTypes DEF leave, task_page
<1>6. SystemTypeOK'
  BY <1>1, <1>4, <1>5, ConstantTypes DEF SystemInv, SystemTypeOK
<1>7. RightAddressSpace'
  BY <1>2, <1>5 DEF RightAddressSpace, UserMode
<1>8. WaitingTasksAreSaved'
  BY <1>1, <1>2 DEF SystemInv, WaitingTasksAreSaved
<1>9. RunningTaskFits'
  BY <1>1, <1>2, <1>4, <1>5 DEF SystemInv, RunningTaskFits
<1> QED BY <1>2, <1>6, <1>7, <1>8, <1>9 DEF SystemInv

\* What the words on the stack of the caller add up to, and what else the
\* commands that return at once answer.
LEMMA ResultsAnswer ==
  ASSUME SystemInv, mode = "user", kernel.point = "command",
         kernel.number \notin {6, 7, 9}, NEW result \in Results(kernel.number)
  PROVE  result \in Int /\ Answers(calls[Running], result)
<1> DEFINE call == calls[Running]
           words == stack[Running]
<1>1. Running \in Addresses /\ call \in Calls /\ words \in Words
  BY DEF SystemInv, SystemTypeOK, TasksInv, TypeOK, UserListInUse
<1>2. /\ kernel.number = call.command
      /\ registers[Running] = AtInt80(call.command, call.value)
      /\ words[3] = call.value /\ (Pushed(call.command) = 4 => words[4] = call.value)
  BY DEF SystemInv, RunningTaskFits, SavedInCall
<1>3. call.value \in Nat /\ call.command \in Nat
  BY <1>1 DEF Calls
<1> HIDE DEF call, words
<1>4. CASE call.command \notin Registered80
  <2>1. result = 0 /\ call.command /= 0
    BY <1>2, <1>4, SystemCallsAssumption DEF Results
  <2> QED BY <1>2, <1>4, <2>1 DEF Answers, call
<1>5. CASE call.command = 0
  <2>1. call.command \in Registered80
    BY <1>5, SystemCallsAssumption
  <2>2. registers[Running].esp = 4 /\ words[3] = call.value /\ words[4] = call.value
    <3>1. Pushed(call.command) = 4
      BY <1>5 DEF Pushed
    <3>2. AtInt80(call.command, call.value).esp = Pushed(call.command)
      BY DEF AtInt80
    <3> QED BY <1>2, <3>1, <3>2
  <2>3. DOMAIN words = {3, 4}
    BY <1>1 DEF Words
  <2>4. task_get_stack_item(Running, 0) = call.value /\ task_get_stack_item(Running, 1) = call.value
    <3>1. registers[Running].esp - 0 = 4 /\ registers[Running].esp - 1 = 3
      BY <2>2
    <3>2. /\ stack[Running][4] = call.value /\ stack[Running][3] = call.value
          /\ 4 \in DOMAIN stack[Running] /\ 3 \in DOMAIN stack[Running]
      BY <2>2, <2>3 DEF words
    <3> QED BY <3>1, <3>2 DEF task_get_stack_item
  <2>5. result = call.value + call.value
    BY <1>2, <1>5, <2>1, <2>4 DEF Results
  <2> QED BY <1>3, <1>5, <2>1, <2>5 DEF Answers, call
<1>6. CASE call.command \in Registered80 \ {0}
  <2>1. result \in Int
    BY <1>2, <1>6, SystemCallsAssumption DEF Results
  <2> QED BY <1>2, <1>6, <2>1 DEF Answers, call
<1> QED BY <1>4, <1>5, <1>6

\* The kernel at a command.
LEMMA isr80h_handle_commandPreservesSystemInv ==
  ASSUME SystemInv, TasksInv', isr80h_handle_command
  PROVE  SystemInv'
<1> DEFINE call == calls[Running]
           words == stack[Running]
<1>1. mode = "user" /\ kernel.point = "command"
  BY DEF isr80h_handle_command
<1>2. /\ Running \in live /\ Running \in Addresses /\ live \subseteq Addresses
      /\ call \in Calls /\ words \in Words /\ kernel.frame \in Registers
  BY <1>1 DEF SystemInv, SystemTypeOK, TasksInv, TypeOK, UserListInUse, Kernels
<1>3. /\ kernel.number = call.command
      /\ registers[Running] = kernel.frame /\ SavedInCall(call, words, kernel.frame)
  BY <1>1 DEF SystemInv, RunningTaskFits
<1>4. \A t \in live \ {Running} : Waits(calls[t], stack[t], registers[t])
  BY <1>1 DEF SystemInv, WaitingTasksAreSaved
<1>5. ASSUME kernel.number \notin {6, 7, 9}, NEW result \in Results(kernel.number),
             Answer(result), UNCHANGED <<vars, registers, stack, calls>>
      PROVE  SystemInv'
  <2>1. result \in Int /\ Answers(call, result)
    BY <1>1, <1>5, ResultsAnswer
  <2>2. mode' = "user" /\ Running' = Running /\ live' = live
    BY <1>1, <1>5 DEF vars, Running
  <2>3. Fits(call, words, [kernel.frame EXCEPT !.eax = result])
    BY <1>2, <1>3, <2>1, CallFits
  <2>4. /\ registers' \in [Addresses -> Registers] /\ stack' \in [Addresses -> Words]
        /\ calls' \in [Addresses -> Calls]
    BY <1>5 DEF SystemInv, SystemTypeOK
  <2> QED BY <1>1, <1>4, <1>5, <2>1, <2>2, <2>3, <2>4, AnswerPreservesSystemInv
<1>6. ASSUME NEW prog \in Programs, NEW error \in Int,
             \/ isr80h_command6_process_load_start(prog)
             \/ isr80h_command7_invoke_system_command(prog),
             call.command \in {6, 7}, Answers(call, error), ResumeOrFail(error)
      PROVE  SystemInv'
  <2>1. CASE mode' /= "user"
    BY <1>6, <2>1, StopPreservesSystemInv DEF ResumeOrFail
  <2>2. CASE mode' = "user"
    <3>1. /\ live \subseteq live'
          /\ tasks'.current = Running \/ tasks'.current \in live' \ live
      BY <1>6, <2>2, LoadStep DEF SystemInv
    <3>2. \A t \in live : Waits(calls[t], stack[t], registers[t])
      BY <1>3, <1>4, <1>6 DEF Waits
    <3>3. CASE tasks'.current /= tasks.current /\ Resume
      BY <2>2, <3>2, <3>3, ResumePreservesSystemInv
    <3>4. CASE tasks'.current = tasks.current /\ Renewed /\ Answer(error)
      <4>1. Running' = Running
        BY <3>4 DEF Running
      <4>2. /\ registers' \in [Addresses -> Registers] /\ stack' \in [Addresses -> Words]
            /\ calls' \in [Addresses -> Calls]
            /\ calls'[Running] = call /\ stack'[Running] = words
            /\ \A t \in live' : Waits(calls'[t], stack'[t], registers'[t])
        BY <1>2, <3>1, <3>2, <3>4, RenewedWaits DEF TasksInv
      <4>3. Fits(call, words, [kernel.frame EXCEPT !.eax = error])
        BY <1>2, <1>3, <1>6, CallFits
      <4> QED BY <1>1, <1>6, <2>2, <3>4, <4>1, <4>2, <4>3, AnswerPreservesSystemInv
    <3> QED BY <1>6, <2>2, <3>3, <3>4 DEF ResumeOrFail
  <2> QED BY <2>1, <2>2
<1>7. ASSUME kernel.number = 9, isr80h_command9_exit,
             IF mode' = "user" THEN Resume ELSE UNCHANGED context
      PROVE  SystemInv'
  <2>1. CASE mode' /= "user"
    BY <1>7, <2>1, StopPreservesSystemInv
  <2>2. CASE mode' = "user"
    <3>1. live' = live \ {Running}
      BY <1>1, <1>7, <2>2, EndStep DEF SystemInv, isr80h_command9_exit
    <3> QED BY <1>4, <1>7, <2>2, <3>1, ResumePreservesSystemInv
  <2> QED BY <2>1, <2>2
<1>8. ASSUME NEW c \in Calls, c.command = 6 PROVE Answers(c, 0)
  BY <1>8, LaunchAnswers
<1>9. ASSUME NEW c \in Calls, c.command = 7 PROVE Answers(c, -1)
  BY <1>9, LaunchAnswers
<1> QED BY <1>2, <1>3, <1>5, <1>6, <1>7, <1>8, <1>9 DEF isr80h_handle_command

\* The kernel at an interrupt.
LEMMA callbackPreservesSystemInv ==
  ASSUME SystemInv, TasksInv', callback
  PROVE  SystemInv'
<1>1. mode = "user" /\ kernel.point = "interrupt"
  BY DEF callback
<1>2. \A t \in live \ {Running} : Waits(calls[t], stack[t], registers[t])
  BY <1>1 DEF SystemInv, WaitingTasksAreSaved
<1>3. kernel.frame \in Registers /\ Fits(calls[Running], stack[Running], kernel.frame)
  BY <1>1 DEF SystemInv, SystemTypeOK, RunningTaskFits, Kernels
<1>4. CASE idt_handle_exception /\ IF mode' = "user" THEN Resume ELSE UNCHANGED context
  <2>1. CASE mode' /= "user"
    BY <1>4, <2>1, StopPreservesSystemInv
  <2>2. CASE mode' = "user"
    <3>1. live' = live \ {Running}
      BY <1>1, <1>4, <2>2, EndStep DEF SystemInv, idt_handle_exception
    <3> QED BY <1>2, <1>4, <2>2, <3>1, ResumePreservesSystemInv
  <2> QED BY <2>1, <2>2
<1>5. CASE UNCHANGED vars /\ Answer(kernel.frame.eax) /\ UNCHANGED <<registers, stack, calls>>
  <2>1. mode' = "user" /\ Running' = Running /\ live' = live
    BY <1>1, <1>5 DEF vars, Running
  <2>2. kernel.frame.eax \in Int /\ [kernel.frame EXCEPT !.eax = kernel.frame.eax] = kernel.frame
    BY <1>3 DEF Registers
  <2>3. /\ registers' \in [Addresses -> Registers] /\ stack' \in [Addresses -> Words]
        /\ calls' \in [Addresses -> Calls]
    BY <1>5 DEF SystemInv, SystemTypeOK
  <2> QED BY <1>1, <1>2, <1>3, <1>5, <2>1, <2>2, <2>3, AnswerPreservesSystemInv
<1> QED BY <1>4, <1>5 DEF callback, idt_clock

LEMMA InitEstablishesSystemInv == SystemInit => SystemInv
<1> SUFFICES ASSUME SystemInit PROVE SystemInv
  OBVIOUS
<1>1. TasksInv /\ mode = "boot"
  BY InitEstablishesTasksInv DEF SystemInit, Init
<1>2. SystemTypeOK
  BY ConstantTypes DEF SystemInit, SystemTypeOK
<1> QED BY <1>1, <1>2
        DEF SystemInv, RightAddressSpace, UserMode, WaitingTasksAreSaved, RunningTaskFits

\* Boot, the steps of programs, the entries to the kernel, its own steps and the
\* ways of standing still.
LEMMA NextPreservesSystemInv ==
  ASSUME SystemInv, [SystemNext]_systemVars
  PROVE  SystemInv'
<1>1. TasksInv'
  BY SystemStepIsTasksStep, NextPreservesTasksInv DEF SystemInv
<1>2. CASE boot
  <2>1. CASE mode' = "user"
    <3>1. live = {}
      BY <1>2, BootStep DEF boot, SystemInv
    <3> QED BY <1>1, <1>2, <2>1, <3>1, ResumePreservesSystemInv DEF boot
  <2>2. CASE mode' /= "user"
    BY <1>1, <1>2, <2>2, StopPreservesSystemInv DEF boot
  <2> QED BY <2>1, <2>2
<1>3. ASSUME NEW v \in Values, start(v) PROVE SystemInv'
  BY <1>3, startPreservesSystemInv
<1>4. CASE divide
  BY <1>4, dividePreservesSystemInv
<1>5. ASSUME NEW command \in Commands, NEW v \in Values, isr80h_wrapper(command, v)
      PROVE  SystemInv'
  BY <1>5, isr80h_wrapperPreservesSystemInv
<1>6. CASE wrapper_return
  BY <1>6, wrapper_returnPreservesSystemInv
<1>7. ASSUME NEW n \in Callbacks \cup Exceptions \cup Silent, interrupt_handler(n)
      PROVE  SystemInv'
  BY <1>7, interrupt_handlerPreservesSystemInv
<1>8. CASE isr80h_handle_command
  BY <1>1, <1>8, isr80h_handle_commandPreservesSystemInv
<1>9. CASE callback
  BY <1>1, <1>9, callbackPreservesSystemInv
<1>10. CASE leave
  BY <1>10, leavePreservesSystemInv
<1>11. CASE int_0_handler \/ system_halted \/ UNCHANGED systemVars
  <2>1. UNCHANGED <<vars, context>>
    BY <1>11 DEF int_0_handler, system_halted, Halted, systemVars
  <2> QED BY <1>1, <2>1
          DEF vars, context, SystemInv, SystemTypeOK, RightAddressSpace, UserMode,
              WaitingTasksAreSaved, RunningTaskFits, Running
<1> QED BY <1>2, <1>3, <1>4, <1>5, <1>6, <1>7, <1>8, <1>9, <1>10, <1>11 DEF SystemNext
-----------------------------------------------------------------------------
\* The inductive invariant of system calls and interrupts holds in every
\* reachable state.
THEOREM SystemInvariant == SystemSpec => []SystemInv
<1>1. SystemInit => SystemInv
  BY InitEstablishesSystemInv
<1>2. SystemInv /\ [SystemNext]_systemVars => SystemInv'
  BY NextPreservesSystemInv
<1> QED BY <1>1, <1>2, PTL DEF SystemSpec

\* A program always runs in the address space of its own task, with its segments
\* and interrupts enabled; the kernel in its own, with interrupts off.
THEOREM SystemRightAddressSpace == SystemSpec => []RightAddressSpace
<1>1. SystemInv => RightAddressSpace
  BY DEF SystemInv
<1> QED BY <1>1, SystemInvariant, PTL

\* Calls of the standard library preserve the registers of their caller.
THEOREM SystemCallsPreserveRegisters == SystemSpec => []CallsPreserveRegisters
<1>1. SystemInv => CallsPreserveRegisters
  BY DEF SystemInv, RunningTaskFits, CallsPreserveRegisters, UserMode, Fits
<1> QED BY <1>1, SystemInvariant, PTL

\* The answer in eax is the one to the call that returns.
THEOREM SystemAnswerFitsCall == SystemSpec => []AnswerFitsCall
<1>1. SystemInv => AnswerFitsCall
  BY DEF SystemInv, RunningTaskFits, AnswerFitsCall, UserMode, Fits
<1> QED BY <1>1, SystemInvariant, PTL
-----------------------------------------------------------------------------
(* Which process the keys go to, with the shipped programs. *)

\* Those that start programs: the shells.
Shells == {s \in Registered : processes[s].program \in Launchers}

\* Of at most one shell, any two are the same.
LEMMA OneShell ==
  ASSUME TasksInv, Cardinality(Shells) <= 1, NEW s \in Shells, NEW u \in Shells
  PROVE  s = u
<1>1. IsFiniteSet(Slots)
  <2>1. 0 \in Int /\ MaxProcesses - 1 \in Int
    BY TasksAssumption
  <2> QED BY <2>1, FS_Interval DEF Slots
<1>2. Shells \subseteq Slots
  BY DEF Shells, Registered
<1>3. IsFiniteSet(Shells) /\ Cardinality(Shells) \in Nat
  BY <1>1, <1>2, FS_Subset, FS_CardinalityType
<1>4. /\ IsFiniteSet({s, u}) /\ Cardinality({s, u}) <= Cardinality(Shells)
      /\ Cardinality({s, u}) \in Nat
  BY <1>3, FS_Subset, FS_CardinalityType
<1>5. s /= u => Cardinality({s, u}) = 2
  <2> SUFFICES ASSUME s /= u PROVE Cardinality({s, u}) = 2
    OBVIOUS
  <2>1. IsFiniteSet({s}) /\ Cardinality({s}) = 1
    BY FS_Singleton
  <2>2. {s, u} = {s} \cup {u} /\ u \notin {s}
    OBVIOUS
  <2>3. Cardinality({s} \cup {u}) = Cardinality({s}) + 1
    BY <2>1, <2>2, FS_AddElement
  <2> QED BY <2>1, <2>2, <2>3
<1> QED BY <1>3, <1>4, <1>5

OneShellEqual == \A s, u \in Shells : Cardinality(Shells) <= 1 => s = u

LEMMA OneShellAlways == TasksInv => OneShellEqual
  BY OneShell DEF OneShellEqual

\* Keys go to the process that runs, one step further: a program that starts
\* becomes the current process, and when one ends only shells are left.
LEMMA NextPreservesKeys ==
  ASSUME ShippedPrograms, TasksInv, Spelled, KeysToRunningWithOneShell, [Next]_vars
  PROVE  KeysToRunningWithOneShell'
<1> SUFFICES ASSUME mode' = "user", (Cardinality(Shells) <= 1)'
             PROVE  current_process' = task_process'[tasks'.current]
  BY DEF KeysToRunningWithOneShell, CurrentProcessRuns, Shells, Running
<1>1. TasksInv' /\ (TasksInv' => OneShellEqual')
  BY NextPreservesTasksInv, OneShellAlways, PTL
<1>2. CASE mode = "user"
  <2>1. PICK n \in Nat \ {0} : \E q : ListSpells(n, q) /\ LaunchersFirst(n, q)
    BY <1>2 DEF Spelled
  <2>2. PICK q : ListSpells(n, q) /\ LaunchersFirst(n, q)
    BY <2>1
  <2>3. ASSUME NEW prog \in Programs, Starts(n, q, prog)
        PROVE  current_process' = task_process'[tasks'.current]
    BY <2>3 DEF Starts
  <2>4. CASE Fails(n, q)
    <3>1. UNCHANGED <<processes, current_process>> /\ tasks'.current = tasks.current
      BY <2>4 DEF Fails
    <3>2. Cardinality(Shells) <= 1
      BY <3>1 DEF Shells, Registered
    <3>3. tasks.current \in live /\ current_process = task_process[tasks.current]
      BY <1>2, <3>2 DEF KeysToRunningWithOneShell, CurrentProcessRuns, Shells, Running, TasksInv,
                        UserListInUse
    <3> QED BY <2>4, <3>1, <3>3 DEF Fails
  <2>5. CASE Ends(n, q)
    <3>1. \A u \in live' : task_process'[u] \in Shells'
      <4> SUFFICES ASSUME NEW u \in live' PROVE task_process'[u] \in Shells'
        OBVIOUS
      <4>1. program(u)' \in Launchers
        BY <1>2, <2>2, <2>5, EndsSpells
      <4>2. task_process'[u] \in Registered'
        BY <1>1 DEF TasksInv, TablesMirror
      <4> QED BY <4>1, <4>2 DEF Shells, program
    <3>2. task_process'[tasks'.current] \in Shells'
      BY <2>5, <3>1 DEF Ends
    <3>3. current_process' \in Shells'
      <4>1. current_process' \in Registered'
        BY <1>1 DEF TasksInv, CurrentProcessRegistered
      <4>2. PICK u \in live' : task_process'[u] = current_process'
        BY <1>1, <4>1 DEF TasksInv, TablesMirror
      <4> QED BY <3>1, <4>2
    <3> QED BY <1>1, <3>2, <3>3 DEF OneShellEqual
  <2> QED BY <1>2, <2>2, <2>3, <2>4, <2>5, ShippedStep
<1>3. CASE kernel_main
  <2>1. process_load_switch(Shell, TRUE)
    BY <1>3 DEF kernel_main, process_load_without_memory, ShippedPrograms
  <2>2. tasks \in TaskLists /\ task_new_defined(tasks)
    BY <1>3 DEF kernel_main, TasksInv, TypeOK, BootEmpty, task_new_defined
  <2>3. PICK s \in process_get_free_slot, t \in Addresses \ live :
          /\ tasks' = task_switch(task_new(tasks, t), t)
          /\ task_process' = [task_process EXCEPT ![t] = s]
          /\ current_process' = s
    BY <2>1, <2>2 DEF process_load_switch
  <2>4. tasks'.current = t
    BY <2>2, <2>3, <1>3 DEF task_new, task_switch, TaskLists, kernel_main, TasksInv, BootEmpty
  <2>5. task_process'[t] = s
    BY <2>3 DEF TasksInv, TypeOK
  <2> QED BY <2>3, <2>4, <2>5
<1>4. CASE mode /= "user" /\ ~kernel_main
  BY <1>4 DEF Next, Halted, vars, isr80h_command6_process_load_start,
        isr80h_command7_invoke_system_command, Launches, isr80h_command9_exit, idt_handle_exception
<1> QED BY <1>2, <1>3, <1>4

\* With the shipped programs keys go to the process that runs for as long as one
\* shell runs: current_process, which a program that ends sets to the process of
\* the lowest slot, is the one whose task task_get_next chooses.
THEOREM SystemKeysToRunningWithOneShell ==
  ShippedPrograms => (SystemSpec => []KeysToRunningWithOneShell)
<1> SUFFICES ASSUME ShippedPrograms PROVE SystemSpec => []KeysToRunningWithOneShell
  OBVIOUS
<1>1. Init => KeysToRunningWithOneShell
  BY DEF Init, KeysToRunningWithOneShell
<1>2. TasksInv /\ Spelled /\ KeysToRunningWithOneShell /\ [Next]_vars => KeysToRunningWithOneShell'
  BY NextPreservesKeys
<1>3. SystemSpec => Spec
  BY SystemIsTasks
<1> QED BY <1>1, <1>2, <1>3, SpelledAlways, PTL DEF Spec
=============================================================================
