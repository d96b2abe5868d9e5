------------------------------ MODULE RunQueue ------------------------------
(***************************************************************************)
(* What the task list is for: the tasks in the order in which they were     *)
(* started, and the one that runs.  A task that is started goes to the end  *)
(* of the queue and runs; a task that ends leaves the queue, the others     *)
(* keep their order, and one of them runs.  The module Tasks implements     *)
(* this specification with the shipped programs.                            *)
(***************************************************************************)
EXTENDS Integers, Sequences

CONSTANTS
  Addresses,   \* the addresses of task structures
  NULL

VARIABLES
  queue,    \* the tasks, in the order in which they were started
  running   \* the task that runs

Members == {queue[i] : i \in DOMAIN queue}

Init == queue = << >> /\ running = NULL

Start ==
  \E t \in Addresses \ Members :
    /\ queue' = Append(queue, t)
    /\ running' = t

\* The last task to end leaves nothing to run: the kernel panics.
End ==
  \E i \in DOMAIN queue :
    /\ queue[i] = running
    /\ queue' = [j \in 1 .. (Len(queue) - 1) |-> IF j < i THEN queue[j] ELSE queue[j + 1]]
    /\ \/ running' \in Members'
       \/ queue' = << >> /\ running' = NULL

Next == Start \/ End

Spec == Init /\ [][Next]_<<queue, running>>
=============================================================================
