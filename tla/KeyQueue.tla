------------------------------ MODULE KeyQueue ------------------------------
(***************************************************************************)
(* What programs expect of the keyboard: every process has a queue of keys; *)
(* a key pressed goes to the end of one queue; a process that asks for a    *)
(* key gets the oldest of its own, or 0 when it has none.  The module       *)
(* Keyboard implements this specification with a ring buffer per process.   *)
(***************************************************************************)
EXTENDS Sequences

CONSTANTS
  Processes,
  Chars,      \* the characters keys stand for, 0 not included
  NoKey       \* 0, the answer when no key is waiting

VARIABLES
  queue,   \* queue[p]: the keys of p that have not been read
  key      \* the answer to the last request for a key

Init ==
  /\ queue = [p \in Processes |-> << >>]
  /\ key = NoKey

Press ==
  /\ \E p \in Processes, c \in Chars : queue' = [queue EXCEPT ![p] = Append(@, c)]
  /\ UNCHANGED key

Get ==
  \E p \in Processes :
    IF queue[p] = << >>
      THEN key' = NoKey /\ UNCHANGED queue
      ELSE key' = Head(queue[p]) /\ queue' = [queue EXCEPT ![p] = Tail(@)]

\* A new process starts with no keys.
Reset ==
  /\ \E p \in Processes : queue' = [queue EXCEPT ![p] = << >>]
  /\ UNCHANGED key

Next == Press \/ Get \/ Reset

Spec == Init /\ [][Next]_<<queue, key>>
=============================================================================
