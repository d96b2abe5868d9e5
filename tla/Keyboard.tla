------------------------------ MODULE Keyboard ------------------------------
(***************************************************************************)
(* The keyboard (src/keyboard/keyboard.c, classic.c) and system call 2      *)
(* (src/isr80h/io.c): the interrupt handler turns a scan code into a        *)
(* character and pushes it into the ring buffer of process_current(); the   *)
(* system call pops one from the buffer of the process that runs.           *)
(*                                                                         *)
(* Which process runs and which is the current one is decided by the module *)
(* Tasks; here they are switched at any time, together or apart.            *)
(***************************************************************************)
EXTENDS Integers, Sequences

CONSTANTS
  Processes,     \* the processes
  Size,          \* LIEBE_OS_KEYBOARD_BUFFER_SIZE
  WordSize,      \* 2^32, the range of the counters head and tail
  ScanSet,       \* keyboard_scan_set_one: a sequence, entry i for scan code i - 1
  BytesBehind,   \* what the byte behind keyboard_scan_set_one may be
  Scancodes,     \* the scan codes the controller delivers
  Released,      \* scan codes from here on are key releases
  CapsLock,      \* CLASSIC_KEYBOARD_CAPSLOCK
  Letters,       \* the characters 'A' to 'Z'
  Shift,         \* the distance from an upper-case letter to its lower-case one
  MaxUnread      \* bound: keys a process leaves unread

ASSUME KeyboardAssumption ==
  /\ Size \in Nat \ {0}
  /\ WordSize \in Nat \ {0}
  /\ WordSize % Size = 0 /\ Size < WordSize
  /\ ScanSet \in Seq(Nat) /\ BytesBehind \subseteq Nat
  /\ Scancodes \subseteq Nat
  /\ Shift \in Nat
  /\ MaxUnread \in Nat

VARIABLES
  buffer,    \* process->keyboard.buffer
  head,      \* process->keyboard.head
  tail,      \* process->keyboard.tail
  capslock,  \* classic_keyboard.capslock_state
  current,   \* process_current()
  running,   \* task_current()->process
  key        \* the result of the last system call 2

vars == <<buffer, head, tail, capslock, current, running, key>>

Index(n) == n % Size
Inc(n) == (n + 1) % WordSize

\* Keys pushed and not popped.
Unread(p) == (tail[p] - head[p]) % WordSize
-----------------------------------------------------------------------------
\* The character of a scan code, as a set: the test `scancode > size' lets the
\* byte behind the table through.
classic_keyboard_scancode_to_char(scancode) ==
  LET Case(c) == IF ~capslock /\ c \in Letters THEN c + Shift ELSE c
  IN  IF scancode > Len(ScanSet) THEN {0}
      ELSE IF scancode = Len(ScanSet) THEN {Case(c) : c \in BytesBehind}
      ELSE {Case(ScanSet[scancode + 1])}

Init ==
  /\ buffer = [p \in Processes |-> [i \in 0 .. (Size - 1) |-> 0]]
  /\ head = [p \in Processes |-> 0]
  /\ tail = [p \in Processes |-> 0]
  /\ capslock = FALSE
  /\ \E p \in Processes : current = p /\ running = p
  /\ key = 0

\* Mutant: the counter is advanced before the index is taken.
keyboard_push_late_index(c) ==
  /\ buffer' = [buffer EXCEPT ![current][Index(Inc(tail[current]))] = c]
  /\ tail' = [tail EXCEPT ![current] = Inc(@)]

keyboard_push(c) ==
  /\ buffer' = [buffer EXCEPT ![current][Index(tail[current])] = c]
  /\ tail' = [tail EXCEPT ![current] = Inc(@)]

\* Interrupt 0x21.
classic_keyboard_handle_interrupt(scancode) ==
  /\ Unread(current) < MaxUnread
  /\ UNCHANGED <<head, current, running, key>>
  /\ \/ /\ scancode >= Released
        /\ UNCHANGED <<buffer, tail, capslock>>
     \/ /\ scancode < Released
        /\ scancode = CapsLock
        /\ capslock' = ~capslock
        /\ UNCHANGED <<buffer, tail>>
     \/ /\ scancode < Released
        /\ scancode /= CapsLock
        /\ \E c \in classic_keyboard_scancode_to_char(scancode) :
             IF c = 0 THEN UNCHANGED <<buffer, tail>> ELSE keyboard_push(c)
        /\ UNCHANGED capslock

\* Mutant: the cell that was read is not cleared.
keyboard_pop_keeps(p) ==
  LET c == buffer[p][Index(head[p])]
  IN  /\ key' = c
      /\ head' = IF c = 0 THEN head ELSE [head EXCEPT ![p] = Inc(@)]
      /\ UNCHANGED buffer

\* Mutant: the counter is not advanced.
keyboard_pop_stays(p) ==
  LET c == buffer[p][Index(head[p])]
  IN  /\ key' = c
      /\ buffer' = IF c = 0 THEN buffer ELSE [buffer EXCEPT ![p][Index(head[p])] = 0]
      /\ UNCHANGED head

keyboard_pop(p) ==
  LET c == buffer[p][Index(head[p])]
  IN  /\ key' = c
      /\ IF c = 0
           THEN UNCHANGED <<buffer, head>>
           ELSE /\ buffer' = [buffer EXCEPT ![p][Index(head[p])] = 0]
                /\ head' = [head EXCEPT ![p] = Inc(@)]

\* System call 2.
isr80h_command2_getkey ==
  /\ keyboard_pop(running)
  /\ UNCHANGED <<tail, capslock, current, running>>

\* process_load_switch and task_switch: a new process has a zeroed buffer.
process_load_switch(p) ==
  /\ buffer' = [buffer EXCEPT ![p] = [i \in 0 .. (Size - 1) |-> 0]]
  /\ head' = [head EXCEPT ![p] = 0]
  /\ tail' = [tail EXCEPT ![p] = 0]
  /\ current' = p
  /\ running' = p
  /\ UNCHANGED <<capslock, key>>

\* A process ends and others become the running and the current one.
process_terminate ==
  /\ current' \in Processes
  /\ running' \in Processes
  /\ UNCHANGED <<buffer, head, tail, capslock, key>>

Next ==
  \/ \E scancode \in Scancodes : classic_keyboard_handle_interrupt(scancode)
  \/ isr80h_command2_getkey
  \/ \E p \in Processes : process_load_switch(p)
  \/ process_terminate

Spec == Init /\ [][Next]_vars

\* A program that waits for a key polls in a loop (liebeos_getkey_block), and
\* an interrupt handler always returns to it.
FairSpec == Spec /\ WF_vars(isr80h_command2_getkey)
-----------------------------------------------------------------------------
(* Properties. *)

Bytes == {ScanSet[i] : i \in DOMAIN ScanSet} \cup BytesBehind
Chars == (Bytes \cup {c + Shift : c \in Letters}) \ {0}

\* The types of the ring buffers, and their counters within a machine word.
TypeOK ==
  /\ buffer \in [Processes -> [0 .. (Size - 1) -> Chars \cup {0}]]
  /\ head \in [Processes -> 0 .. (WordSize - 1)]
  /\ tail \in [Processes -> 0 .. (WordSize - 1)]
  /\ capslock \in BOOLEAN
  /\ current \in Processes
  /\ running \in Processes
  /\ key \in Chars \cup {0}

\* The keys waiting in the buffer of p, oldest first.
KeysOf(p) == [i \in 1 .. Unread(p) |-> buffer[p][Index(head[p] + i - 1)]]

Queues ==
  INSTANCE KeyQueue WITH
    NoKey <- 0,
    queue <- [p \in Processes |-> KeysOf(p)]

\* As long as no process leaves more than Size keys unread, the ring buffers
\* are first-in first-out queues: no key is lost, doubled, reordered or given to
\* another process than the one it was pushed to, also when the counters wrap.
ImplementsKeyQueue == Queues!Spec

\* A pop tells "nothing to pop" from the zero byte at head, not from the
\* counters: the bytes outside the waiting keys are zero and those of the keys
\* are not.
ZeroMeansEmpty ==
  \A p \in Processes, i \in 0 .. (Size - 1) :
    buffer[p][i] = 0 <=> \A n \in 0 .. (Unread(p) - 1) : Index(head[p] + n) /= i

\* The bound that the ring buffers are used within: a process never leaves more
\* keys unread than its buffer holds.
KeysFit == MaxUnread <= Size

UnreadBounded == \A p \in Processes : Unread(p) <= MaxUnread

\* The inductive invariant.
KeyboardInv == TypeOK /\ UnreadBounded /\ ZeroMeansEmpty

\* A key waiting for the process that runs and polls is read.
WaitingKeyIsRead ==
  \A p \in Processes : \A h \in 0 .. (WordSize - 1) :
    (head[p] = h /\ tail[p] /= h) ~> (head[p] /= h \/ tail[p] = h \/ running /= p)
=============================================================================
