--------------------------- MODULE ConsoleProofs ---------------------------
(***************************************************************************)
(* Proofs about the console, from the key to the command.                   *)
(*                                                                         *)
(* The keyboard: for every size of the ring buffers, every word size it     *)
(* divides, every table of scan codes and any number of processes, as long  *)
(* as no process leaves more keys unread than its buffer holds.             *)
(*                                                                         *)
(* The shell: for a screen of every size, a line buffer of every size, any  *)
(* characters and any number of lines, whether memory runs out or not.      *)
(***************************************************************************)
EXTENDS Keyboard, CommandLine, NaturalNumbers, SequenceTheorems, FiniteSetTheorems

-----------------------------------------------------------------------------
(* The counters. *)

Counters == 0 .. (WordSize - 1)

\* How far t is ahead of h.
LEMMA DistanceOfCounters ==
  ASSUME NEW h \in Counters, NEW t \in Counters
  PROVE  (t - h) % WordSize = IF t >= h THEN t - h ELSE t - h + WordSize
<1>1. WordSize \in Nat \ {0} /\ h \in Int /\ t \in Int
  BY KeyboardAssumption DEF Counters
<1>2. CASE t >= h
  <2>1. t - h \in 0 .. (WordSize - 1) /\ t - h = WordSize * 0 + (t - h)
    BY <1>1, <1>2 DEF Counters
  <2> QED BY <1>1, <1>2, <2>1, RemainderUnique
<1>3. CASE t < h
  <2> DEFINE r == t - h + WordSize
  <2>1. r \in 0 .. (WordSize - 1) /\ t - h \in Int /\ t - h = WordSize * (-1) + r
    BY <1>1, <1>3 DEF Counters
  <2>2. (t - h) % WordSize = r
    <3> HIDE DEF r
    <3> QED BY <1>1, <2>1, RemainderUnique
  <2> QED BY <1>1, <1>3, <2>2
<1> QED BY <1>1, <1>2, <1>3

LEMMA IncOfCounter ==
  ASSUME NEW n \in Counters
  PROVE  /\ Inc(n) \in Counters
         /\ Inc(n) = IF n + 1 = WordSize THEN 0 ELSE n + 1
<1>1. WordSize \in Nat \ {0} /\ n \in Int
  BY KeyboardAssumption DEF Counters
<1>2. CASE n + 1 = WordSize
  <2>1. n + 1 \in Int /\ n + 1 = WordSize * 1 + 0 /\ 0 \in 0 .. (WordSize - 1)
    BY <1>1, <1>2
  <2>2. (n + 1) % WordSize = 0
    BY <1>1, <2>1, RemainderUnique
  <2> QED BY <1>1, <1>2, <2>2 DEF Inc, Counters
<1>3. CASE n + 1 /= WordSize
  <2>1. n + 1 \in 0 .. (WordSize - 1) /\ n + 1 = WordSize * 0 + (n + 1)
    BY <1>1, <1>3 DEF Counters
  <2>2. (n + 1) % WordSize = n + 1
    BY <1>1, <2>1, RemainderUnique
  <2> QED BY <1>3, <2>1, <2>2 DEF Inc, Counters
<1> QED BY <1>2, <1>3

\* A push makes one more key unread, a pop one fewer.
LEMMA DistanceSteps ==
  ASSUME NEW h \in Counters, NEW t \in Counters
  PROVE  LET u == (t - h) % WordSize
         IN  /\ u \in Counters
             /\ u < WordSize - 1 => (Inc(t) - h) % WordSize = u + 1
             /\ u > 0 => (t - Inc(h)) % WordSize = u - 1
<1>1. WordSize \in Nat \ {0}
  BY KeyboardAssumption
<1>2. (t - h) % WordSize = IF t >= h THEN t - h ELSE t - h + WordSize
  BY DistanceOfCounters
<1>3. /\ Inc(t) \in Counters
      /\ Inc(t) = IF t + 1 = WordSize THEN 0 ELSE t + 1
  BY IncOfCounter
<1>4. /\ Inc(h) \in Counters
      /\ Inc(h) = IF h + 1 = WordSize THEN 0 ELSE h + 1
  BY IncOfCounter
<1>5. (Inc(t) - h) % WordSize = IF Inc(t) >= h THEN Inc(t) - h ELSE Inc(t) - h + WordSize
  BY <1>3, DistanceOfCounters
<1>6. (t - Inc(h)) % WordSize = IF t >= Inc(h) THEN t - Inc(h) ELSE t - Inc(h) + WordSize
  BY <1>4, DistanceOfCounters
<1> QED BY <1>1, <1>2, <1>3, <1>4, <1>5, <1>6 DEF Counters

\* Indices do not notice that the counters wrap: the size of the buffers divides
\* the range of the counters.
LEMMA IndexOfSum ==
  ASSUME NEW h \in Counters, NEW t \in Counters
  PROVE  /\ \A n \in Int : Index(n) \in 0 .. (Size - 1)
         /\ Index(t) = Index(h + ((t - h) % WordSize))
         /\ \A n \in Nat : Index(Inc(h) + n) = Index(h + n + 1)
<1>1. /\ WordSize \in Nat \ {0} /\ Size \in Nat \ {0} /\ WordSize % Size = 0
      /\ h \in Int /\ t \in Int
  BY KeyboardAssumption DEF Counters
<1>2. ASSUME NEW n \in Int PROVE Index(n) \in 0 .. (Size - 1)
  BY <1>1, QuotientAndRemainder DEF Index
<1>3. ASSUME NEW n \in Int PROVE Index(WordSize + n) = Index(n)
  <2>1. WordSize \in Int /\ Size \in Nat \ {0} /\ WordSize % Size = 0
    BY <1>1
  <2>2. (WordSize + n) % Size = n % Size
    BY <2>1, RemainderOfSum, Zenon
  <2> QED BY <2>2 DEF Index
<1>4. Index(t) = Index(h + ((t - h) % WordSize))
  <2>1. CASE t >= h
    <3>1. h + ((t - h) % WordSize) = t
      BY <1>1, <2>1, DistanceOfCounters
    <3> QED BY <3>1
  <2>2. CASE t < h
    <3>1. h + ((t - h) % WordSize) = WordSize + t
      BY <1>1, <2>2, DistanceOfCounters
    <3> QED BY <1>1, <1>3, <3>1
  <2> QED BY <1>1, <2>1, <2>2
<1>5. ASSUME NEW n \in Nat PROVE Index(Inc(h) + n) = Index(h + n + 1)
  <2>1. CASE h + 1 = WordSize
    <3>1. Inc(h) + n = n /\ h + n + 1 = WordSize + n
      BY <1>1, <2>1, IncOfCounter
    <3> QED BY <1>3, <3>1
  <2>2. CASE h + 1 /= WordSize
    <3>1. Inc(h) + n = h + n + 1
      BY <1>1, <2>2, IncOfCounter
    <3> QED BY <3>1
  <2> QED BY <2>1, <2>2
<1> QED BY <1>2, <1>4, <1>5

\* The waiting keys lie in different cells.
LEMMA IndicesDiffer ==
  ASSUME NEW h \in Counters, NEW m \in 0 .. (Size - 1), NEW n \in 0 .. (Size - 1),
         Index(h + m) = Index(h + n)
  PROVE  m = n
<1>1. Size \in Nat \ {0} /\ h \in Int /\ m \in Int /\ n \in Int
  BY KeyboardAssumption DEF Counters
<1>2. h + m \in Int /\ h + n \in Int /\ (h + m) - (h + n) < Size /\ (h + n) - (h + m) < Size
  BY <1>1
<1>3. h + m = h + n
  BY <1>1, <1>2, RemaindersDiffer DEF Index
<1> QED BY <1>1, <1>3
-----------------------------------------------------------------------------
(* The buffers. *)

\* What the invariant says of one process.
LEMMA BufferFacts ==
  ASSUME KeysFit, KeyboardInv, NEW p \in Processes
  PROVE  /\ head[p] \in Counters /\ tail[p] \in Counters
         /\ Size \in Nat \ {0} /\ WordSize \in Nat /\ Size < WordSize
         /\ Unread(p) \in Nat /\ Unread(p) <= Size
         /\ buffer[p] \in [0 .. (Size - 1) -> Chars \cup {0}]
         /\ \A i \in 0 .. (Size - 1) :
              buffer[p][i] = 0 <=> \A n \in 0 .. (Unread(p) - 1) : Index(head[p] + n) /= i
<1>1. /\ head[p] \in Counters /\ tail[p] \in Counters
      /\ buffer[p] \in [0 .. (Size - 1) -> Chars \cup {0}]
  BY DEF KeyboardInv, TypeOK, Counters
<1>2. /\ Size \in Nat \ {0} /\ WordSize \in Nat \ {0} /\ Size < WordSize /\ MaxUnread \in Nat
      /\ MaxUnread <= Size
  BY KeyboardAssumption DEF KeysFit
<1>3. Unread(p) \in 0 .. (WordSize - 1)
  BY <1>1, DistanceSteps DEF Unread, Counters
<1>4. Unread(p) <= MaxUnread
  BY DEF KeyboardInv, UnreadBounded
<1>5. Unread(p) \in Nat /\ Unread(p) <= Size
  BY <1>2, <1>3, <1>4
<1> QED BY <1>1, <1>2, <1>5 DEF KeyboardInv, ZeroMeansEmpty

\* The cell at head is zero exactly when no key is waiting.
LEMMA ZeroAtHead ==
  ASSUME KeysFit, KeyboardInv, NEW p \in Processes
  PROVE  buffer[p][Index(head[p])] = 0 <=> Unread(p) = 0
<1>1. Index(head[p]) \in 0 .. (Size - 1)
  BY BufferFacts, IndexOfSum DEF Counters
<1>2. head[p] + 0 = head[p]
  BY BufferFacts DEF Counters
<1>3. CASE Unread(p) = 0
  BY <1>1, <1>3, BufferFacts
<1>4. CASE Unread(p) /= 0
  <2>1. 0 \in 0 .. (Unread(p) - 1)
    BY <1>4, BufferFacts
  <2> QED BY <1>1, <1>2, <1>4, <2>1, BufferFacts
<1> QED BY <1>3, <1>4

\* The characters of scan codes.
LEMMA ScannedChar ==
  ASSUME NEW scancode \in Scancodes, NEW c \in classic_keyboard_scancode_to_char(scancode), c /= 0
  PROVE  c \in Chars
<1> DEFINE Case(x) == IF ~capslock /\ x \in Letters THEN x + Shift ELSE x
<1>1. scancode \in Nat /\ ScanSet \in Seq(Nat) /\ Len(ScanSet) \in Nat
  BY KeyboardAssumption
<1>2. \E b \in Bytes : c = Case(b)
  <2>1. CASE scancode > Len(ScanSet)
    BY <2>1 DEF classic_keyboard_scancode_to_char
  <2>2. CASE scancode = Len(ScanSet)
    BY <1>1, <2>2 DEF classic_keyboard_scancode_to_char, Bytes
  <2>3. CASE scancode < Len(ScanSet)
    <3>1. scancode + 1 \in DOMAIN ScanSet
      BY <1>1, <2>3
    <3>2. c = Case(ScanSet[scancode + 1])
      BY <1>1, <2>3 DEF classic_keyboard_scancode_to_char
    <3> QED BY <3>1, <3>2 DEF Bytes
  <2> QED BY <1>1, <2>1, <2>2, <2>3
<1> QED BY <1>2 DEF Chars

\* A push writes the cell behind the waiting keys.
LEMMA PushStep ==
  ASSUME KeysFit, KeyboardInv, NEW c \in Chars, keyboard_push(c), Unread(current) < MaxUnread,
         UNCHANGED <<head, current, running, key, capslock>>
  PROVE  /\ KeyboardInv'
         /\ Unread(current)' = Unread(current) + 1
         /\ buffer'[current] = [buffer[current] EXCEPT ![Index(head[current] + Unread(current))] = c]
         /\ \A p \in Processes \ {current} : UNCHANGED <<buffer[p], head[p], tail[p]>>
<1>p. PICK p \in Processes : p = current
  BY DEF KeyboardInv, TypeOK
<1>u. PICK u : u = Unread(p)
  OBVIOUS
<1>c. PICK cell : cell = Index(tail[p])
  OBVIOUS
<1>1. /\ c /= 0
      /\ buffer \in [Processes -> [0 .. (Size - 1) -> Chars \cup {0}]]
      /\ tail \in [Processes -> Counters] /\ head \in [Processes -> Counters]
  BY DEF KeyboardInv, TypeOK, Chars, Counters
<1>2. MaxUnread \in Nat /\ MaxUnread <= Size /\ u \in Nat /\ u < Size /\ u < WordSize - 1
  BY <1>p, <1>u, BufferFacts, KeyboardAssumption DEF KeysFit
<1>3. Inc(tail[p]) \in Counters /\ (Inc(tail[p]) - head[p]) % WordSize = u + 1
  BY <1>u, <1>1, <1>2, IncOfCounter, DistanceSteps DEF Unread
<1>4. /\ buffer' = [buffer EXCEPT ![p] = [buffer[p] EXCEPT ![cell] = c]]
      /\ tail' = [tail EXCEPT ![p] = Inc(tail[p])]
      /\ head' = head /\ current' = p
  BY <1>p, <1>c DEF keyboard_push
<1>5. cell \in 0 .. (Size - 1) /\ cell = Index(head[p] + u)
  BY <1>u, <1>c, <1>1, IndexOfSum DEF Counters, Unread
<1>6. /\ buffer'[p] = [buffer[p] EXCEPT ![cell] = c]
      /\ Unread(p)' = u + 1
      /\ \A q \in Processes \ {p} : UNCHANGED <<buffer[q], head[q], tail[q]>>
  BY <1>1, <1>3, <1>4 DEF Unread
<1>7. TypeOK'
  <2>1. buffer' \in [Processes -> [0 .. (Size - 1) -> Chars \cup {0}]]
    BY <1>1, <1>4, <1>5
  <2>2. tail' \in [Processes -> Counters] /\ head' \in [Processes -> Counters]
    BY <1>1, <1>3, <1>4
  <2> QED BY <2>1, <2>2 DEF KeyboardInv, TypeOK, Counters
<1>8. UnreadBounded'
  <2>1. \A q \in Processes \ {p} : Unread(q)' = Unread(q)
    BY <1>6 DEF Unread
  <2>2. Unread(p)' <= MaxUnread
    BY <1>2, <1>6, <1>p, <1>u
  <2> QED BY <2>1, <2>2 DEF UnreadBounded, KeyboardInv
<1>9. ZeroMeansEmpty'
  <2>1. ASSUME NEW q \in Processes \ {p}, NEW i \in 0 .. (Size - 1)
        PROVE  buffer'[q][i] = 0 <=> \A n \in 0 .. (Unread(q)' - 1) : Index(head'[q] + n) /= i
    BY <1>6, BufferFacts DEF Unread
  <2>2. ASSUME NEW i \in 0 .. (Size - 1)
        PROVE  buffer'[p][i] = 0 <=> \A n \in 0 .. (Unread(p)' - 1) : Index(head'[p] + n) /= i
    <3>1. Unread(p)' - 1 = u /\ u \in 0 .. u /\ head'[p] = head[p]
      BY <1>2, <1>4, <1>6
    <3>2. CASE i = cell
      BY <1>1, <1>5, <1>6, <3>1, <3>2
    <3>3. CASE i /= cell
      <4>1. buffer'[p][i] = buffer[p][i]
        BY <1>1, <1>6, <3>3
      <4>2. \A n \in 0 .. u : n \in 0 .. (u - 1) \/ n = u
        BY <1>2
      <4>3. \A n \in 0 .. (u - 1) : n \in 0 .. u
        BY <1>2
      <4>4. buffer[p][i] = 0 <=> \A n \in 0 .. (u - 1) : Index(head[p] + n) /= i
        BY <1>u, BufferFacts
      <4> QED BY <1>5, <3>1, <3>3, <4>1, <4>2, <4>3, <4>4
    <3> QED BY <3>2, <3>3
  <2> QED BY <2>1, <2>2 DEF ZeroMeansEmpty
<1> QED BY <1>5, <1>6, <1>7, <1>8, <1>9, <1>p, <1>u DEF KeyboardInv

\* A pop that finds a key clears its cell, which none of the other keys uses.
LEMMA PopStep ==
  ASSUME KeysFit, KeyboardInv, NEW p \in Processes, p = running, isr80h_command2_getkey
  PROVE  /\ KeyboardInv'
         /\ key' = buffer[p][Index(head[p])]
         /\ Unread(p) = 0 => UNCHANGED <<buffer, head, tail>>
         /\ Unread(p) /= 0 =>
              /\ Unread(p)' = Unread(p) - 1
              /\ head' = [head EXCEPT ![p] = Inc(head[p])]
              /\ buffer'[p] = [buffer[p] EXCEPT ![Index(head[p])] = 0]
              /\ \A q \in Processes \ {p} : UNCHANGED <<buffer[q], head[q], tail[q]>>
<1>u. PICK u : u = Unread(p)
  OBVIOUS
<1>c. PICK cell : cell = Index(head[p])
  OBVIOUS
<1>1. /\ buffer \in [Processes -> [0 .. (Size - 1) -> Chars \cup {0}]]
      /\ tail \in [Processes -> Counters] /\ head \in [Processes -> Counters]
  BY DEF KeyboardInv, TypeOK, Counters
<1>2. /\ u \in Nat /\ u <= Size /\ Size \in Nat \ {0} /\ cell \in 0 .. (Size - 1)
      /\ head[p] \in Int /\ head[p] + 0 = head[p]
  <2>1. head[p] \in Counters /\ head[p] \in Int /\ head[p] + 0 = head[p]
    BY <1>1 DEF Counters
  <2>2. cell \in 0 .. (Size - 1)
    BY <1>c, <2>1, IndexOfSum
  <2> QED BY <1>u, <2>1, <2>2, BufferFacts
<1>3. key' = buffer[p][cell] /\ key' \in Chars \cup {0}
  <2>1. buffer[p][cell] \in Chars \cup {0}
    BY <1>1, <1>2
  <2>2. key' = buffer[p][cell]
    BY <1>c DEF isr80h_command2_getkey, keyboard_pop
  <2> QED BY <2>1, <2>2
<1>4. CASE u = 0
  <2>1. buffer[p][cell] = 0
    BY <1>4, <1>u, <1>c, ZeroAtHead
  <2>2. UNCHANGED <<buffer, head, tail, capslock, current, running>>
    BY <1>c, <2>1 DEF isr80h_command2_getkey, keyboard_pop
  <2>3. KeyboardInv'
    BY <1>3, <2>2 DEF KeyboardInv, TypeOK, UnreadBounded, ZeroMeansEmpty, Unread
  <2> QED BY <1>3, <1>4, <1>u, <1>c, <2>2, <2>3
<1>5. CASE u /= 0
  <2>1. buffer[p][cell] /= 0
    BY <1>5, <1>u, <1>c, ZeroAtHead
  <2>2. /\ buffer' = [buffer EXCEPT ![p] = [buffer[p] EXCEPT ![cell] = 0]]
        /\ head' = [head EXCEPT ![p] = Inc(head[p])]
        /\ UNCHANGED <<tail, capslock, current, running>>
    BY <1>c, <2>1 DEF isr80h_command2_getkey, keyboard_pop
  <2>3. Inc(head[p]) \in Counters /\ (tail[p] - Inc(head[p])) % WordSize = u - 1
    BY <1>u, <1>1, <1>2, <1>5, IncOfCounter, DistanceSteps DEF Unread
  <2>4. /\ Unread(p)' = u - 1
        /\ buffer'[p] = [buffer[p] EXCEPT ![cell] = 0] /\ head'[p] = Inc(head[p])
        /\ \A q \in Processes \ {p} : UNCHANGED <<buffer[q], head[q], tail[q]>>
    BY <1>1, <2>2, <2>3 DEF Unread
  <2>5. TypeOK'
    <3>1. buffer' \in [Processes -> [0 .. (Size - 1) -> Chars \cup {0}]]
      BY <1>1, <1>2, <2>2
    <3>2. tail' \in [Processes -> Counters] /\ head' \in [Processes -> Counters]
      BY <1>1, <2>2, <2>3
    <3> QED BY <1>3, <2>2, <3>1, <3>2 DEF KeyboardInv, TypeOK, Counters
  <2>6. UnreadBounded'
    <3>1. \A q \in Processes \ {p} : Unread(q)' = Unread(q)
      BY <2>4 DEF Unread
    <3>2. Unread(p)' <= MaxUnread
      BY <1>2, <1>u, <2>4, KeyboardAssumption DEF KeyboardInv, UnreadBounded
    <3> QED BY <3>1, <3>2 DEF UnreadBounded, KeyboardInv
  <2>7. ZeroMeansEmpty'
    <3>1. ASSUME NEW q \in Processes \ {p}, NEW i \in 0 .. (Size - 1)
          PROVE  buffer'[q][i] = 0 <=> \A n \in 0 .. (Unread(q)' - 1) : Index(head'[q] + n) /= i
      BY <2>4, BufferFacts DEF Unread
    <3>2. ASSUME NEW i \in 0 .. (Size - 1)
          PROVE  buffer'[p][i] = 0 <=> \A n \in 0 .. (Unread(p)' - 1) : Index(head'[p] + n) /= i
      <4>1. (\A n \in 0 .. (Unread(p)' - 1) : Index(head'[p] + n) /= i)
              <=> \A n \in 0 .. (u - 2) : Index(head[p] + (n + 1)) /= i
        <5>1. Unread(p)' - 1 = u - 2
          BY <1>2, <2>4
        <5>2. \A n \in 0 .. (u - 2) : n \in Nat /\ head[p] + n + 1 = head[p] + (n + 1)
          BY <1>2
        <5>3. \A n \in 0 .. (u - 2) : Index(head'[p] + n) = Index(head[p] + (n + 1))
          BY <1>1, <2>4, <5>2, IndexOfSum
        <5> QED BY <5>1, <5>3
      <4>2. CASE i = cell
        <5>1. buffer'[p][i] = 0
          BY <1>1, <1>2, <2>4, <4>2
        <5>2. ASSUME NEW n \in 0 .. (u - 2) PROVE Index(head[p] + (n + 1)) /= i
          <6>1. n + 1 \in 0 .. (Size - 1) /\ 0 \in 0 .. (Size - 1) /\ n + 1 /= 0
            BY <1>2
          <6> QED BY <1>c, <1>1, <1>2, <4>2, <6>1, IndicesDiffer
        <5> QED BY <4>1, <5>1, <5>2
      <4>3. CASE i /= cell
        <5>1. buffer'[p][i] = buffer[p][i]
          BY <1>1, <2>4, <4>3
        <5>2. buffer[p][i] = 0 <=> \A n \in 0 .. (u - 1) : Index(head[p] + n) /= i
          BY <1>u, BufferFacts
        <5>3. Index(head[p] + 0) /= i
          BY <1>c, <1>2, <4>3
        <5>4. \A n \in 0 .. (u - 1) : n = 0 \/ (n - 1 \in 0 .. (u - 2) /\ (n - 1) + 1 = n)
          BY <1>2
        <5>5. \A n \in 0 .. (u - 2) : n + 1 \in 0 .. (u - 1)
          BY <1>2
        <5>6. (\A n \in 0 .. (u - 1) : Index(head[p] + n) /= i)
                <=> (\A n \in 0 .. (u - 2) : Index(head[p] + (n + 1)) /= i)
          BY <5>3, <5>4, <5>5
        <5> QED BY <4>1, <5>1, <5>2, <5>6
      <4> QED BY <4>2, <4>3
    <3> QED BY <3>1, <3>2 DEF ZeroMeansEmpty
  <2> QED BY <1>3, <1>u, <1>c, <1>5, <2>2, <2>4, <2>5, <2>6, <2>7 DEF KeyboardInv
<1> QED BY <1>4, <1>5

\* A new process has a buffer of zeros and both counters at 0.
LEMMA ResetStep ==
  ASSUME KeysFit, KeyboardInv, NEW p \in Processes, process_load_switch(p)
  PROVE  /\ KeyboardInv'
         /\ Unread(p)' = 0
         /\ \A q \in Processes \ {p} : UNCHANGED <<buffer[q], head[q], tail[q]>>
<1>1. /\ buffer \in [Processes -> [0 .. (Size - 1) -> Chars \cup {0}]]
      /\ tail \in [Processes -> Counters] /\ head \in [Processes -> Counters]
  BY DEF KeyboardInv, TypeOK, Counters
<1>2. 0 \in Counters /\ (0 - 0) % WordSize = 0 /\ MaxUnread \in Nat
  <2>1. 0 \in Counters
    BY KeyboardAssumption DEF Counters
  <2> QED BY <2>1, DistanceOfCounters, KeyboardAssumption
<1>3. TypeOK'
  BY <1>1, <1>2 DEF process_load_switch, KeyboardInv, TypeOK, Counters
<1>4. /\ buffer'[p] = [i \in 0 .. (Size - 1) |-> 0] /\ Unread(p)' = 0
      /\ \A q \in Processes \ {p} : UNCHANGED <<buffer[q], head[q], tail[q]>>
  BY <1>1, <1>2 DEF process_load_switch, Unread
<1>5. UnreadBounded'
  <2>1. \A q \in Processes \ {p} : Unread(q)' = Unread(q)
    BY <1>4 DEF Unread
  <2> QED BY <1>2, <1>4, <2>1 DEF UnreadBounded, KeyboardInv
<1>6. ZeroMeansEmpty'
  <2>1. ASSUME NEW q \in Processes \ {p}, NEW i \in 0 .. (Size - 1)
        PROVE  buffer'[q][i] = 0 <=> \A n \in 0 .. (Unread(q)' - 1) : Index(head'[q] + n) /= i
    BY <1>4, BufferFacts DEF Unread
  <2>2. ASSUME NEW i \in 0 .. (Size - 1)
        PROVE  buffer'[p][i] = 0 <=> \A n \in 0 .. (Unread(p)' - 1) : Index(head'[p] + n) /= i
    BY <1>4
  <2> QED BY <2>1, <2>2 DEF ZeroMeansEmpty
<1> QED BY <1>3, <1>4, <1>5, <1>6 DEF KeyboardInv

\* The states before the first key.
LEMMA InitEstablishesKeyboardInv == KeysFit /\ Init => KeyboardInv
<1> SUFFICES ASSUME KeysFit, Init PROVE KeyboardInv
  OBVIOUS
<1>1. 0 \in Counters /\ (0 - 0) % WordSize = 0 /\ MaxUnread \in Nat
  <2>1. 0 \in Counters
    BY KeyboardAssumption DEF Counters
  <2> QED BY <2>1, DistanceOfCounters, KeyboardAssumption
<1>2. TypeOK
  BY <1>1 DEF Init, TypeOK, Counters
<1>3. \A p \in Processes : Unread(p) = 0
  BY <1>1 DEF Init, Unread
<1>4. ZeroMeansEmpty
  BY <1>3 DEF Init, ZeroMeansEmpty
<1> QED BY <1>1, <1>2, <1>3, <1>4 DEF KeyboardInv, UnreadBounded

\* A step that touches no buffer and no counter.
LEMMA QuietStep ==
  ASSUME KeyboardInv, UNCHANGED <<buffer, head, tail, key>>,
         capslock' \in BOOLEAN, current' \in Processes, running' \in Processes
  PROVE  KeyboardInv' /\ \A p \in Processes : KeysOf(p)' = KeysOf(p)
  BY DEF KeyboardInv, TypeOK, UnreadBounded, ZeroMeansEmpty, Unread, KeysOf

\* An interrupt pushes one character of the table, or leaves the buffers alone.
LEMMA InterruptStep ==
  ASSUME KeyboardInv, NEW scancode \in Scancodes, classic_keyboard_handle_interrupt(scancode)
  PROVE  /\ UNCHANGED <<head, current, running, key>>
         /\ \/ /\ UNCHANGED <<buffer, tail>>
               /\ capslock' \in BOOLEAN
            \/ /\ Unread(current) < MaxUnread
               /\ UNCHANGED capslock
               /\ \E c \in Chars : keyboard_push(c)
  BY ScannedChar DEF classic_keyboard_handle_interrupt, KeyboardInv, TypeOK

LEMMA NextPreservesKeyboardInv ==
  ASSUME KeysFit, KeyboardInv, [Next]_vars
  PROVE  KeyboardInv'
<1>1. current \in Processes /\ running \in Processes /\ capslock \in BOOLEAN
  BY DEF KeyboardInv, TypeOK
<1>2. ASSUME NEW scancode \in Scancodes, classic_keyboard_handle_interrupt(scancode)
      PROVE  KeyboardInv'
  BY <1>1, <1>2, InterruptStep, PushStep, QuietStep
<1>3. CASE isr80h_command2_getkey
  BY <1>1, <1>3, PopStep
<1>4. ASSUME NEW p \in Processes, process_load_switch(p) PROVE KeyboardInv'
  BY <1>4, ResetStep
<1>5. CASE process_terminate
  BY <1>1, <1>5, QuietStep DEF process_terminate
<1>6. CASE UNCHANGED vars
  BY <1>1, <1>6, QuietStep DEF vars
<1> QED BY <1>2, <1>3, <1>4, <1>5, <1>6 DEF Next
-----------------------------------------------------------------------------
(* The theorems on the keyboard. *)

\* The inductive invariant holds in every reachable state.
THEOREM KeyboardInvariant == KeysFit => (Spec => []KeyboardInv)
<1> SUFFICES ASSUME KeysFit PROVE Spec => []KeyboardInv
  OBVIOUS
<1>1. Init => KeyboardInv
  BY InitEstablishesKeyboardInv
<1>2. KeyboardInv /\ [Next]_vars => KeyboardInv'
  BY NextPreservesKeyboardInv
<1> QED BY <1>1, <1>2, PTL DEF Spec

\* The zero byte at head, which keyboard_pop takes for an empty buffer, is there
\* exactly when the buffer is empty, also after the counters have wrapped.
THEOREM KeyboardZeroMeansEmpty == KeysFit => (Spec => []ZeroMeansEmpty)
<1>1. KeyboardInv => ZeroMeansEmpty
  BY DEF KeyboardInv
<1> QED BY <1>1, KeyboardInvariant, PTL

\* The waiting keys of a process, as a sequence.
LEMMA KeysOfType ==
  ASSUME KeysFit, KeyboardInv, NEW p \in Processes
  PROVE  /\ KeysOf(p) \in Seq(Chars)
         /\ Len(KeysOf(p)) = Unread(p)
         /\ \A i \in 1 .. Unread(p) : KeysOf(p)[i] = buffer[p][Index(head[p] + i - 1)]
<1>1. Unread(p) \in Nat /\ head[p] \in Counters /\ head[p] \in Int
  BY BufferFacts DEF Counters
<1>2. ASSUME NEW i \in 1 .. Unread(p) PROVE buffer[p][Index(head[p] + i - 1)] \in Chars
  <2>1. i - 1 \in 0 .. (Unread(p) - 1) /\ head[p] + (i - 1) = head[p] + i - 1
        /\ head[p] + i - 1 \in Int
    BY <1>1
  <2>2. Index(head[p] + i - 1) \in 0 .. (Size - 1)
    BY <1>1, <2>1, IndexOfSum
  <2>3. buffer[p][Index(head[p] + i - 1)] /= 0
    BY <2>1, <2>2, BufferFacts
  <2>4. buffer[p][Index(head[p] + i - 1)] \in Chars \cup {0}
    BY <2>2, BufferFacts
  <2> QED BY <2>3, <2>4
<1>3. KeysOf(p) \in [1 .. Unread(p) -> Chars]
  BY <1>2 DEF KeysOf
<1>4. KeysOf(p) \in Seq(Chars)
  BY <1>1, <1>3
<1>5. Len(KeysOf(p)) = Unread(p)
  BY <1>1, <1>3, <1>4
<1> QED BY <1>4, <1>5 DEF KeysOf

\* The sequences of all processes.
AllKeys == [p \in Processes |-> KeysOf(p)]

\* A process whose buffer and counters stay the same keeps its keys.
LEMMA KeysOfOthers ==
  ASSUME NEW p \in Processes, UNCHANGED <<buffer[p], head[p], tail[p]>>
  PROVE  KeysOf(p)' = KeysOf(p)
  BY DEF KeysOf, Unread

\* A push appends, whichever cell it writes.
LEMMA PushAppends ==
  ASSUME KeysFit, KeyboardInv, NEW c \in Chars, keyboard_push(c), Unread(current) < MaxUnread,
         UNCHANGED <<head, current, running, key, capslock>>
  PROVE  AllKeys' = [AllKeys EXCEPT ![current] = Append(@, c)]
<1>p. PICK p \in Processes : p = current
  BY DEF KeyboardInv, TypeOK
<1>u. PICK u : u = Unread(p)
  OBVIOUS
<1>1. /\ KeyboardInv' /\ Unread(p)' = u + 1
      /\ buffer'[p] = [buffer[p] EXCEPT ![Index(head[p] + u)] = c]
      /\ \A q \in Processes \ {p} : UNCHANGED <<buffer[q], head[q], tail[q]>>
      /\ head'[p] = head[p]
  BY <1>p, <1>u, PushStep
<1>2. /\ u \in Nat /\ head[p] \in Counters /\ head[p] \in Int /\ Size \in Nat /\ u < Size
      /\ buffer[p] \in [0 .. (Size - 1) -> Chars \cup {0}]
  BY <1>p, <1>u, BufferFacts, KeyboardAssumption DEF Counters, KeysFit
<1>3. KeysOf(p)' = Append(KeysOf(p), c)
  <2>1. KeysOf(p) \in Seq(Chars) /\ Len(KeysOf(p)) = u
    BY <1>u, KeysOfType
  <2>2. /\ KeysOf(p)' = [i \in 1 .. (u + 1) |-> buffer'[p][Index(head[p] + i - 1)]]
        /\ KeysOf(p) = [i \in 1 .. u |-> buffer[p][Index(head[p] + i - 1)]]
    BY <1>1, <1>u DEF KeysOf
  <2>3. buffer'[p][Index(head[p] + (u + 1) - 1)] = c
    <3>1. head[p] + (u + 1) - 1 = head[p] + u /\ head[p] + u \in Int
      BY <1>2
    <3>2. Index(head[p] + u) \in 0 .. (Size - 1)
      BY <1>2, <3>1, IndexOfSum
    <3> QED BY <1>1, <1>2, <3>1, <3>2
  <2>4. ASSUME NEW i \in 1 .. u
        PROVE  buffer'[p][Index(head[p] + i - 1)] = buffer[p][Index(head[p] + i - 1)]
    <3>1. /\ head[p] + i - 1 = head[p] + (i - 1) /\ i - 1 \in 0 .. (Size - 1)
          /\ u \in 0 .. (Size - 1) /\ i - 1 /= u /\ head[p] + (i - 1) \in Int
      BY <1>2
    <3>2. Index(head[p] + (i - 1)) /= Index(head[p] + u)
      BY <1>2, <3>1, IndicesDiffer
    <3>3. Index(head[p] + (i - 1)) \in 0 .. (Size - 1)
      BY <1>2, <3>1, IndexOfSum
    <3> QED BY <1>1, <1>2, <3>1, <3>2, <3>3
  <2>5. Append(KeysOf(p), c) = [i \in 1 .. (u + 1) |-> IF i = u + 1 THEN c ELSE KeysOf(p)[i]]
    <3>s. PICK s \in Seq(Chars) : s = KeysOf(p)
      BY <2>1
    <3>1. /\ Append(s, c) \in Seq(Chars) /\ Len(Append(s, c)) = u + 1
          /\ \A i \in 1 .. u : Append(s, c)[i] = s[i]
          /\ Append(s, c)[u + 1] = c
      BY <2>1, <3>s, AppendProperties
    <3>2. PICK t \in Seq(Chars) : t = Append(s, c)
      BY <3>1
    <3>3. Len(t) = u + 1 /\ \A i \in 1 .. (u + 1) : t[i] = IF i = u + 1 THEN c ELSE s[i]
      BY <1>2, <3>1, <3>2
    <3>4. t = [i \in 1 .. (u + 1) |-> IF i = u + 1 THEN c ELSE s[i]]
      BY <3>3
    <3> QED BY <3>s, <3>2, <3>4
  <2>6. ASSUME NEW i \in 1 .. (u + 1)
        PROVE  buffer'[p][Index(head[p] + i - 1)] = IF i = u + 1 THEN c ELSE KeysOf(p)[i]
    <3>1. i = u + 1 \/ i \in 1 .. u
      BY <1>2
    <3> QED BY <1>2, <2>2, <2>3, <2>4, <3>1
  <2> QED BY <2>2, <2>5, <2>6
<1>4. \A q \in Processes \ {p} : KeysOf(q)' = KeysOf(q)
  BY <1>1, KeysOfOthers
<1> QED BY <1>p, <1>3, <1>4 DEF AllKeys

\* A pop takes the first key.
LEMMA PopTakesFirst ==
  ASSUME KeysFit, KeyboardInv, NEW p \in Processes, p = running, isr80h_command2_getkey
  PROVE  IF AllKeys[p] = << >>
           THEN key' = 0 /\ UNCHANGED AllKeys
           ELSE key' = Head(AllKeys[p]) /\ AllKeys' = [AllKeys EXCEPT ![p] = Tail(@)]
<1>u. PICK u : u = Unread(p)
  OBVIOUS
<1>1. KeysOf(p) \in Seq(Chars) /\ Len(KeysOf(p)) = u /\ AllKeys[p] = KeysOf(p)
  BY <1>u, KeysOfType DEF AllKeys
<1>2. /\ u \in Nat /\ u <= Size /\ head[p] \in Counters /\ head[p] \in Int /\ Size \in Nat \ {0}
      /\ buffer[p] \in [0 .. (Size - 1) -> Chars \cup {0}]
  BY <1>u, BufferFacts DEF Counters
<1>3. AllKeys[p] = << >> <=> u = 0
  BY <1>1, EmptySeq
<1>4. CASE u = 0
  <2>1. UNCHANGED <<buffer, head, tail>> /\ key' = 0
    BY <1>4, <1>u, PopStep, ZeroAtHead
  <2>2. UNCHANGED AllKeys
    BY <2>1, KeysOfOthers DEF AllKeys
  <2> QED BY <1>3, <1>4, <2>1, <2>2
<1>5. CASE u /= 0
  <2>1. /\ KeyboardInv' /\ Unread(p)' = u - 1
        /\ head'[p] = Inc(head[p])
        /\ buffer'[p] = [buffer[p] EXCEPT ![Index(head[p])] = 0]
        /\ \A q \in Processes \ {p} : UNCHANGED <<buffer[q], head[q], tail[q]>>
        /\ key' = buffer[p][Index(head[p])]
    BY <1>5, <1>u, PopStep DEF KeyboardInv, TypeOK
  <2>2. key' = Head(KeysOf(p))
    <3>1. 1 \in 1 .. u /\ head[p] + 1 - 1 = head[p]
      BY <1>2, <1>5
    <3>2. KeysOf(p)[1] = buffer[p][Index(head[p])]
      BY <1>u, <3>1, KeysOfType
    <3> QED BY <1>1, <1>2, <1>5, <2>1, <3>2
  <2>3. KeysOf(p)' = [i \in 1 .. (u - 1) |-> KeysOf(p)[i + 1]]
    <3>1. KeysOf(p)' = [i \in 1 .. (u - 1) |-> buffer'[p][Index(Inc(head[p]) + i - 1)]]
      BY <2>1 DEF KeysOf
    <3>2. ASSUME NEW i \in 1 .. (u - 1)
          PROVE  buffer'[p][Index(Inc(head[p]) + i - 1)] = KeysOf(p)[i + 1]
      <4>1. /\ i - 1 \in Nat /\ i \in 0 .. (Size - 1) /\ 0 \in 0 .. (Size - 1) /\ i /= 0
            /\ i + 1 \in 1 .. u /\ head[p] + (i + 1) - 1 = head[p] + i /\ head[p] + i \in Int
            /\ head[p] + (i - 1) + 1 = head[p] + i /\ head[p] + 0 = head[p]
        BY <1>2
      <4>2. Inc(head[p]) + i - 1 = Inc(head[p]) + (i - 1)
        BY <1>2, IncOfCounter DEF Counters
      <4>3. Index(Inc(head[p]) + (i - 1)) = Index(head[p] + (i - 1) + 1)
        BY <1>2, <4>1, IndexOfSum
      <4>4. Index(Inc(head[p]) + i - 1) = Index(head[p] + i)
        BY <4>1, <4>2, <4>3
      <4>5. Index(head[p] + i) /= Index(head[p]) /\ Index(head[p] + i) \in 0 .. (Size - 1)
        BY <1>2, <4>1, IndicesDiffer, IndexOfSum
      <4>6. KeysOf(p)[i + 1] = buffer[p][Index(head[p] + i)]
        BY <1>u, <4>1, KeysOfType
      <4> QED BY <1>2, <2>1, <4>4, <4>5, <4>6
    <3> QED BY <3>1, <3>2
  <2>4. KeysOf(p)' = Tail(KeysOf(p))
    <3>1. KeysOf(p) /= << >>
      BY <1>1, <1>2, <1>5
    <3>2. Tail(KeysOf(p)) = [i \in 1 .. (u - 1) |-> KeysOf(p)[i + 1]]
      BY <1>1, <1>2, <1>5, <3>1, HeadTailProperties
    <3> QED BY <2>3, <3>2
  <2>5. \A q \in Processes \ {p} : KeysOf(q)' = KeysOf(q)
    BY <2>1, KeysOfOthers
  <2> QED BY <1>1, <1>3, <1>5, <2>2, <2>4, <2>5 DEF AllKeys
<1> QED BY <1>4, <1>5

LEMMA ResetEmpties ==
  ASSUME KeysFit, KeyboardInv, NEW p \in Processes, process_load_switch(p)
  PROVE  AllKeys' = [AllKeys EXCEPT ![p] = << >>]
<1>1. Unread(p)' = 0 /\ \A q \in Processes \ {p} : UNCHANGED <<buffer[q], head[q], tail[q]>>
  BY ResetStep
<1>2. KeysOf(p)' = << >>
  BY <1>1 DEF KeysOf
<1>3. \A q \in Processes \ {p} : KeysOf(q)' = KeysOf(q)
  BY <1>1, KeysOfOthers
<1> QED BY <1>2, <1>3 DEF AllKeys

\* The ring buffers implement the queues of KeyQueue: a key is never lost,
\* doubled, reordered or given to another process, and keyboard_pop answers 0
\* exactly when the process has none.
THEOREM KeyboardImplementsKeyQueue == KeysFit => (Spec => ImplementsKeyQueue)
<1> SUFFICES ASSUME KeysFit PROVE Spec => ImplementsKeyQueue
  OBVIOUS
<1> DEFINE N == \/ \E p \in Processes, c \in Chars :
                     AllKeys' = [AllKeys EXCEPT ![p] = Append(@, c)] /\ UNCHANGED key
                \/ \E p \in Processes :
                     IF AllKeys[p] = << >>
                       THEN key' = 0 /\ UNCHANGED AllKeys
                       ELSE key' = Head(AllKeys[p]) /\ AllKeys' = [AllKeys EXCEPT ![p] = Tail(@)]
                \/ \E p \in Processes : AllKeys' = [AllKeys EXCEPT ![p] = << >>] /\ UNCHANGED key
<1>1. Init => Queues!Init
  <2> SUFFICES ASSUME Init PROVE Queues!Init
    OBVIOUS
  <2>1. (0 - 0) % WordSize = 0
    BY DistanceOfCounters, KeyboardAssumption DEF Counters
  <2>2. \A p \in Processes : Unread(p) = 0
    BY <2>1 DEF Init, Unread
  <2> QED BY <2>2 DEF Init, Queues!Init, KeysOf
<1>2. ASSUME KeyboardInv, [Next]_vars PROVE N \/ UNCHANGED <<AllKeys, key>>
  <2>1. current \in Processes /\ running \in Processes /\ capslock \in BOOLEAN
    BY <1>2 DEF KeyboardInv, TypeOK
  <2>2. ASSUME NEW scancode \in Scancodes, classic_keyboard_handle_interrupt(scancode)
        PROVE  N \/ UNCHANGED <<AllKeys, key>>
    <3>1. CASE UNCHANGED <<head, current, running, key, buffer, tail>>
      BY <3>1, KeysOfOthers DEF AllKeys
    <3>2. ASSUME NEW c \in Chars, keyboard_push(c), Unread(current) < MaxUnread,
                 UNCHANGED <<head, current, running, key, capslock>>
          PROVE  N
      BY <1>2, <2>1, <3>2, PushAppends
    <3> QED BY <1>2, <2>2, <3>1, <3>2, InterruptStep
  <2>3. CASE isr80h_command2_getkey
    BY <1>2, <2>1, <2>3, PopTakesFirst
  <2>4. ASSUME NEW p \in Processes, process_load_switch(p) PROVE N
    BY <1>2, <2>4, ResetEmpties DEF process_load_switch
  <2>5. CASE process_terminate \/ UNCHANGED vars
    BY <2>5, KeysOfOthers DEF AllKeys, process_terminate, vars
  <2> QED BY <1>2, <2>2, <2>3, <2>4, <2>5 DEF Next
<1>3. KeyboardInv /\ [Next]_vars => [Queues!Next]_<<[p \in Processes |-> KeysOf(p)], key>>
  <2>1. N => Queues!Next
    BY DEF AllKeys, Queues!Next, Queues!Press, Queues!Get, Queues!Reset
  <2> HIDE DEF N
  <2> QED BY <1>2, <2>1 DEF AllKeys
<1> QED BY <1>1, <1>3, KeyboardInvariant, PTL DEF Spec, ImplementsKeyQueue, Queues!Spec
-----------------------------------------------------------------------------
(* Strings. *)

\* The first element of a set in an interval.
LEMMA FirstInInterval ==
  ASSUME NEW S, NEW a \in Nat, NEW b \in Nat, NEW e \in a .. b, e \in S
  PROVE  \E n \in a .. b : n \in S /\ \A j \in a .. (n - 1) : j \notin S
<1> DEFINE T == {n \in a .. b : n \in S}
<1>1. T \subseteq Nat /\ T /= {}
  OBVIOUS
<1>2. PICK n \in T : \A m \in T : n <= m
  <2> HIDE DEF T
  <2> QED BY <1>1, LeastNatural
<1>3. ASSUME NEW j \in a .. (n - 1) PROVE j \notin S
  <2>1. j \in a .. b /\ ~(n <= j)
    BY <1>2
  <2> QED BY <1>2, <2>1
<1> QED BY <1>2, <1>3

\* A function on 1 to d is a sequence of length d.
LEMMA FunctionIsSeq ==
  ASSUME NEW d \in Nat, NEW V, NEW f \in [1 .. d -> V]
  PROVE  f \in Seq(V) /\ Len(f) = d
  OBVIOUS

\* The characters from a place up to another.
Piece(mem, from, end) == [k \in 1 .. (end - from) |-> mem[from + k - 1]]

\* A string, given the place of its terminator.
LEMMA StringUpTo ==
  ASSUME NEW mem, NEW from \in Nat, NEW end \in from .. LineSize,
         mem[end] = NUL, \A k \in from .. (end - 1) : mem[k] /= NUL
  PROVE  StringAt(mem, from) = Piece(mem, from, end)
<1> DEFINE P(e) == mem[e] = NUL /\ \A k \in from .. (e - 1) : mem[k] /= NUL
           e0 == CHOOSE e \in from .. LineSize : P(e)
<1>1. e0 \in from .. LineSize /\ P(e0)
  BY Zenon
<1>0. LineSize \in Nat
  BY CommandLineAssumption
<1>2. e0 = end
  <2> HIDE DEF e0
  <2>1. ~(e0 < end) /\ ~(end < e0)
    BY <1>0, <1>1
  <2> QED BY <1>0, <1>1, <2>1
<1>3. StringAt(mem, from) = [k \in 1 .. (e0 - from) |-> mem[from + k - 1]]
  BY DEF StringAt
<1> QED
  <2> HIDE DEF e0
  <2> QED BY <1>2, <1>3 DEF Piece

\* A string in a buffer that ends with a terminator.
LEMMA StringIsSeq ==
  ASSUME NEW n \in 0 .. LineSize, NEW mem \in [0 .. n -> Nat], mem[n] = NUL,
         NEW from \in 0 .. n
  PROVE  \E end \in from .. n :
           /\ mem[end] = NUL
           /\ \A k \in from .. (end - 1) : mem[k] /= NUL
           /\ StringAt(mem, from) = Piece(mem, from, end)
           /\ StringAt(mem, from) \in Seq(Nat)
           /\ Len(StringAt(mem, from)) = end - from
<1> DEFINE S == {k \in 0 .. n : mem[k] = NUL}
<1>0. LineSize \in Nat
  BY CommandLineAssumption
<1>1. from \in Nat /\ n \in Nat /\ n \in from .. n /\ n \in S
  BY <1>0
<1>2. PICK end \in from .. n : end \in S /\ \A j \in from .. (end - 1) : j \notin S
  <2> HIDE DEF S
  <2> QED BY <1>1, FirstInInterval
<1>3. /\ mem[end] = NUL /\ end \in from .. LineSize /\ end - from \in Nat
      /\ \A k \in from .. (end - 1) : k \in 0 .. n
  BY <1>0, <1>2
<1>4. ASSUME NEW k \in from .. (end - 1) PROVE mem[k] /= NUL
  <2>1. k \notin S /\ k \in 0 .. n
    BY <1>2, <1>3
  <2> QED BY <2>1
<1>5. StringAt(mem, from) = Piece(mem, from, end)
  BY <1>1, <1>3, <1>4, StringUpTo
<1>6. Piece(mem, from, end) \in Seq(Nat) /\ Len(Piece(mem, from, end)) = end - from
  <2>1. \A k \in 1 .. (end - from) : from + k - 1 \in 0 .. n
    BY <1>3
  <2>2. Piece(mem, from, end) \in [1 .. (end - from) -> Nat]
    BY <2>1 DEF Piece
  <2> QED BY <1>3, <2>2, FunctionIsSeq
<1> QED BY <1>3, <1>4, <1>5, <1>6
-----------------------------------------------------------------------------
(* Quotes. *)

Count(f, q, a, k) == Cardinality({j \in a .. k : f[j] = q})

LEMMA CountStep ==
  ASSUME NEW f, NEW q, NEW a \in Nat, NEW k \in Int, a <= k + 1
  PROVE  /\ Count(f, q, a, k) \in Nat
         /\ Count(f, q, a, k + 1) = IF f[k + 1] = q THEN Count(f, q, a, k) + 1 ELSE Count(f, q, a, k)
<1> DEFINE S == {j \in a .. k : f[j] = q}
<1>1. IsFiniteSet(S) /\ Cardinality(S) \in Nat
  <2>1. IsFiniteSet(a .. k)
    BY FS_Interval
  <2>2. IsFiniteSet(S)
    BY <2>1, FS_Subset
  <2> HIDE DEF S
  <2> QED BY <2>2, FS_CardinalityType
<1>2. CASE f[k + 1] = q
  <2>1. {j \in a .. (k + 1) : f[j] = q} = S \cup {k + 1} /\ k + 1 \notin S
    BY <1>2
  <2>2. Cardinality(S \cup {k + 1}) = Cardinality(S) + 1
    <3> HIDE DEF S
    <3> QED BY <1>1, <2>1, FS_AddElement
  <2> QED BY <1>1, <1>2, <2>1, <2>2 DEF Count
<1>3. CASE f[k + 1] /= q
  <2>1. {j \in a .. (k + 1) : f[j] = q} = S
    BY <1>3
  <2> QED BY <1>1, <1>3, <2>1 DEF Count
<1> QED BY <1>2, <1>3

\* A quote changes whether one is open, and nothing else does.
LEMMA QuoteStep ==
  ASSUME NEW f, NEW o \in BOOLEAN, NEW q, NEW a \in Nat, NEW k \in Int, a <= k + 1
  PROVE  /\ QuoteAfter(f, o, q, a, k) \in BOOLEAN
         /\ QuoteAfter(f, o, q, a, k + 1) = (QuoteAfter(f, o, q, a, k) /= (f[k + 1] = q))
<1>1. PICK n : n = Count(f, q, a, k)
  OBVIOUS
<1>2. PICK m : m = Count(f, q, a, k + 1)
  OBVIOUS
<1>3. n \in Nat /\ m = IF f[k + 1] = q THEN n + 1 ELSE n
  BY <1>1, <1>2, CountStep
<1>4. f[k + 1] = q => ((m % 2 = 1) <=> ~(n % 2 = 1))
  BY <1>3
<1>5. f[k + 1] /= q => ((m % 2 = 1) <=> (n % 2 = 1))
  BY <1>3
<1>6. QuoteAfter(f, o, q, a, k) = (o /= (n % 2 = 1))
  BY <1>1, Zenon DEF QuoteAfter, Count
<1>7. QuoteAfter(f, o, q, a, k + 1) = (o /= (m % 2 = 1))
  BY <1>2, Zenon DEF QuoteAfter, Count
<1> DEFINE x == (n % 2 = 1)
           y == (m % 2 = 1)
           z == (f[k + 1] = q)
<1>8. x \in BOOLEAN /\ y \in BOOLEAN /\ z \in BOOLEAN
  BY Zenon
<1>9. y = (x /= z)
  BY <1>4, <1>5
<1>10. (o /= y) = ((o /= x) /= z) /\ (o /= x) \in BOOLEAN
  <2> HIDE DEF x, y, z
  <2> QED BY <1>8, <1>9
<1> QED BY <1>6, <1>7, <1>10, Zenon

LEMMA QuoteAtStart ==
  ASSUME NEW f, NEW o \in BOOLEAN, NEW q, NEW a \in Nat
  PROVE  QuoteAfter(f, o, q, a, a - 1) = o
<1>1. {j \in a .. (a - 1) : f[j] = q} = {}
  OBVIOUS
<1>2. Cardinality({j \in a .. (a - 1) : f[j] = q}) = 0
  BY <1>1, FS_EmptySet
<1>3. ~(0 % 2 = 1)
  OBVIOUS
<1>4. QuoteAfter(f, o, q, a, a - 1) = (o /= (0 % 2 = 1))
  BY <1>2, Zenon DEF QuoteAfter
<1> QED BY <1>3, <1>4
-----------------------------------------------------------------------------
(* The terminal. *)

\* Cells and their rows.
LEMMA CursorOfTerminal ==
  ASSUME NEW t \in Terminals
  PROVE  /\ Width \in Nat \ {0} /\ t.row \in Nat /\ t.col \in 0 .. (Width - 1)
         /\ Cursor(t) \in Nat
         /\ Cursor(t) = 0 => t.row = 0 /\ t.col = 0
<1>1. Width \in Nat \ {0} /\ t.row \in Nat /\ t.col \in 0 .. (Width - 1)
  BY TerminalAssumption DEF Terminals
<1>2. t.row * Width \in Nat /\ (t.row /= 0 => t.row * Width >= Width)
  BY <1>1
<1>3. Cursor(t) = t.row * Width + t.col
  BY DEF Cursor, Cell
<1> QED BY <1>1, <1>2, <1>3

LEMMA RowSteps ==
  ASSUME NEW row \in Int, NEW w \in Int
  PROVE  /\ row * w \in Int
         /\ (row + 1) * w = row * w + w
         /\ (row - 1) * w = row * w - w
  OBVIOUS

\* A character written: the cursor moves one cell on.
LEMMA WriteCharMoves ==
  ASSUME NEW t \in Terminals, NEW c \in Nat \ {LineFeed, Backspace}
  PROVE  /\ terminal_writechar(t, c) \in Terminals
         /\ Cursor(terminal_writechar(t, c)) = Cursor(t) + 1
         /\ \A k \in DOMAIN t.cells :
              terminal_writechar(t, c).cells[k] = IF k = Cursor(t) THEN c ELSE t.cells[k]
<1>1. Width \in Nat \ {0} /\ t.row \in Nat /\ t.col \in 0 .. (Width - 1)
  BY CursorOfTerminal
<1>2. PICK D : D = 0 .. (Rows * Width - 1)
  OBVIOUS
<1>3. t.cells \in [D -> Nat] /\ t \in [row : Nat, col : 0 .. (Width - 1), cells : [D -> Nat]]
  BY <1>2 DEF Terminals
<1>4. PICK cells : cells = [t.cells EXCEPT ![Cursor(t)] = c]
  OBVIOUS
<1>5. cells \in [D -> Nat] /\ \A k \in D : cells[k] = IF k = Cursor(t) THEN c ELSE t.cells[k]
  BY <1>3, <1>4
<1>6. terminal_writechar(t, c) =
        IF t.col + 1 >= Width THEN [row |-> t.row + 1, col |-> 0, cells |-> cells]
        ELSE [row |-> t.row, col |-> t.col + 1, cells |-> cells]
  <2>1. c /= LineFeed /\ c /= Backspace
    OBVIOUS
  <2>2. PICK u : u = terminal_putchar(t, t.row, t.col, c)
    OBVIOUS
  <2>3. u = [row |-> t.row, col |-> t.col, cells |-> cells]
    BY <1>3, <1>4, <2>2 DEF terminal_putchar, Cursor
  <2>4. terminal_writechar(t, c) =
          IF t.col + 1 >= Width THEN [u EXCEPT !.row = t.row + 1, !.col = 0]
          ELSE [u EXCEPT !.col = t.col + 1]
    BY <2>1, <2>2 DEF terminal_writechar
  <2> QED BY <2>3, <2>4
<1>7. CASE t.col + 1 >= Width
  <2>1. terminal_writechar(t, c) = [row |-> t.row + 1, col |-> 0, cells |-> cells]
    BY <1>6, <1>7
  <2>2. t.col + 1 = Width /\ (t.row + 1) * Width = t.row * Width + Width /\ t.row * Width \in Int
    BY <1>1, <1>7, RowSteps
  <2>3. terminal_writechar(t, c) \in Terminals
    BY <1>1, <1>2, <1>5, <2>1 DEF Terminals
  <2>4. Cursor(terminal_writechar(t, c)) = Cursor(t) + 1
    BY <1>1, <2>1, <2>2 DEF Cursor, Cell
  <2> QED BY <1>3, <1>5, <2>1, <2>3, <2>4
<1>8. CASE ~(t.col + 1 >= Width)
  <2>1. terminal_writechar(t, c) = [row |-> t.row, col |-> t.col + 1, cells |-> cells]
    BY <1>6, <1>8
  <2>2. t.col + 1 \in 0 .. (Width - 1) /\ t.row * Width \in Int
    BY <1>1, <1>8, RowSteps
  <2>3. terminal_writechar(t, c) \in Terminals
    BY <1>1, <1>2, <1>5, <2>1, <2>2 DEF Terminals
  <2>4. Cursor(terminal_writechar(t, c)) = Cursor(t) + 1
    BY <1>1, <2>1, <2>2 DEF Cursor, Cell
  <2> QED BY <1>3, <1>5, <2>1, <2>3, <2>4
<1> QED BY <1>7, <1>8

\* A character erased: the cursor moves one cell back, also over the left margin.
LEMMA BackspaceMoves ==
  ASSUME NEW t \in Terminals
  PROVE  /\ terminal_backspace(t) \in Terminals
         /\ Cursor(t) /= 0 =>
              /\ Cursor(terminal_backspace(t)) = Cursor(t) - 1
              /\ \A k \in DOMAIN t.cells :
                   k /= Cursor(t) - 1 => terminal_backspace(t).cells[k] = t.cells[k]
<1>1. Width \in Nat \ {0} /\ t.row \in Nat /\ t.col \in 0 .. (Width - 1)
  BY CursorOfTerminal
<1>2. PICK D : D = 0 .. (Rows * Width - 1)
  OBVIOUS
<1>3. t.cells \in [D -> Nat] /\ t \in [row : Nat, col : 0 .. (Width - 1), cells : [D -> Nat]]
  BY <1>2 DEF Terminals
<1>4. CASE t.row = 0 /\ t.col = 0
  <2>1. terminal_backspace(t) = t /\ Cursor(t) = 0
    BY <1>1, <1>4 DEF terminal_backspace, Cursor, Cell
  <2> QED BY <2>1
<1>5. CASE ~(t.row = 0 /\ t.col = 0)
  <2>1. PICK row, col : /\ row = IF t.col = 0 THEN t.row - 1 ELSE t.row
                        /\ col = IF t.col = 0 THEN Width - 1 ELSE t.col - 1
    OBVIOUS
  <2>2. row \in Nat /\ col \in 0 .. (Width - 1)
    BY <1>1, <1>5, <2>1
  <2>3. Cell(row, col) = Cursor(t) - 1
    <3>1. t.row * Width \in Int /\ (t.row - 1) * Width = t.row * Width - Width
      BY <1>1, RowSteps
    <3> QED BY <1>1, <2>1, <3>1 DEF Cursor, Cell
  <2>4. PICK cells : cells = [t.cells EXCEPT ![Cursor(t) - 1] = Blank]
    OBVIOUS
  <2>5. terminal_backspace(t) = [row |-> row, col |-> col, cells |-> cells]
    BY <1>3, <1>5, <2>1, <2>3, <2>4 DEF terminal_backspace, terminal_putchar
  <2>6. cells \in [D -> Nat] /\ \A k \in D : k /= Cursor(t) - 1 => cells[k] = t.cells[k]
    BY <1>3, <2>4 DEF Blank
  <2>7. terminal_backspace(t) \in Terminals
    BY <1>2, <2>2, <2>5, <2>6 DEF Terminals
  <2>8. Cursor(terminal_backspace(t)) = Cursor(t) - 1
    BY <2>3, <2>5 DEF Cursor
  <2> QED BY <1>3, <2>5, <2>6, <2>7, <2>8
<1> QED BY <1>4, <1>5

LEMMA WriteCharType ==
  ASSUME NEW t \in Terminals, NEW c \in Nat
  PROVE  terminal_writechar(t, c) \in Terminals
<1>1. CASE c = LineFeed
  <2>1. Width \in Nat \ {0} /\ t.row \in Nat
    BY CursorOfTerminal
  <2>2. terminal_writechar(t, c) = [row |-> t.row + 1, col |-> 0, cells |-> t.cells]
    BY <1>1 DEF terminal_writechar, Terminals
  <2>3. t.cells \in [0 .. (Rows * Width - 1) -> Nat]
    BY DEF Terminals
  <2> QED BY <2>1, <2>2, <2>3 DEF Terminals
<1>2. CASE c = Backspace
  BY <1>2, BackspaceMoves DEF terminal_writechar, Backspace, LineFeed
<1>3. CASE c \notin {LineFeed, Backspace}
  BY <1>3, WriteCharMoves
<1> QED BY <1>1, <1>2, <1>3

\* A string is printed character by character.
LEMMA PrintType ==
  ASSUME NEW t \in Terminals, NEW str \in Seq(Nat)
  PROVE  print(t, str) \in Terminals
<1> DEFINE N == Len(str)
           Loop(g) == g = [k \in 0 .. N |-> IF k = 0 THEN t ELSE terminal_writechar(g[k - 1], str[k])]
           m == CHOOSE g : Loop(g)
<1>1. N \in Nat /\ \A k \in 1 .. N : str[k] \in Nat
  OBVIOUS
<1>2. print(t, str) = m[N]
  BY DEF print
<1> HIDE DEF N
<1>3. PICK step : step = [k \in 1 .. N |-> [u \in Terminals |-> terminal_writechar(u, str[k])]]
  OBVIOUS
<1>4. step \in [1 .. N -> [Terminals -> Terminals]]
  BY <1>1, <1>3, WriteCharType
<1>5. PICK g : ValuesOfLoop(N, Terminals, t, step, g)
  BY <1>1, <1>4, LoopRuns
<1>6. Loop(g)
  <2>1. ASSUME NEW k \in 1 .. N PROVE g[k] = terminal_writechar(g[k - 1], str[k])
    <3>1. g[k - 1] \in Terminals /\ g[k] = step[k][g[k - 1]]
      BY <1>1, <1>5 DEF ValuesOfLoop
    <3> QED BY <1>3, <3>1
  <2>2. \A k \in 0 .. N : g[k] = IF k = 0 THEN t ELSE terminal_writechar(g[k - 1], str[k])
    BY <1>1, <1>5, <2>1 DEF ValuesOfLoop
  <2> QED BY <1>5, <2>2 DEF ValuesOfLoop
<1>7. Loop(m)
  <2> HIDE DEF Loop
  <2> QED BY <1>6
<1> HIDE DEF m
<1>8. \A k \in 0 .. N : m[k] \in Terminals
  <2> DEFINE T == {k \in 0 .. N : m[k] \in Terminals}
  <2>1. \A k \in 0 .. N : m[k] = IF k = 0 THEN t ELSE terminal_writechar(m[k - 1], str[k])
    BY <1>7
  <2>2. 0 \in T
    BY <1>1, <2>1
  <2>3. ASSUME NEW k \in 1 .. N, k - 1 \in T PROVE k \in T
    <3>1. k \in 0 .. N /\ m[k - 1] \in Terminals /\ str[k] \in Nat
      BY <1>1, <2>3
    <3>2. m[k] = terminal_writechar(m[k - 1], str[k])
      BY <2>1, <3>1
    <3> QED BY <3>1, <3>2, WriteCharType
  <2> HIDE DEF T
  <2>4. \A k \in 0 .. N : k \in T
    BY <1>1, <2>2, <2>3, LoopInduction
  <2> QED BY <2>4 DEF T
<1> QED BY <1>1, <1>2, <1>8

\* The program echo prints one argument after the other.
LEMMA EchoType ==
  ASSUME NEW t \in Terminals, NEW list \in Seq(Seq(Nat)), list /= << >>
  PROVE  Echo(t, process_inject_arguments(list)) \in Terminals
<1>a. PICK arg : arg = process_inject_arguments(list)
  OBVIOUS
<1> DEFINE nl == <<LineFeed>>
           N == arg.argc - 1
           Printed(k) == IF k + 1 < arg.argc THEN Append(arg.argv[k], Blank) ELSE arg.argv[k]
           Loop(g) == g = [k \in 0 .. N |-> IF k = 0 THEN print(t, nl)
                                            ELSE print(g[k - 1], Printed(k))]
           m == CHOOSE g : Loop(g)
<1>0. /\ N \in Nat
      /\ \A k \in 1 .. N : arg.argv[k] \in Seq(Nat)
  <2>1. Len(list) \in Nat /\ Len(list) /= 0
    BY EmptySeq
  <2>2. arg.argc = Len(list) /\ arg.argv = [k \in 0 .. (Len(list) - 1) |-> list[k + 1]]
    BY <1>a DEF process_inject_arguments
  <2>3. ASSUME NEW k \in 1 .. N PROVE arg.argv[k] \in Seq(Nat)
    <3>1. k \in 0 .. (Len(list) - 1) /\ k + 1 \in 1 .. Len(list)
      BY <2>1, <2>2
    <3> QED BY <2>2, <3>1
  <2> QED BY <2>1, <2>2, <2>3
<1>1. \A k \in 1 .. N : Printed(k) \in Seq(Nat)
  BY <1>0, AppendProperties DEF Blank
<1>2. Echo(t, arg) = IF arg.argc = 1 THEN t ELSE print(m[N], nl)
  BY DEF Echo
<1>3. nl \in Seq(Nat)
  BY DEF LineFeed
<1> HIDE DEF nl
<1>4. PICK first \in Terminals : first = print(t, nl)
  BY <1>3, PrintType
<1> HIDE DEF N, Printed
<1>5. PICK step : step = [k \in 1 .. N |-> [u \in Terminals |-> print(u, Printed(k))]]
  OBVIOUS
<1>6. step \in [1 .. N -> [Terminals -> Terminals]]
  BY <1>1, <1>5, PrintType
<1>7. PICK g : ValuesOfLoop(N, Terminals, first, step, g)
  BY <1>0, <1>6, LoopRuns
<1>8. Loop(g)
  <2>1. ASSUME NEW k \in 1 .. N PROVE g[k] = print(g[k - 1], Printed(k))
    <3>1. g[k - 1] \in Terminals /\ g[k] = step[k][g[k - 1]]
      BY <1>0, <1>7 DEF ValuesOfLoop
    <3> QED BY <1>5, <3>1
  <2>2. \A k \in 0 .. N : g[k] = IF k = 0 THEN print(t, nl) ELSE print(g[k - 1], Printed(k))
    BY <1>0, <1>4, <1>7, <2>1 DEF ValuesOfLoop
  <2> QED BY <1>7, <2>2 DEF ValuesOfLoop
<1>9. Loop(m)
  <2> HIDE DEF Loop
  <2> QED BY <1>8
<1> HIDE DEF m
<1>10. \A k \in 0 .. N : m[k] \in Terminals
  <2> DEFINE T == {k \in 0 .. N : m[k] \in Terminals}
  <2>1. \A k \in 0 .. N : m[k] = IF k = 0 THEN print(t, nl) ELSE print(m[k - 1], Printed(k))
    BY <1>9
  <2>2. 0 \in T
    BY <1>0, <1>4, <2>1
  <2>3. ASSUME NEW k \in 1 .. N, k - 1 \in T PROVE k \in T
    <3>1. k \in 0 .. N /\ m[k - 1] \in Terminals /\ Printed(k) \in Seq(Nat)
      BY <1>0, <1>1, <2>3
    <3>2. m[k] = print(m[k - 1], Printed(k))
      BY <2>1, <3>1
    <3> QED BY <3>1, <3>2, PrintType
  <2> HIDE DEF T
  <2>4. \A k \in 0 .. N : k \in T
    BY <1>0, <2>2, <2>3, LoopInduction
  <2> QED BY <2>4 DEF T
<1>11. print(m[N], nl) \in Terminals
  <2>1. N \in 0 .. N
    BY <1>0
  <2>2. m[N] \in Terminals
    BY <1>10, <2>1
  <2> QED BY <1>3, <2>2, PrintType
<1> QED BY <1>a, <1>2, <1>11
-----------------------------------------------------------------------------
(* Paths. *)

\* A part ends at the next slash or at the end of the path.
LEMMA EndOfPartFacts ==
  ASSUME NEW path \in Seq(Nat), NEW at \in 1 .. (Len(path) + 1)
  PROVE  /\ EndOfPart(path, at) \in at .. (Len(path) + 1)
         /\ EndOfPart(path, at) = Len(path) + 1 \/ path[EndOfPart(path, at)] = Slash
         /\ \A j \in at .. (EndOfPart(path, at) - 1) : path[j] /= Slash
<1> DEFINE N == Len(path) + 1
           S == {e \in 1 .. N : e = N \/ path[e] = Slash}
           P(e) == /\ e = Len(path) + 1 \/ path[e] = Slash
                   /\ \A j \in at .. (e - 1) : path[j] /= Slash
<1>1. N \in Nat /\ at \in Nat /\ N \in at .. N /\ N \in S
  OBVIOUS
<1>2. PICK e \in at .. N : e \in S /\ \A j \in at .. (e - 1) : j \notin S
  <2> HIDE DEF S, N
  <2> QED BY <1>1, FirstInInterval
<1>3. e \in at .. (Len(path) + 1) /\ P(e)
  <2>1. ASSUME NEW j \in at .. (e - 1) PROVE path[j] /= Slash
    <3>1. j \in 1 .. N /\ j \notin S
      BY <1>1, <1>2
    <3> QED BY <3>1
  <2> QED BY <1>2, <2>1
<1>4. EndOfPart(path, at) = CHOOSE x \in at .. (Len(path) + 1) : P(x)
  BY DEF EndOfPart
<1>5. EndOfPart(path, at) \in at .. (Len(path) + 1) /\ P(EndOfPart(path, at))
  <2> HIDE DEF P
  <2> QED BY <1>3, <1>4
<1> QED BY <1>5

\* Two pieces of a path and the slash between them.
LEMMA JoinPieces ==
  ASSUME NEW path \in Seq(Nat), NEW at \in 2 .. (Len(path) + 1), path[at - 1] = Slash,
         NEW end \in at .. (Len(path) + 1)
  PROVE  SubSeq(path, 1, at - 2) \o <<Slash>> \o SubSeq(path, at, end - 1)
           = SubSeq(path, 1, end - 1)
<1>1. /\ Len(path) \in Nat /\ 1 \in 1 .. (Len(path) + 1)
      /\ at - 2 \in (1 - 1) .. Len(path) /\ at - 1 \in (at - 2) .. Len(path)
      /\ at - 1 \in (1 - 1) .. Len(path) /\ end - 1 \in (at - 1) .. Len(path)
      /\ at - 1 \in 1 .. Len(path)
      /\ at - 2 + 1 = at - 1 /\ at - 1 + 1 = at
  OBVIOUS
<1>2. SubSeq(path, at - 1, at - 1) = <<Slash>>
  <2>1. path[at - 1] \in Nat /\ at - 1 \in Int
    BY <1>1
  <2>2. PICK s : s = SubSeq(path, at - 1, at - 1)
    OBVIOUS
  <2>3. s \in Seq(Nat) /\ Len(s) = 1 /\ s[1] = path[at - 1]
    BY <1>1, <2>1, <2>2
  <2>4. <<Slash>> \in Seq(Nat) /\ Len(<<Slash>>) = 1 /\ <<Slash>>[1] = Slash
    BY DEF Slash
  <2>5. s = <<Slash>>
    BY <2>3, <2>4, SeqEqual
  <2> QED BY <2>2, <2>5
<1>3. SubSeq(path, 1, at - 2) \o SubSeq(path, at - 2 + 1, at - 1) = SubSeq(path, 1, at - 1)
  BY <1>1, ConcatAdjacentSubSeq
<1>4. SubSeq(path, 1, at - 1) \o SubSeq(path, at - 1 + 1, end - 1) = SubSeq(path, 1, end - 1)
  BY <1>1, ConcatAdjacentSubSeq
<1> QED BY <1>1, <1>2, <1>3, <1>4

\* Parts are joined one after the other.
JoinedTo(parts, g) ==
  /\ g \in [0 .. Len(parts) -> Seq(Nat)]
  /\ g[0] = << >>
  /\ \A k \in 1 .. Len(parts) : g[k] = IF k = 1 THEN parts[1] ELSE g[k - 1] \o <<Slash>> \o parts[k]

LEMMA JoinedRuns ==
  ASSUME NEW parts \in Seq(Seq(Nat))
  PROVE  \E g : JoinedTo(parts, g) /\ Joined(parts) = g[Len(parts)]
<1> DEFINE N == Len(parts)
           V == Seq(Nat)
           Turn(k, s) == IF k = 1 THEN parts[1] ELSE s \o <<Slash>> \o parts[k]
           Loop(g) == g = [k \in 0 .. N |-> IF k = 0 THEN << >> ELSE Turn(k, g[k - 1])]
           m == CHOOSE g : Loop(g)
<1>1. N \in Nat /\ << >> \in V /\ \A k \in 1 .. N : parts[k] \in V
  OBVIOUS
<1>2. Joined(parts) = m[N]
  BY Zenon DEF Joined
<1>3. ASSUME NEW k \in 1 .. N, NEW s \in V PROVE Turn(k, s) \in V
  <2>1. <<Slash>> \in V
    BY DEF Slash
  <2>2. s \o <<Slash>> \in V
    BY <2>1, ConcatProperties
  <2>3. parts[k] \in V
    BY <1>1
  <2>4. (s \o <<Slash>>) \o parts[k] \in V
    BY <2>2, <2>3, ConcatProperties
  <2>5. k = 1 => parts[1] \in V
    BY <2>3
  <2> QED BY <2>4, <2>5
<1> HIDE DEF N, V, Turn
<1>4. PICK step : step = [k \in 1 .. N |-> [s \in V |-> Turn(k, s)]]
  OBVIOUS
<1>5. step \in [1 .. N -> [V -> V]]
  BY <1>3, <1>4
<1>6. PICK g : ValuesOfLoop(N, V, << >>, step, g)
  BY <1>1, <1>5, LoopRuns
<1>7. Loop(g)
  <2>1. ASSUME NEW k \in 1 .. N PROVE g[k] = Turn(k, g[k - 1])
    <3>1. g[k - 1] \in V /\ g[k] = step[k][g[k - 1]]
      BY <1>1, <1>6 DEF ValuesOfLoop
    <3> QED BY <1>4, <3>1
  <2>2. \A k \in 0 .. N : g[k] = IF k = 0 THEN << >> ELSE Turn(k, g[k - 1])
    BY <1>1, <1>6, <2>1 DEF ValuesOfLoop
  <2> QED BY <1>6, <2>2 DEF ValuesOfLoop
<1>8. Loop(m)
  <2> HIDE DEF Loop
  <2> QED BY <1>7
<1> HIDE DEF m
<1>9. \A k \in 0 .. N : m[k] = IF k = 0 THEN << >> ELSE Turn(k, m[k - 1])
  BY <1>8
<1>10. m[0] = << >> /\ \A k \in 1 .. N : m[k] = Turn(k, m[k - 1])
  <2>1. 0 \in 0 .. N /\ \A k \in 1 .. N : k \in 0 .. N /\ k /= 0
    BY <1>1
  <2> QED BY <1>9, <2>1
<1>11. m \in [0 .. N -> V]
  <2> DEFINE T == {k \in 0 .. N : m[k] \in V}
  <2>1. 0 \in T
    BY <1>1, <1>10
  <2>2. ASSUME NEW k \in 1 .. N, k - 1 \in T PROVE k \in T
    BY <1>1, <1>3, <1>10, <2>2
  <2> HIDE DEF T
  <2>3. \A k \in 0 .. N : k \in T
    BY <1>1, <2>1, <2>2, LoopInduction
  <2> QED BY <1>8, <2>3 DEF T
<1> QED BY <1>2, <1>10, <1>11, Zenon DEF JoinedTo, N, V, Turn

\* Joining one part more.
LEMMA JoinedAppend ==
  ASSUME NEW parts \in Seq(Seq(Nat)), NEW part \in Seq(Nat)
  PROVE  /\ Joined(parts) \in Seq(Nat)
         /\ Joined(<< >>) = << >>
         /\ Joined(Append(parts, part)) =
              IF parts = << >> THEN part ELSE Joined(parts) \o <<Slash>> \o part
<1>1. PICK more \in Seq(Seq(Nat)) : more = Append(parts, part)
  BY AppendProperties
<1>2. PICK N \in Nat : N = Len(parts)
  OBVIOUS
<1>3. Len(more) = N + 1 /\ more[N + 1] = part /\ \A k \in 1 .. N : more[k] = parts[k]
  BY <1>1, <1>2, AppendProperties
<1>4. PICK g : JoinedTo(parts, g) /\ Joined(parts) = g[N]
  BY <1>2, JoinedRuns
<1>5. PICK h : JoinedTo(more, h) /\ Joined(more) = h[N + 1]
  BY <1>3, JoinedRuns
<1>6. \A k \in 0 .. N : h[k] = g[k]
  <2> DEFINE T == {k \in 0 .. N : h[k] = g[k]}
  <2>1. 0 \in T
    BY <1>4, <1>5 DEF JoinedTo
  <2>2. ASSUME NEW k \in 1 .. N, k - 1 \in T PROVE k \in T
    <3>1. k \in 1 .. Len(more) /\ k \in 1 .. Len(parts) /\ more[k] = parts[k] /\ k \in 0 .. N
          /\ h[k - 1] = g[k - 1]
      BY <1>2, <1>3, <2>2
    <3>2. h[k] = IF k = 1 THEN more[1] ELSE h[k - 1] \o <<Slash>> \o more[k]
      BY <1>5, <3>1 DEF JoinedTo
    <3>3. g[k] = IF k = 1 THEN parts[1] ELSE g[k - 1] \o <<Slash>> \o parts[k]
      BY <1>4, <3>1 DEF JoinedTo
    <3>4. h[k] = g[k]
      BY <3>1, <3>2, <3>3
    <3> QED BY <3>1, <3>4
  <2> HIDE DEF T
  <2>3. \A k \in 0 .. N : k \in T
    BY <2>1, <2>2, LoopInduction
  <2> QED BY <2>3 DEF T
<1>7. h[N + 1] = IF N + 1 = 1 THEN more[1] ELSE h[N] \o <<Slash>> \o part
  <2>1. PICK M : M = N + 1
    OBVIOUS
  <2>2. M \in 1 .. Len(more) /\ M - 1 = N /\ more[M] = part
    BY <1>3, <2>1
  <2>3. h[M] = IF M = 1 THEN more[1] ELSE h[M - 1] \o <<Slash>> \o more[M]
    BY <1>5, <2>2 DEF JoinedTo
  <2>4. h[M] = IF M = 1 THEN more[1] ELSE h[N] \o <<Slash>> \o part
    BY <2>2, <2>3
  <2> QED BY <2>1, <2>4
<1>8. Joined(more) = IF N = 0 THEN part ELSE Joined(parts) \o <<Slash>> \o part
  <2>1. h[N] = g[N]
    BY <1>6
  <2> QED BY <1>3, <1>4, <1>5, <1>7, <2>1
<1>9. N = 0 <=> parts = << >>
  BY <1>2, EmptySeq
<1>10. Joined(parts) \in Seq(Nat)
  BY <1>2, <1>4 DEF JoinedTo
<1>11. Joined(<< >>) = << >>
  <2>1. << >> \in Seq(Seq(Nat)) /\ Len(<< >>) = 0
    OBVIOUS
  <2>2. PICK f : JoinedTo(<< >>, f) /\ Joined(<< >>) = f[0]
    BY <2>1, JoinedRuns
  <2> QED BY <2>2 DEF JoinedTo
<1> QED BY <1>1, <1>8, <1>9, <1>10, <1>11

\* The states of create_path_nodes between two of its calls.
PathNodes(path) ==
  {s \in [at : 1 .. (Len(path) + 1), parts : Seq(Seq(Nat))] :
     /\ \A k \in 1 .. Len(s.parts) : \A j \in 1 .. Len(s.parts[k]) : s.parts[k][j] /= Slash
     /\ \/ s.at = 1 /\ s.parts = << >>
        \/ /\ s.at >= 2 /\ path[s.at - 1] = Slash
           /\ s.parts /= << >> /\ Joined(s.parts) = SubSeq(path, 1, s.at - 2)
        \/ /\ s.at = Len(path) + 1 /\ path[Len(path)] /= Slash
           /\ s.parts /= << >> /\ Joined(s.parts) = path}

LEMMA PathNodeStep ==
  ASSUME NEW path \in Seq(Nat), NEW s \in PathNodes(path)
  PROVE  /\ create_path_node(path, s) \in PathNodes(path)
         /\ s.at <= Len(path) => create_path_node(path, s).at > s.at
         /\ s.at > Len(path) => create_path_node(path, s) = s
<1>1. s.at \in 1 .. (Len(path) + 1) /\ s.parts \in Seq(Seq(Nat)) /\ Len(path) \in Nat
  BY DEF PathNodes
<1>2. CASE s.at > Len(path)
  BY <1>1, <1>2 DEF create_path_node
<1>3. CASE s.at <= Len(path)
  <2>1. PICK end : end = EndOfPart(path, s.at)
    OBVIOUS
  <2>2. PICK at : at = s.at
    OBVIOUS
  <2>3. /\ at \in 1 .. Len(path)
        /\ end \in at .. (Len(path) + 1) /\ (end = Len(path) + 1 \/ path[end] = Slash)
        /\ \A j \in at .. (end - 1) : path[j] /= Slash
    BY <1>1, <1>3, <2>1, <2>2, EndOfPartFacts
  <2>4. PICK part : part = SubSeq(path, at, end - 1)
    OBVIOUS
  <2>5. part \in Seq(Nat) /\ \A j \in 1 .. Len(part) : part[j] /= Slash
    <3>1. \A j \in at .. (end - 1) : path[j] \in Nat
      BY <2>3
    <3>2. at \in Int /\ end - 1 \in Int
      BY <2>3
    <3>3. /\ part \in Seq(Nat)
          /\ Len(part) = IF at <= end - 1 THEN end - 1 - at + 1 ELSE 0
          /\ \A j \in 1 .. (end - 1 - at + 1) : part[j] = path[at + j - 1]
      BY <2>4, <3>1, <3>2, SubSeqProperties
    <3>4. ASSUME NEW j \in 1 .. Len(part) PROVE part[j] /= Slash
      <4>1. j \in 1 .. (end - 1 - at + 1) /\ at + j - 1 \in at .. (end - 1)
        BY <2>3, <3>3
      <4> QED BY <2>3, <3>3, <4>1
    <3> QED BY <3>3, <3>4
  <2>6. PICK parts : parts = s.parts
    OBVIOUS
  <2>7. PICK more : more = Append(parts, part)
    OBVIOUS
  <2>8. PICK new : new = IF end > Len(path) THEN end ELSE end + 1
    OBVIOUS
  <2>9. create_path_node(path, s) = [at |-> new, parts |-> more]
    BY <1>1, <1>3, <2>1, <2>2, <2>4, <2>6, <2>7, <2>8 DEF create_path_node
  <2>10. /\ more \in Seq(Seq(Nat)) /\ more /= << >> /\ Len(more) = Len(parts) + 1
         /\ Len(parts) \in Nat
         /\ \A k \in 1 .. Len(parts) : more[k] = parts[k]
         /\ more[Len(parts) + 1] = part
    <3>1. PICK W : W = Seq(Nat)
      OBVIOUS
    <3>2. parts \in Seq(W) /\ part \in W
      BY <1>1, <2>5, <2>6, <3>1
    <3>3. /\ more \in Seq(W) /\ more /= << >> /\ Len(more) = Len(parts) + 1
          /\ Len(parts) \in Nat
          /\ \A k \in 1 .. Len(parts) : more[k] = parts[k]
          /\ more[Len(parts) + 1] = part
      BY <2>7, <3>2, AppendProperties
    <3> QED BY <3>1, <3>3
  <2>11. \A k \in 1 .. Len(more) : \A j \in 1 .. Len(more[k]) : more[k][j] /= Slash
    <3>1. \A k \in 1 .. Len(parts) : \A j \in 1 .. Len(parts[k]) : parts[k][j] /= Slash
      BY <2>6 DEF PathNodes
    <3>2. ASSUME NEW k \in 1 .. Len(more) PROVE \A j \in 1 .. Len(more[k]) : more[k][j] /= Slash
      <4>1. CASE k = Len(parts) + 1
        BY <2>5, <2>10, <4>1
      <4>2. CASE k \in 1 .. Len(parts)
        BY <2>10, <3>1, <4>2
      <4> QED BY <2>10, <4>1, <4>2
    <3> QED BY <3>2
  <2>12. Joined(more) = SubSeq(path, 1, end - 1)
    <3>1. Joined(more) = IF parts = << >> THEN part ELSE Joined(parts) \o <<Slash>> \o part
      BY <1>1, <2>5, <2>6, <2>7, JoinedAppend
    <3>2. \/ at = 1 /\ parts = << >>
          \/ /\ at >= 2 /\ path[at - 1] = Slash
             /\ parts /= << >> /\ Joined(parts) = SubSeq(path, 1, at - 2)
      BY <1>1, <2>2, <2>3, <2>6 DEF PathNodes
    <3>3. CASE at = 1 /\ parts = << >>
      BY <2>4, <3>1, <3>3
    <3>4. CASE /\ at >= 2 /\ path[at - 1] = Slash
               /\ parts /= << >> /\ Joined(parts) = SubSeq(path, 1, at - 2)
      <4>1. at \in 2 .. (Len(path) + 1)
        BY <2>3, <3>4
      <4>2. SubSeq(path, 1, at - 2) \o <<Slash>> \o SubSeq(path, at, end - 1)
              = SubSeq(path, 1, end - 1)
        BY <2>3, <3>4, <4>1, JoinPieces
      <4> QED BY <2>4, <3>1, <3>4, <4>2
    <3> QED BY <3>2, <3>3, <3>4
  <2>13. [at |-> new, parts |-> more] \in PathNodes(path)
    <3>1. CASE end > Len(path)
      <4>1. new = Len(path) + 1 /\ end - 1 = Len(path)
        BY <2>3, <2>8, <3>1
      <4>2. Joined(more) = path
        BY <2>12, <4>1, SubSeqFull
      <4>3. Len(path) \in at .. (end - 1)
        BY <1>1, <2>3, <3>1, <4>1
      <4>4. path[Len(path)] /= Slash
        BY <2>3, <4>3
      <4> QED BY <1>1, <2>10, <2>11, <4>1, <4>2, <4>4 DEF PathNodes
    <3>2. CASE ~(end > Len(path))
      <4>1. /\ new = end + 1 /\ new \in 1 .. (Len(path) + 1) /\ new >= 2
            /\ new - 1 = end /\ new - 2 = end - 1 /\ path[end] = Slash
        BY <2>3, <2>8, <3>2
      <4>2. path[new - 1] = Slash /\ Joined(more) = SubSeq(path, 1, new - 2)
        BY <2>12, <4>1
      <4> QED BY <2>10, <2>11, <4>1, <4>2 DEF PathNodes
    <3> QED BY <3>1, <3>2
  <2>14. new > at
    BY <2>3, <2>8
  <2> QED BY <1>1, <1>3, <2>2, <2>9, <2>13, <2>14
<1> QED BY <1>1, <1>2, <1>3

\* create_path_nodes reaches the end of the path: the parts have no slash, and
\* joined again they are the path, or the path without a slash at its end.
LEMMA PartsOfPath ==
  ASSUME NEW path \in Seq(Nat)
  PROVE  /\ create_path_nodes(path) \in Seq(Seq(Nat))
         /\ \A k \in 1 .. Len(create_path_nodes(path)) :
              \A j \in 1 .. Len(create_path_nodes(path)[k]) : create_path_nodes(path)[k][j] /= Slash
         /\ Joined(create_path_nodes(path)) = WithoutEndSlash(path)
<1> DEFINE N == Len(path)
           V == PathNodes(path)
           z == [at |-> 1, parts |-> << >>]
           Loop(g) == g = [k \in 0 .. N |-> IF k = 0 THEN z ELSE create_path_node(path, g[k - 1])]
           m == CHOOSE g : Loop(g)
<1>1. N \in Nat
  OBVIOUS
<1>2. create_path_nodes(path) = m[N].parts
  BY Zenon DEF create_path_nodes
<1>3. z \in V
  BY <1>1 DEF PathNodes
<1>4. \A s \in V : create_path_node(path, s) \in V /\ s.at \in Nat
  <2>1. \A s \in V : create_path_node(path, s) \in V
    BY PathNodeStep
  <2>2. \A s \in V : s.at \in Nat
    BY <1>1 DEF PathNodes
  <2> QED BY <2>1, <2>2
<1> HIDE DEF N, V, z
<1>5. PICK step : step = [k \in 1 .. N |-> [s \in V |-> create_path_node(path, s)]]
  OBVIOUS
<1>6. step \in [1 .. N -> [V -> V]]
  BY <1>4, <1>5
<1>7. PICK g : ValuesOfLoop(N, V, z, step, g)
  BY <1>1, <1>3, <1>6, LoopRuns
<1>8. Loop(g)
  <2>1. ASSUME NEW k \in 1 .. N PROVE g[k] = create_path_node(path, g[k - 1])
    <3>1. g[k - 1] \in V /\ g[k] = step[k][g[k - 1]]
      BY <1>1, <1>7 DEF ValuesOfLoop
    <3> QED BY <1>5, <3>1
  <2>2. \A k \in 0 .. N : g[k] = IF k = 0 THEN z ELSE create_path_node(path, g[k - 1])
    BY <1>1, <1>7, <2>1 DEF ValuesOfLoop
  <2> QED BY <1>7, <2>2 DEF ValuesOfLoop
<1>9. Loop(m)
  <2> HIDE DEF Loop
  <2> QED BY <1>8
<1> HIDE DEF m
<1>10. m[0] = z /\ \A k \in 1 .. N : m[k] = create_path_node(path, m[k - 1])
  <2>1. 0 \in 0 .. N /\ \A k \in 1 .. N : k \in 0 .. N /\ k /= 0
    BY <1>1
  <2>2. \A k \in 0 .. N : m[k] = IF k = 0 THEN z ELSE create_path_node(path, m[k - 1])
    BY <1>9
  <2> QED BY <2>1, <2>2
<1>11. \A k \in 0 .. N : m[k] \in V /\ m[k].at \in Nat /\ (m[k].at > k \/ m[k].at > N)
  <2> DEFINE T == {k \in 0 .. N : m[k] \in V /\ m[k].at \in Nat /\ (m[k].at > k \/ m[k].at > N)}
  <2>1. 0 \in T
    BY <1>1, <1>3, <1>10 DEF z
  <2>2. ASSUME NEW k \in 1 .. N, k - 1 \in T PROVE k \in T
    <3>1. PICK s \in V : s = m[k - 1]
      BY <2>2
    <3>2. k \in 0 .. N /\ m[k] = create_path_node(path, s) /\ (s.at > k - 1 \/ s.at > N)
      BY <1>1, <1>10, <2>2, <3>1
    <3>3. /\ create_path_node(path, s) \in V
          /\ s.at <= N => create_path_node(path, s).at > s.at
          /\ s.at > N => create_path_node(path, s) = s
      BY PathNodeStep DEF V, N
    <3>4. s.at \in Nat /\ create_path_node(path, s).at \in Nat
      BY <1>4, <3>3
    <3>5. m[k].at > k \/ m[k].at > N
      BY <1>1, <3>2, <3>3, <3>4
    <3> QED BY <3>2, <3>3, <3>4, <3>5
  <2> HIDE DEF T
  <2>3. \A k \in 0 .. N : k \in T
    BY <1>1, <2>1, <2>2, LoopInduction
  <2> QED BY <2>3 DEF T
<1>12. PICK s \in PathNodes(path) : s = m[N] /\ s.at > N
  BY <1>1, <1>11 DEF V
<1>13. s.at = Len(path) + 1 /\ s.parts \in Seq(Seq(Nat)) /\ Len(path) \in Nat
  BY <1>12 DEF PathNodes, N
<1>14. Joined(s.parts) = WithoutEndSlash(path)
  <2>1. CASE s.at = 1 /\ s.parts = << >>
    <3>1. path = << >>
      BY <1>13, <2>1, EmptySeq
    <3>2. Joined(<< >>) = << >>
      BY <1>13, JoinedAppend
    <3> QED BY <2>1, <3>1, <3>2 DEF WithoutEndSlash
  <2>2. CASE s.at >= 2 /\ path[s.at - 1] = Slash /\ Joined(s.parts) = SubSeq(path, 1, s.at - 2)
    <3>1. s.at - 2 = Len(path) - 1 /\ s.at - 1 = Len(path) /\ Len(path) /= 0
      BY <1>13, <2>2
    <3>2. path /= << >> /\ path[Len(path)] = Slash
      BY <2>2, <3>1
    <3> QED BY <2>2, <3>1, <3>2 DEF WithoutEndSlash
  <2>3. CASE path[Len(path)] /= Slash /\ Joined(s.parts) = path
    BY <2>3 DEF WithoutEndSlash
  <2> QED BY <1>13, <2>1, <2>2, <2>3 DEF PathNodes
<1>15. \A k \in 1 .. Len(s.parts) : \A j \in 1 .. Len(s.parts[k]) : s.parts[k][j] /= Slash
  BY DEF PathNodes
<1> QED BY <1>2, <1>12, <1>13, <1>14, <1>15

\* The path that system call 7 makes of a name.
LEMMA PathOfName ==
  ASSUME NEW name \in Seq(Nat)
  PROVE  /\ is_valid_path(PathOf(name))
         /\ pathparser_parse(PathOf(name)).drive_no = 0
         /\ pathparser_parse(PathOf(name)).parts = create_path_nodes(name)
<1>1. PICK drive : drive = <<48, Colon, Slash>>
  OBVIOUS
<1>2. /\ drive \in Seq(Nat) /\ Len(drive) = 3
      /\ drive[1] = 48 /\ drive[2] = Colon /\ drive[3] = Slash
  BY <1>1 DEF Colon, Slash
<1>3. PICK path : path = drive \o name
  OBVIOUS
<1>4. /\ path \in Seq(Nat) /\ Len(path) = 3 + Len(name) /\ Len(name) \in Nat
      /\ \A i \in 1 .. (3 + Len(name)) : path[i] = IF i <= 3 THEN drive[i] ELSE name[i - 3]
  <2>1. drive \in Seq(Nat)
    BY <1>2
  <2>2. /\ path \in Seq(Nat) /\ Len(path) = Len(drive) + Len(name)
        /\ \A i \in 1 .. Len(drive) + Len(name) :
             path[i] = IF i <= Len(drive) THEN drive[i] ELSE name[i - Len(drive)]
    BY <1>3, <2>1, ConcatProperties
  <2> QED BY <1>2, <2>2
<1>5. path[1] = 48 /\ path[2] = Colon /\ path[3] = Slash
  <2>1. 1 \in 1 .. (3 + Len(name)) /\ 2 \in 1 .. (3 + Len(name)) /\ 3 \in 1 .. (3 + Len(name))
    BY <1>4
  <2> QED BY <1>2, <1>4, <2>1
<1>6. SubSeq(path, 4, Len(path)) = name
  <2>1. \A i \in 4 .. Len(path) : path[i] \in Nat
    BY <1>4
  <2>2. 4 \in Int /\ Len(path) \in Int
    BY <1>4
  <2>3. PICK s : s = SubSeq(path, 4, Len(path))
    OBVIOUS
  <2>4. /\ s \in Seq(Nat)
        /\ Len(s) = IF 4 <= Len(path) THEN Len(path) - 4 + 1 ELSE 0
        /\ \A i \in 1 .. (Len(path) - 4 + 1) : s[i] = path[4 + i - 1]
    BY <2>1, <2>2, <2>3, SubSeqProperties
  <2>5. Len(s) = Len(name)
    BY <1>4, <2>4
  <2>6. ASSUME NEW i \in 1 .. Len(s) PROVE s[i] = name[i]
    <3>1. i \in 1 .. (Len(path) - 4 + 1) /\ 4 + i - 1 \in 1 .. (3 + Len(name))
          /\ ~(4 + i - 1 <= 3) /\ 4 + i - 1 - 3 = i
      BY <1>4, <2>5
    <3> QED BY <1>4, <2>4, <3>1
  <2>7. s = name
    BY <2>4, <2>5, <2>6, SeqEqual
  <2> QED BY <2>3, <2>7
<1>7. PathOf(name) = path
  BY <1>1, <1>3 DEF PathOf
<1>8. is_valid_path(path)
  BY <1>4, <1>5 DEF is_valid_path, is_digit
<1>9. pathparser_parse(path) = [drive_no |-> 0, parts |-> create_path_nodes(name)]
  <2>1. pathparser_parse(path) =
          [drive_no |-> path[1] - 48, parts |-> create_path_nodes(SubSeq(path, 4, Len(path)))]
    BY DEF pathparser_parse
  <2>2. path[1] - 48 = 0
    BY <1>5
  <2> QED BY <1>6, <2>1, <2>2, Zenon
<1> QED BY <1>7, <1>8, <1>9

\* What PartsJoinToPath says of one name.
LEMMA PathParsesBack ==
  ASSUME NEW name \in Seq(Nat)
  PROVE  LET parts == pathparser_parse(PathOf(name)).parts
         IN  /\ \A k \in DOMAIN parts : \A j \in DOMAIN parts[k] : parts[k][j] /= Slash
             /\ Joined(parts) = WithoutEndSlash(name)
<1>1. PICK parts : parts = pathparser_parse(PathOf(name)).parts
  OBVIOUS
<1>2. /\ parts \in Seq(Seq(Nat))
      /\ \A k \in 1 .. Len(parts) : \A j \in 1 .. Len(parts[k]) : parts[k][j] /= Slash
      /\ Joined(parts) = WithoutEndSlash(name)
  <2>1. parts = create_path_nodes(name)
    BY <1>1, PathOfName
  <2> QED BY <2>1, PartsOfPath
<1>3. ASSUME NEW k \in DOMAIN parts, NEW j \in DOMAIN parts[k] PROVE parts[k][j] /= Slash
  <2>1. k \in 1 .. Len(parts)
    BY <1>2
  <2>2. parts[k] \in Seq(Nat)
    BY <1>2, <2>1
  <2>3. j \in 1 .. Len(parts[k])
    BY <2>2
  <2> QED BY <1>2, <2>1, <2>3
<1> QED BY <1>1, <1>2, <1>3
-----------------------------------------------------------------------------
(* strtok. *)

\* The test that ends a token, at position k of one that starts at p.
EndsAt(s, p, k) == EndsToken(s.mem[k], Single(s, p, k) \/ Double(s, p, k))

\* From a place on, a token is found at p and ends at end; what it leaves.
SkipsTo(s, from, p) ==
  p \in from .. LineSize /\ s.mem[p] /= Blank /\ \A j \in from .. (p - 1) : s.mem[j] = Blank

TokenFound(s, from, p, end) ==
  /\ SkipsTo(s, from, p) /\ s.mem[p] /= NUL
  /\ end \in (p + 1) .. LineSize
  /\ EndsAt(s, p, end)
  /\ \A j \in p .. (end - 1) : ~EndsAt(s, p, j)

AfterToken(s, p, end) ==
  [mem |-> [s.mem EXCEPT ![end] = NUL],
   sp |-> IF s.mem[end] = NUL THEN end ELSE end + 1,
   single |-> Single(s, p, end), double |-> Double(s, p, end)]

LEMMA TokenizerFacts ==
  ASSUME NEW s \in Tokenizers
  PROVE  /\ LineSize \in Nat \ {0, 1}
         /\ s.mem \in [0 .. LineSize -> Nat] /\ s.mem[LineSize] = NUL
         /\ s.sp \in {NoPtr} \cup 0 .. LineSize
         /\ s.single \in BOOLEAN /\ s.double \in BOOLEAN
  BY CommandLineAssumption DEF Tokenizers

LEMMA StartOfTokenFacts ==
  ASSUME NEW s \in Tokenizers, NEW from \in 0 .. LineSize
  PROVE  SkipsTo(s, from, StartOfToken(s.mem, from))
<1> DEFINE S == {k \in 0 .. LineSize : s.mem[k] /= Blank}
           P(k) == s.mem[k] /= Blank /\ \A j \in from .. (k - 1) : s.mem[j] = Blank
<1>1. /\ LineSize \in Nat /\ from \in Nat /\ LineSize \in from .. LineSize /\ LineSize \in S
  BY TokenizerFacts DEF NUL, Blank
<1>2. PICK k \in from .. LineSize : k \in S /\ \A j \in from .. (k - 1) : j \notin S
  <2> HIDE DEF S
  <2> QED BY <1>1, FirstInInterval
<1>3. k \in from .. LineSize /\ P(k)
  <2>1. ASSUME NEW j \in from .. (k - 1) PROVE s.mem[j] = Blank
    <3>1. j \in 0 .. LineSize /\ j \notin S
      BY <1>1, <1>2
    <3> QED BY <3>1
  <2> QED BY <1>2, <2>1
<1>4. StartOfToken(s.mem, from) = CHOOSE x \in from .. LineSize : P(x)
  BY DEF StartOfToken
<1>5. StartOfToken(s.mem, from) \in from .. LineSize /\ P(StartOfToken(s.mem, from))
  <2> HIDE DEF P
  <2> QED BY <1>3, <1>4
<1> QED BY <1>5 DEF SkipsTo

LEMMA EndOfTokenFacts ==
  ASSUME NEW s \in Tokenizers, NEW from \in 0 .. LineSize, NEW p, SkipsTo(s, from, p),
         s.mem[p] /= NUL
  PROVE  TokenFound(s, from, p, EndOfToken(s, p))
<1> DEFINE S == {k \in 0 .. LineSize : EndsAt(s, p, k)}
           P(k) == EndsAt(s, p, k) /\ \A j \in p .. (k - 1) : ~EndsAt(s, p, j)
<1>1. LineSize \in Nat /\ p \in 0 .. LineSize /\ p \in Nat /\ s.mem[LineSize] = NUL
  BY TokenizerFacts DEF SkipsTo
<1>2. LineSize \in p .. LineSize /\ LineSize \in S
  BY <1>1 DEF EndsAt, EndsToken
<1>3. PICK k \in p .. LineSize : k \in S /\ \A j \in p .. (k - 1) : j \notin S
  <2> HIDE DEF S
  <2> QED BY <1>1, <1>2, FirstInInterval
<1>4. k \in p .. LineSize /\ P(k)
  <2>1. ASSUME NEW j \in p .. (k - 1) PROVE ~EndsAt(s, p, j)
    <3>1. j \in 0 .. LineSize /\ j \notin S
      BY <1>1, <1>3
    <3> QED BY <3>1
  <2> QED BY <1>3, <2>1
<1>5. EndOfToken(s, p) = CHOOSE x \in p .. LineSize : P(x)
  BY Zenon DEF EndOfToken, EndsAt
<1>6. PICK end : end = EndOfToken(s, p)
  OBVIOUS
<1>7. end \in p .. LineSize /\ P(end)
  <2> HIDE DEF P
  <2> QED BY <1>4, <1>5, <1>6
<1>8. ~EndsAt(s, p, p)
  BY DEF EndsAt, EndsToken, SkipsTo
<1>9. end \in (p + 1) .. LineSize
  <2>1. end /= p
    BY <1>7, <1>8
  <2> QED BY <1>1, <1>7, <2>1
<1> QED BY <1>6, <1>7, <1>9 DEF TokenFound

\* What a call of strtok does.
LEMMA StrtokCases ==
  ASSUME NEW s \in Tokenizers, NEW str \in {NoPtr} \cup 0 .. LineSize,
         NEW from, from = IF s.sp = NoPtr THEN str ELSE s.sp
  PROVE  \/ from = NoPtr /\ s.sp = NoPtr /\ strtok(s, str) = [state |-> s, token |-> NoPtr]
         \/ /\ from \in 0 .. LineSize
            /\ \E p : /\ SkipsTo(s, from, p) /\ s.mem[p] = NUL
                      /\ strtok(s, str) = [state |-> Exhausted(s), token |-> NoPtr]
         \/ /\ from \in 0 .. LineSize
            /\ \E p, end : /\ TokenFound(s, from, p, end)
                           /\ strtok(s, str) = [state |-> AfterToken(s, p, end), token |-> p]
<1>1. s.sp \in {NoPtr} \cup 0 .. LineSize
  BY TokenizerFacts
<1>2. PICK p : p = StartOfToken(s.mem, from)
  OBVIOUS
<1>3. PICK end : end = EndOfToken(s, p)
  OBVIOUS
<1>4. strtok(s, str) = IF from = NoPtr THEN [state |-> s, token |-> NoPtr]
                       ELSE IF s.mem[p] = NUL THEN [state |-> Exhausted(s), token |-> NoPtr]
                       ELSE [state |-> AfterToken(s, p, end), token |-> p]
  BY <1>2, <1>3, Zenon DEF strtok, AfterToken
<1>5. CASE from = NoPtr
  <2>1. s.sp = NoPtr
    BY <1>5
  <2>2. strtok(s, str) = [state |-> s, token |-> NoPtr]
    BY <1>4, <1>5
  <2> QED BY <1>5, <2>1, <2>2
<1>6. CASE from /= NoPtr
  <2>1. from \in 0 .. LineSize
    BY <1>1, <1>6
  <2>2. SkipsTo(s, from, p)
    BY <1>2, <2>1, StartOfTokenFacts
  <2>3. CASE s.mem[p] = NUL
    BY <1>4, <1>6, <2>1, <2>2, <2>3
  <2>4. CASE s.mem[p] /= NUL
    <3>1. TokenFound(s, from, p, end)
      BY <1>3, <2>1, <2>2, <2>4, EndOfTokenFacts
    <3> QED BY <1>4, <1>6, <2>1, <2>4, <3>1
  <2> QED BY <2>3, <2>4
<1> QED BY <1>5, <1>6

\* A token leaves the tokenizer a place in its buffer to go on at.
LEMMA TokenType ==
  ASSUME NEW s \in Tokenizers, NEW from \in 0 .. LineSize, NEW p, NEW end,
         TokenFound(s, from, p, end)
  PROVE  /\ AfterToken(s, p, end) \in Tokenizers
         /\ AfterToken(s, p, end).sp \in 0 .. LineSize
         /\ p \in 0 .. LineSize
         /\ StringAt(AfterToken(s, p, end).mem, p) \in Seq(Nat)
<1>1. /\ LineSize \in Nat \ {0, 1}
      /\ s.mem \in [0 .. LineSize -> Nat] /\ s.mem[LineSize] = NUL
      /\ s.single \in BOOLEAN /\ s.double \in BOOLEAN
  BY TokenizerFacts
<1>2. p \in 0 .. LineSize /\ p \in Nat /\ end \in 0 .. LineSize /\ end \in Int /\ p <= end + 1
  BY <1>1 DEF TokenFound, SkipsTo
<1>3. Single(s, p, end) \in BOOLEAN /\ Double(s, p, end) \in BOOLEAN
  BY <1>1, <1>2, QuoteStep DEF Single, Double
<1>4. PICK mem : mem = [s.mem EXCEPT ![end] = NUL]
  OBVIOUS
<1>5. mem \in [0 .. LineSize -> Nat] /\ mem[LineSize] = NUL
  BY <1>1, <1>2, <1>4 DEF NUL
<1>6. PICK sp : sp = IF s.mem[end] = NUL THEN end ELSE end + 1
  OBVIOUS
<1>7. sp \in 0 .. LineSize
  <2>1. s.mem[end] /= NUL => end /= LineSize
    BY <1>1
  <2> QED BY <1>1, <1>2, <1>6, <2>1
<1>8. AfterToken(s, p, end) =
        [mem |-> mem, sp |-> sp, single |-> Single(s, p, end), double |-> Double(s, p, end)]
  BY <1>4, <1>6 DEF AfterToken
<1>9. AfterToken(s, p, end) \in Tokenizers
  <2>1. PICK x \in BOOLEAN, y \in BOOLEAN : x = Single(s, p, end) /\ y = Double(s, p, end)
    BY <1>3
  <2>2. [mem |-> mem, sp |-> sp, single |-> x, double |-> y] \in Tokenizers
    BY <1>5, <1>7 DEF Tokenizers
  <2> QED BY <1>8, <2>1, <2>2
<1>10. StringAt(mem, p) \in Seq(Nat)
  <2>1. LineSize \in 0 .. LineSize
    BY <1>1
  <2> QED BY <1>2, <1>5, <2>1, StringIsSeq
<1> QED BY <1>2, <1>7, <1>8, <1>9, <1>10

LEMMA ExhaustedType ==
  ASSUME NEW s \in Tokenizers
  PROVE  Exhausted(s) \in Tokenizers /\ Exhausted(s).sp = NoPtr
  BY DEF Exhausted, Tokenizers
-----------------------------------------------------------------------------
(* The tokens of a line. *)

LEMMA OpenIsQuoteAfter ==
  ASSUME NEW str, NEW c, NEW q, NEW k
  PROVE  Open(str, c, q, k) = QuoteAfter(str, c, q, 1, k)
  BY Zenon DEF Open, QuoteAfter

LEMMA OpenStep ==
  ASSUME NEW str, NEW c \in BOOLEAN, NEW q, NEW k \in Nat
  PROVE  /\ Open(str, c, q, k) \in BOOLEAN
         /\ Open(str, c, q, k + 1) = (Open(str, c, q, k) /= (str[k + 1] = q))
         /\ Open(str, c, q, 0) = c
<1>1. k \in Int /\ 1 \in Nat /\ 1 <= k + 1 /\ 1 - 1 = 0
  OBVIOUS
<1>2. /\ QuoteAfter(str, c, q, 1, k) \in BOOLEAN
      /\ QuoteAfter(str, c, q, 1, k + 1) = (QuoteAfter(str, c, q, 1, k) /= (str[k + 1] = q))
  BY <1>1, QuoteStep
<1>3. QuoteAfter(str, c, q, 1, 1 - 1) = c
  BY <1>1, QuoteAtStart
<1> QED BY <1>1, <1>2, <1>3, OpenIsQuoteAfter

\* From m on a buffer holds a line, and its first characters there are blanks up to p.
HoldsFrom(str, m, p, mem) ==
  /\ str \in Seq(Nat) /\ m \in 0 .. Len(str) /\ p \in m .. (Len(str) - 1)
  /\ \A k \in m .. (Len(str) - 1) : mem[k] = str[k + 1]
  /\ mem[Len(str)] = NUL
  /\ \A k \in m .. (p - 1) : mem[k] = Blank

\* The quotes strtok counts from p on are those of the line.
QuotesAgree(str, c, q, m, p, mem) ==
  LET o == Open(str, c, q, m)
  IN  /\ \A k \in m .. p : Open(str, c, q, k) = o
      /\ \A k \in p .. (Len(str) - 1) : QuoteAfter(mem, o, q, p, k) = Open(str, c, q, k + 1)
      /\ QuoteAfter(mem, o, q, p, Len(str)) = Open(str, c, q, Len(str))

\* They are when it has counted those of the first m characters, as the blanks up
\* to p are none.
LEMMA QuotesOfLine ==
  ASSUME NEW str, NEW c \in BOOLEAN, NEW q \in Nat \ {NUL, Blank}, NEW m, NEW p, NEW mem,
         HoldsFrom(str, m, p, mem)
  PROVE  QuotesAgree(str, c, q, m, p, mem)
<1>o. PICK o : o = Open(str, c, q, m)
  OBVIOUS
<1>h. /\ str \in Seq(Nat) /\ m \in 0 .. Len(str) /\ p \in m .. (Len(str) - 1)
      /\ \A k \in m .. (Len(str) - 1) : mem[k] = str[k + 1]
      /\ mem[Len(str)] = NUL
      /\ \A k \in m .. (p - 1) : mem[k] = Blank
  BY DEF HoldsFrom
<1>1. PICK L \in Nat : L = Len(str)
  BY <1>h
<1>2. m \in Nat /\ p \in Nat /\ m <= p /\ p < L /\ 1 \in Nat
  BY <1>1, <1>h
<1>3. ASSUME NEW k \in Nat
      PROVE  /\ Open(str, c, q, k) \in BOOLEAN
             /\ Open(str, c, q, k + 1) = (Open(str, c, q, k) /= (str[k + 1] = q))
  BY OpenStep
<1>4. o \in BOOLEAN
  BY <1>o, <1>2, <1>3
<1>5. \A k \in m .. p : Open(str, c, q, k) = o
  <2> DEFINE T == {d \in Nat : Open(str, c, q, m + d) = o}
             N == p - m
  <2>1. N \in Nat /\ 0 \in T
    BY <1>o, <1>2
  <2>2. ASSUME NEW d \in 1 .. N, d - 1 \in T PROVE d \in T
    <3>1. PICK k \in Nat : k = m + (d - 1)
      BY <1>2
    <3>2. k \in m .. (p - 1) /\ k \in m .. (Len(str) - 1) /\ k + 1 = m + d /\ d \in Nat
      BY <1>1, <1>2, <3>1
    <3>3. str[k + 1] = Blank /\ q /= Blank
      BY <1>h, <3>2
    <3>4. Open(str, c, q, k) = o
      BY <2>2, <3>1
    <3>5. Open(str, c, q, k + 1) = o
      BY <1>3, <1>4, <3>3, <3>4
    <3> QED BY <3>2, <3>5
  <2> HIDE DEF T, N
  <2>3. \A d \in 0 .. N : d \in T
    BY <2>1, <2>2, LoopInduction
  <2>4. ASSUME NEW k \in m .. p PROVE Open(str, c, q, k) = o
    <3>1. k - m \in 0 .. N /\ m + (k - m) = k
      BY <1>2 DEF N
    <3>2. Open(str, c, q, m + (k - m)) = o
      BY <2>3, <3>1 DEF T
    <3> QED BY <3>1, <3>2
  <2> QED BY <2>4
<1>6. ASSUME NEW k \in p .. (L - 1) PROVE mem[k] = str[k + 1]
  BY <1>h, <1>1, <1>2
<1>7. ASSUME NEW k \in Int, p <= k + 1
      PROVE  QuoteAfter(mem, o, q, p, k + 1) = (QuoteAfter(mem, o, q, p, k) /= (mem[k + 1] = q))
             /\ QuoteAfter(mem, o, q, p, k) \in BOOLEAN
  BY <1>2, <1>4, <1>7, QuoteStep
<1>8. QuoteAfter(mem, o, q, p, p) = Open(str, c, q, p + 1)
  <2>1. QuoteAfter(mem, o, q, p, p - 1) = o
    BY <1>2, <1>4, QuoteAtStart
  <2>2. p - 1 \in Int /\ p <= p - 1 + 1 /\ p - 1 + 1 = p /\ p \in p .. (L - 1) /\ p \in m .. p
    BY <1>2
  <2>3. QuoteAfter(mem, o, q, p, p - 1 + 1) = (QuoteAfter(mem, o, q, p, p - 1) /= (mem[p - 1 + 1] = q))
    BY <1>7, <2>2
  <2>4. QuoteAfter(mem, o, q, p, p) = (o /= (mem[p] = q))
    BY <2>1, <2>2, <2>3
  <2>5. Open(str, c, q, p + 1) = (o /= (str[p + 1] = q))
    BY <1>2, <1>3, <1>5, <2>2
  <2> QED BY <1>6, <2>2, <2>4, <2>5
<1>9. \A k \in p .. (L - 1) : QuoteAfter(mem, o, q, p, k) = Open(str, c, q, k + 1)
  <2> DEFINE T == {d \in Nat : QuoteAfter(mem, o, q, p, p + d) = Open(str, c, q, p + d + 1)}
             N == L - 1 - p
  <2>1. N \in Nat /\ 0 \in T
    <3>1. N \in Nat /\ p + 0 = p /\ p + 0 + 1 = p + 1
      BY <1>2
    <3> QED BY <1>8, <3>1
  <2>2. ASSUME NEW d \in 1 .. N, d - 1 \in T PROVE d \in T
    <3>1. PICK k \in Nat : k = p + (d - 1)
      BY <1>2
    <3>2. /\ k \in Int /\ p <= k + 1 /\ k + 1 \in p .. (L - 1) /\ k + 1 = p + d /\ d \in Nat
          /\ k + 1 \in Nat /\ k + 1 + 1 = p + d + 1
      BY <1>2, <3>1
    <3>3. QuoteAfter(mem, o, q, p, k) = Open(str, c, q, k + 1)
      BY <2>2, <3>1
    <3>4. QuoteAfter(mem, o, q, p, k + 1) = (QuoteAfter(mem, o, q, p, k) /= (mem[k + 1] = q))
      BY <1>7, <3>2
    <3>5. Open(str, c, q, k + 1 + 1) = (Open(str, c, q, k + 1) /= (str[k + 1 + 1] = q))
      BY <1>3, <3>2
    <3>6. mem[k + 1] = str[k + 1 + 1]
      BY <1>6, <3>2
    <3>7. QuoteAfter(mem, o, q, p, k + 1) = Open(str, c, q, k + 1 + 1)
      BY <3>3, <3>4, <3>5, <3>6
    <3> QED BY <3>2, <3>7
  <2> HIDE DEF T, N
  <2>3. \A d \in 0 .. N : d \in T
    BY <2>1, <2>2, LoopInduction
  <2>4. ASSUME NEW k \in p .. (L - 1)
        PROVE  QuoteAfter(mem, o, q, p, k) = Open(str, c, q, k + 1)
    <3>1. k - p \in 0 .. N /\ p + (k - p) = k /\ p + (k - p) + 1 = k + 1
      BY <1>2 DEF N
    <3>2. QuoteAfter(mem, o, q, p, p + (k - p)) = Open(str, c, q, p + (k - p) + 1)
      BY <2>3, <3>1 DEF T
    <3> QED BY <3>1, <3>2
  <2> QED BY <2>4
<1>10. QuoteAfter(mem, o, q, p, L) = Open(str, c, q, L)
  <2>1. L - 1 \in Int /\ p <= L - 1 + 1 /\ L - 1 + 1 = L /\ L - 1 \in p .. (L - 1)
    BY <1>2
  <2>2. /\ QuoteAfter(mem, o, q, p, L - 1 + 1) = (QuoteAfter(mem, o, q, p, L - 1) /= (mem[L - 1 + 1] = q))
        /\ QuoteAfter(mem, o, q, p, L - 1) \in BOOLEAN
    BY <1>7, <2>1
  <2>3. mem[L] /= q
    BY <1>h, <1>1
  <2>4. QuoteAfter(mem, o, q, p, L) = QuoteAfter(mem, o, q, p, L - 1)
    BY <2>1, <2>2, <2>3
  <2>5. QuoteAfter(mem, o, q, p, L - 1) = Open(str, c, q, L - 1 + 1)
    BY <1>9, <2>1
  <2> QED BY <2>1, <2>4, <2>5
<1> QED BY <1>o, <1>1, <1>5, <1>9, <1>10 DEF QuotesAgree

\* A line without a terminator in it that fits the buffer, and a tokenizer that has
\* read its first m characters.
Reading(str, a, b, m, s) ==
  /\ str \in Seq(Nat) /\ Len(str) < LineSize
  /\ \A k \in 1 .. Len(str) : str[k] /= NUL
  /\ a \in BOOLEAN /\ b \in BOOLEAN
  /\ s \in Tokenizers
  /\ ReadTo(str, a, b, m, s)

\* The tests of strtok are the cuts of the line.
LEMMA EndsAreCuts ==
  ASSUME NEW str, NEW a, NEW b, NEW m, NEW s, Reading(str, a, b, m, s),
         NEW p \in m .. (Len(str) - 1), \A k \in m .. (p - 1) : s.mem[k] = Blank
  PROVE  /\ \A k \in p .. (Len(str) - 1) : EndsAt(s, p, k) <=> Cut(str, a, b, k + 1)
         /\ EndsAt(s, p, Len(str))
         /\ \A k \in p .. (Len(str) - 1) : /\ Single(s, p, k) = Open(str, a, SingleQuote, k + 1)
                                           /\ Double(s, p, k) = Open(str, b, DoubleQuote, k + 1)
         /\ Single(s, p, Len(str)) = Open(str, a, SingleQuote, Len(str))
         /\ Double(s, p, Len(str)) = Open(str, b, DoubleQuote, Len(str))
         /\ \A k \in m .. p : /\ Open(str, a, SingleQuote, k) = Open(str, a, SingleQuote, m)
                              /\ Open(str, b, DoubleQuote, k) = Open(str, b, DoubleQuote, m)
<1>1. /\ str \in Seq(Nat) /\ a \in BOOLEAN /\ b \in BOOLEAN /\ m \in 0 .. Len(str)
      /\ \A k \in m .. (Len(str) - 1) : s.mem[k] = str[k + 1]
      /\ s.mem[Len(str)] = NUL
      /\ s.single = Open(str, a, SingleQuote, m) /\ s.double = Open(str, b, DoubleQuote, m)
  BY DEF Reading, ReadTo
<1>2. PICK mem : mem = s.mem
  OBVIOUS
<1>3. HoldsFrom(str, m, p, mem)
  BY <1>1, <1>2 DEF HoldsFrom
<1>4. SingleQuote \in Nat \ {NUL, Blank} /\ DoubleQuote \in Nat \ {NUL, Blank}
  BY DEF SingleQuote, DoubleQuote, NUL, Blank
<1>5. PICK o, u : o = Open(str, a, SingleQuote, m) /\ u = Open(str, b, DoubleQuote, m)
  OBVIOUS
<1>6. /\ \A k \in m .. p : Open(str, a, SingleQuote, k) = o
      /\ \A k \in p .. (Len(str) - 1) :
           QuoteAfter(mem, o, SingleQuote, p, k) = Open(str, a, SingleQuote, k + 1)
      /\ QuoteAfter(mem, o, SingleQuote, p, Len(str)) = Open(str, a, SingleQuote, Len(str))
  <2>1. QuotesAgree(str, a, SingleQuote, m, p, mem)
    BY <1>1, <1>3, <1>4, QuotesOfLine
  <2> QED BY <1>5, <2>1 DEF QuotesAgree
<1>7. /\ \A k \in m .. p : Open(str, b, DoubleQuote, k) = u
      /\ \A k \in p .. (Len(str) - 1) :
           QuoteAfter(mem, u, DoubleQuote, p, k) = Open(str, b, DoubleQuote, k + 1)
      /\ QuoteAfter(mem, u, DoubleQuote, p, Len(str)) = Open(str, b, DoubleQuote, Len(str))
  <2>1. QuotesAgree(str, b, DoubleQuote, m, p, mem)
    BY <1>1, <1>3, <1>4, QuotesOfLine
  <2> QED BY <1>5, <2>1 DEF QuotesAgree
<1>8. \A k : /\ Single(s, p, k) = QuoteAfter(mem, o, SingleQuote, p, k)
             /\ Double(s, p, k) = QuoteAfter(mem, u, DoubleQuote, p, k)
  BY <1>1, <1>2, <1>5, Zenon DEF Single, Double
<1>9. ASSUME NEW k \in p .. (Len(str) - 1) PROVE EndsAt(s, p, k) <=> Cut(str, a, b, k + 1)
  <2>1. s.mem[k] = str[k + 1] /\ k + 1 \in 1 .. Len(str)
    BY <1>1
  <2>2. s.mem[k] /= NUL
    BY <2>1 DEF Reading
  <2>3. /\ Single(s, p, k) = Open(str, a, SingleQuote, k + 1)
        /\ Double(s, p, k) = Open(str, b, DoubleQuote, k + 1)
    BY <1>6, <1>7, <1>8
  <2> QED BY <2>1, <2>2, <2>3, Zenon DEF EndsAt, EndsToken, Cut
<1>10. EndsAt(s, p, Len(str))
  BY <1>1 DEF EndsAt, EndsToken
<1>11. /\ Single(s, p, Len(str)) = Open(str, a, SingleQuote, Len(str))
       /\ Double(s, p, Len(str)) = Open(str, b, DoubleQuote, Len(str))
       /\ \A k \in p .. (Len(str) - 1) : /\ Single(s, p, k) = Open(str, a, SingleQuote, k + 1)
                                         /\ Double(s, p, k) = Open(str, b, DoubleQuote, k + 1)
  BY <1>6, <1>7, <1>8
<1>12. \A k \in m .. p : /\ Open(str, a, SingleQuote, k) = Open(str, a, SingleQuote, m)
                         /\ Open(str, b, DoubleQuote, k) = Open(str, b, DoubleQuote, m)
  BY <1>5, <1>6, <1>7
<1> QED BY <1>9, <1>10, <1>11, <1>12

\* Where strtok finds a token, an argument starts, and where its end is.
LEMMA TokenOfLine ==
  ASSUME NEW str, NEW a, NEW b, NEW m, NEW s, Reading(str, a, b, m, s),
         NEW p, NEW end, TokenFound(s, m, p, end)
  PROVE  /\ p \in m .. (Len(str) - 1) /\ end \in (p + 1) .. Len(str)
         /\ \A k \in m .. (p - 1) : s.mem[k] = Blank
         /\ \A k \in (m + 1) .. p : str[k] = Blank
         /\ str[p + 1] /= Blank
         /\ p + 1 \in Starts(str, Cuts(str, a, b))
         /\ end < Len(str) => Cut(str, a, b, end + 1)
         /\ \A k \in (p + 1) .. end : ~Cut(str, a, b, k)
<1>1. PICK L \in Nat : L = Len(str)
  BY DEF Reading
<1>2. /\ LineSize \in Nat /\ L < LineSize /\ m \in 0 .. L
      /\ \A k \in m .. (L - 1) : s.mem[k] = str[k + 1]
      /\ s.mem[L] = NUL
      /\ m = 0 \/ m = L \/ Cut(str, a, b, m)
  BY <1>1, CommandLineAssumption DEF Reading, ReadTo
<1>3. /\ p \in m .. LineSize /\ s.mem[p] /= Blank /\ s.mem[p] /= NUL
      /\ \A j \in m .. (p - 1) : s.mem[j] = Blank
      /\ end \in (p + 1) .. LineSize /\ EndsAt(s, p, end)
      /\ \A j \in p .. (end - 1) : ~EndsAt(s, p, j)
  BY DEF TokenFound, SkipsTo
<1>4. p \in m .. (L - 1)
  <2>1. p /= L
    BY <1>2, <1>3
  <2>2. ~(p > L)
    <3>1. L \in m .. (p - 1) => s.mem[L] = Blank
      BY <1>3
    <3> QED BY <1>2, <1>3, <3>1 DEF Blank, NUL
  <2> QED BY <1>2, <1>3, <2>1, <2>2
<1>5. /\ \A k \in p .. (L - 1) : EndsAt(s, p, k) <=> Cut(str, a, b, k + 1)
      /\ EndsAt(s, p, L)
      /\ \A k \in m .. p : /\ Open(str, a, SingleQuote, k) = Open(str, a, SingleQuote, m)
                           /\ Open(str, b, DoubleQuote, k) = Open(str, b, DoubleQuote, m)
  BY <1>1, <1>3, <1>4, EndsAreCuts
<1>6. end \in (p + 1) .. L
  <2>1. ~(end > L)
    <3>1. L \in p .. (end - 1) => ~EndsAt(s, p, L)
      BY <1>3
    <3> QED BY <1>2, <1>3, <1>4, <1>5, <3>1
  <2> QED BY <1>2, <1>3, <1>4, <2>1
<1>7. ASSUME NEW k \in (m + 1) .. p PROVE str[k] = Blank
  <2>1. k - 1 \in m .. (p - 1) /\ k - 1 \in m .. (L - 1) /\ k - 1 + 1 = k
    BY <1>2, <1>4
  <2>2. s.mem[k - 1] = Blank /\ s.mem[k - 1] = str[k - 1 + 1]
    BY <1>2, <1>3, <2>1
  <2> QED BY <2>1, <2>2
<1>8. str[p + 1] /= Blank
  BY <1>2, <1>3, <1>4
<1>9. p + 1 \in Starts(str, Cuts(str, a, b))
  <2>1. PICK k : k = p + 1
    OBVIOUS
  <2>2. k \in 1 .. Len(str) /\ k - 1 = p /\ str[k] /= Blank
    BY <1>1, <1>2, <1>4, <1>8, <2>1
  <2>3. m \in Cuts(str, a, b) \cup {0}
    BY <1>1, <1>2, <1>4 DEF Cuts
  <2>4. m < k /\ \A j \in (m + 1) .. (k - 1) : str[j] = Blank
    BY <1>2, <1>4, <1>7, <2>2
  <2> QED BY <2>1, <2>2, <2>3, <2>4 DEF Starts
<1>10. end < L => Cut(str, a, b, end + 1)
  <2> SUFFICES ASSUME end < L PROVE Cut(str, a, b, end + 1)
    OBVIOUS
  <2>1. end \in p .. (L - 1)
    BY <1>4, <1>6
  <2> QED BY <1>3, <1>5, <2>1
<1>11. ASSUME NEW k \in (p + 1) .. end PROVE ~Cut(str, a, b, k)
  <2>1. PICK j : j = k - 1
    OBVIOUS
  <2>2. j \in p .. (end - 1) /\ j \in p .. (L - 1) /\ j + 1 = k
    BY <1>2, <1>4, <1>6, <2>1
  <2>3. ~EndsAt(s, p, j) /\ (EndsAt(s, p, j) <=> Cut(str, a, b, j + 1))
    BY <1>3, <1>5, <2>2
  <2> QED BY <2>2, <2>3
<1> QED BY <1>1, <1>3, <1>4, <1>6, <1>7, <1>8, <1>9, <1>10, <1>11

\* The buffer and the quotes after a token.
LEMMA ReadToNext ==
  ASSUME NEW str, NEW a, NEW b, NEW m, NEW s, Reading(str, a, b, m, s),
         NEW p, NEW end, TokenFound(s, m, p, end), NEW n, n = AfterToken(s, p, end).sp
  PROVE  /\ n = IF end < Len(str) THEN end + 1 ELSE Len(str)
         /\ ReadTo(str, a, b, n, AfterToken(s, p, end))
<1>1. PICK L \in Nat : L = Len(str)
  BY DEF Reading
<1>2. /\ p \in m .. (L - 1) /\ end \in (p + 1) .. L
      /\ \A k \in m .. (p - 1) : s.mem[k] = Blank
      /\ end < L => Cut(str, a, b, end + 1)
  BY <1>1, TokenOfLine
<1>3. /\ LineSize \in Nat /\ L < LineSize /\ m \in 0 .. L
      /\ \A k \in m .. (L - 1) : s.mem[k] = str[k + 1]
      /\ s.mem[L] = NUL
      /\ \A k \in 1 .. L : str[k] /= NUL
      /\ s.mem \in [0 .. LineSize -> Nat]
  BY <1>1, TokenizerFacts DEF Reading, ReadTo
<1>4. /\ \A k \in p .. (L - 1) : /\ Single(s, p, k) = Open(str, a, SingleQuote, k + 1)
                                 /\ Double(s, p, k) = Open(str, b, DoubleQuote, k + 1)
      /\ Single(s, p, L) = Open(str, a, SingleQuote, L)
      /\ Double(s, p, L) = Open(str, b, DoubleQuote, L)
  BY <1>1, <1>2, EndsAreCuts
<1>5. PICK mem : mem = [s.mem EXCEPT ![end] = NUL]
  OBVIOUS
<1>6. /\ AfterToken(s, p, end).mem = mem
      /\ n = IF s.mem[end] = NUL THEN end ELSE end + 1
      /\ AfterToken(s, p, end).single = Single(s, p, end)
      /\ AfterToken(s, p, end).double = Double(s, p, end)
  BY <1>5 DEF AfterToken
<1>7. /\ L \in Int /\ LineSize \in Int /\ m \in Int /\ 0 <= m /\ L < LineSize
      /\ p \in Int /\ m <= p /\ p <= L - 1 /\ end \in Int /\ p + 1 <= end /\ end <= L
  <2>1. L \in Int /\ LineSize \in Int /\ L < LineSize
    BY <1>3
  <2>2. m \in Int /\ 0 <= m
    BY <1>3, <2>1
  <2>3. p \in Int /\ m <= p /\ p <= L - 1
    BY <1>2, <2>1, <2>2
  <2>4. end \in Int /\ p + 1 <= end /\ end <= L
    BY <1>2, <2>1, <2>3
  <2> QED BY <2>1, <2>2, <2>3, <2>4
<1>8. n = IF end < L THEN end + 1 ELSE L
  <2>1. CASE end < L
    <3>1. end \in m .. (L - 1) /\ end + 1 \in 1 .. L
      BY <1>7, <2>1
    <3>2. s.mem[end] = str[end + 1] /\ str[end + 1] /= NUL
      BY <1>3, <3>1
    <3> QED BY <1>6, <2>1, <3>2
  <2>2. CASE ~(end < L)
    <3>1. end = L
      BY <1>7, <2>2
    <3> QED BY <1>3, <1>6, <2>2, <3>1
  <2> QED BY <2>1, <2>2
<1>9. ASSUME NEW k \in n .. (L - 1) PROVE mem[k] = str[k + 1]
  <2>1. k \in 0 .. LineSize /\ k /= end /\ k \in m .. (L - 1)
    <3>1. k \in Int /\ n <= k /\ k <= L - 1 /\ end < k
      <4>1. CASE end < L
        <5>1. n = end + 1
          BY <1>8, <4>1
        <5> QED BY <1>7, <1>9, <5>1
      <4>2. CASE ~(end < L)
        <5>1. n = L
          BY <1>8, <4>2
        <5> QED BY <1>7, <1>9, <5>1
      <4> QED BY <4>1, <4>2
    <3> QED BY <1>7, <3>1
  <2>2. mem[k] = s.mem[k]
    BY <1>3, <1>5, <2>1
  <2> QED BY <1>3, <2>1, <2>2
<1>10. mem[L] = NUL
  <2>1. L \in 0 .. LineSize
    BY <1>7
  <2> QED BY <1>3, <1>5, <2>1
<1>11. n \in 0 .. L /\ (n = L \/ Cut(str, a, b, n))
  <2>1. CASE end < L
    <3>1. n = end + 1 /\ Cut(str, a, b, n)
      BY <1>2, <1>8, <2>1
    <3> QED BY <1>7, <2>1, <3>1
  <2>2. CASE ~(end < L)
    BY <1>7, <1>8, <2>2
  <2> QED BY <2>1, <2>2
<1>12. /\ Single(s, p, end) = Open(str, a, SingleQuote, n)
       /\ Double(s, p, end) = Open(str, b, DoubleQuote, n)
  <2>1. CASE end < L
    <3>1. end \in p .. (L - 1) /\ n = end + 1
      BY <1>7, <1>8, <2>1
    <3> QED BY <1>4, <3>1
  <2>2. CASE ~(end < L)
    <3>1. end = L /\ n = L
      BY <1>7, <1>8, <2>2
    <3> QED BY <1>4, <3>1
  <2> QED BY <2>1, <2>2
<1>13. ReadTo(str, a, b, n, AfterToken(s, p, end))
  BY <1>1, <1>6, <1>9, <1>10, <1>11, <1>12 DEF ReadTo
<1> QED BY <1>1, <1>8, <1>13

\* The token is a piece of the line.
IsTextOf(str, s, p, end) ==
  /\ StringAt(AfterToken(s, p, end).mem, p) = SubSeq(str, p + 1, end)
  /\ Len(SubSeq(str, p + 1, end)) = end - p

LEMMA TextOfToken ==
  ASSUME NEW str, NEW a, NEW b, NEW m, NEW s, Reading(str, a, b, m, s),
         NEW p, NEW end, TokenFound(s, m, p, end)
  PROVE  IsTextOf(str, s, p, end)
<1>1. PICK L \in Nat : L = Len(str)
  BY DEF Reading
<1>2. p \in m .. (L - 1) /\ end \in (p + 1) .. L
  BY <1>1, TokenOfLine
<1>3. /\ LineSize \in Nat /\ L < LineSize /\ m \in 0 .. L /\ str \in Seq(Nat)
      /\ \A k \in m .. (L - 1) : s.mem[k] = str[k + 1]
      /\ \A k \in 1 .. L : str[k] /= NUL
      /\ s.mem \in [0 .. LineSize -> Nat]
  BY <1>1, TokenizerFacts DEF Reading, ReadTo
<1>4. PICK mem : mem = [s.mem EXCEPT ![end] = NUL]
  OBVIOUS
<1>5. AfterToken(s, p, end).mem = mem
  BY <1>4 DEF AfterToken
<1>6. /\ p \in Nat /\ end \in p .. LineSize /\ mem[end] = NUL
      /\ \A k \in p .. (end - 1) : mem[k] = str[k + 1] /\ mem[k] /= NUL
  <2>1. p \in Nat /\ end \in p .. LineSize /\ end \in 0 .. LineSize
    BY <1>2, <1>3
  <2>2. mem[end] = NUL
    BY <1>3, <1>4, <2>1
  <2>3. ASSUME NEW k \in p .. (end - 1) PROVE mem[k] = str[k + 1] /\ mem[k] /= NUL
    <3>1. k \in 0 .. LineSize /\ k /= end /\ k \in m .. (L - 1) /\ k + 1 \in 1 .. L
      BY <1>2, <1>3, <2>1
    <3>2. mem[k] = s.mem[k]
      BY <1>3, <1>4, <3>1
    <3> QED BY <1>3, <3>1, <3>2
  <2> QED BY <2>1, <2>2, <2>3
<1>7. StringAt(mem, p) = Piece(mem, p, end)
  BY <1>6, StringUpTo
<1>8. PICK d \in Nat : d = end - p
  BY <1>2, <1>3
<1>9. Piece(mem, p, end) = [k \in 1 .. d |-> str[p + k]]
  <2>1. Piece(mem, p, end) = [k \in 1 .. d |-> mem[p + k - 1]]
    BY <1>8 DEF Piece
  <2>2. ASSUME NEW k \in 1 .. d PROVE mem[p + k - 1] = str[p + k]
    <3>1. p + k - 1 \in p .. (end - 1) /\ p + k - 1 + 1 = p + k
      BY <1>2, <1>3, <1>8
    <3>2. mem[p + k - 1] = str[p + k - 1 + 1]
      BY <1>6, <3>1
    <3> QED BY <3>1, <3>2
  <2> QED BY <2>1, <2>2
<1>10. PICK sub : sub = SubSeq(str, p + 1, end)
  OBVIOUS
<1>11. sub \in Seq(Nat) /\ Len(sub) = d /\ \A k \in 1 .. d : sub[k] = str[p + k]
  <2>1. /\ p + 1 \in Int /\ end \in Int /\ end - (p + 1) + 1 = d /\ p + 1 <= end
        /\ \A k \in 1 .. d : p + 1 + k - 1 = p + k
        /\ \A k \in (p + 1) .. end : k \in 1 .. L
    BY <1>2, <1>3, <1>8
  <2>a. \A k \in (p + 1) .. end : str[k] \in Nat
    <3>1. \A k \in 1 .. L : str[k] \in Nat
      BY <1>1, <1>3, ElementOfSeq
    <3> QED BY <2>1, <3>1
  <2>2. /\ sub \in Seq(Nat)
        /\ Len(sub) = IF p + 1 <= end THEN end - (p + 1) + 1 ELSE 0
        /\ \A k \in 1 .. (end - (p + 1) + 1) : sub[k] = str[p + 1 + k - 1]
    BY <1>10, <2>1, <2>a, SubSeqProperties
  <2> QED BY <2>1, <2>2
<1>12. sub = [k \in 1 .. d |-> str[p + k]]
  BY <1>11
<1> QED BY <1>5, <1>7, <1>8, <1>9, <1>10, <1>11, <1>12 DEF IsTextOf

\* The starts up to a place are finitely many.
LEMMA StartsFinite ==
  ASSUME NEW str \in Seq(Nat), NEW cuts, NEW m, NEW n
  PROVE  /\ IsFiniteSet(StartsTo(str, cuts, n))
         /\ Cardinality(StartsTo(str, cuts, n)) \in Nat
         /\ StartsTo(str, cuts, m) \subseteq StartsTo(str, cuts, n) =>
              Cardinality(StartsTo(str, cuts, m)) <= Cardinality(StartsTo(str, cuts, n))
<1>1. IsFiniteSet(1 .. Len(str))
  BY FS_Interval
<1>2. StartsTo(str, cuts, n) \subseteq 1 .. Len(str)
  BY DEF StartsTo, Starts
<1>3. IsFiniteSet(StartsTo(str, cuts, n))
  BY <1>1, <1>2, FS_Subset
<1> QED BY <1>3, FS_CardinalityType, FS_Subset

\* A token adds one start.
LEMMA StartsWithToken ==
  ASSUME NEW str, NEW a, NEW b, NEW m, NEW s, Reading(str, a, b, m, s),
         NEW p, NEW end, TokenFound(s, m, p, end),
         NEW n \in (p + 1) .. Len(str), n <= end + 1
  PROVE  /\ StartsTo(str, Cuts(str, a, b), n) = StartsTo(str, Cuts(str, a, b), m) \cup {p + 1}
         /\ p + 1 \notin StartsTo(str, Cuts(str, a, b), m)
<1>1. PICK L \in Nat : L = Len(str)
  BY DEF Reading
<1>2. /\ p \in m .. (L - 1) /\ end \in (p + 1) .. L
      /\ \A k \in (m + 1) .. p : str[k] = Blank
      /\ str[p + 1] /= Blank
      /\ p + 1 \in Starts(str, Cuts(str, a, b))
      /\ \A k \in (p + 1) .. end : ~Cut(str, a, b, k)
  BY <1>1, TokenOfLine
<1>3. m \in 0 .. L
  BY <1>1 DEF Reading, ReadTo
<1>4. ASSUME NEW k \in Starts(str, Cuts(str, a, b)), k <= n, ~(k <= m) PROVE k = p + 1
  <2>1. /\ k \in 1 .. L /\ str[k] /= Blank
    BY <1>1 DEF Starts
  <2>a. PICK c \in Cuts(str, a, b) \cup {0} :
          c < k /\ \A j \in (c + 1) .. (k - 1) : str[j] = Blank
    BY DEF Starts
  <2>b. c \in 0 .. L /\ (c = 0 \/ Cut(str, a, b, c))
    BY <1>1, <2>a DEF Cuts
  <2>2. ~(k \in (m + 1) .. p)
    BY <1>2, <2>1
  <2>3. ~(k > p + 1)
    <3> SUFFICES ASSUME k > p + 1 PROVE FALSE
      OBVIOUS
    <3>1. ~(p + 1 \in (c + 1) .. (k - 1))
      BY <1>2, <2>a
    <3>2. c \in (p + 1) .. end
      BY <1>1, <1>2, <1>3, <1>4, <2>1, <2>a, <2>b, <3>1
    <3> QED BY <1>2, <1>3, <2>b, <3>2
  <2> QED BY <1>2, <1>3, <1>4, <2>1, <2>2, <2>3
<1>5. p + 1 <= n /\ ~(p + 1 <= m) /\ \A k \in 1 .. L : k <= m => k <= n
  BY <1>1, <1>2, <1>3
<1>6. \A k \in Starts(str, Cuts(str, a, b)) : k \in 1 .. L
  BY <1>1 DEF Starts
<1> QED BY <1>2, <1>4, <1>5, <1>6 DEF StartsTo

\* A token is the next argument of the line.
LEMMA SplitToNext ==
  ASSUME NEW str, NEW a, NEW b, NEW m, NEW s, Reading(str, a, b, m, s),
         NEW list \in Seq(Seq(Nat)), SplitTo(str, Cuts(str, a, b), m, list),
         NEW p, NEW end, TokenFound(s, m, p, end), NEW n, n = AfterToken(s, p, end).sp,
         NEW token \in Seq(Nat), token = StringAt(AfterToken(s, p, end).mem, p)
  PROVE  SplitTo(str, Cuts(str, a, b), n, Append(list, token))
<1>1. PICK L \in Nat : L = Len(str)
  BY DEF Reading
<1>2. /\ p \in m .. (L - 1) /\ end \in (p + 1) .. L /\ m \in 0 .. L /\ str \in Seq(Nat)
      /\ end < L => Cut(str, a, b, end + 1)
      /\ \A k \in (p + 1) .. end : ~Cut(str, a, b, k)
  BY <1>1, TokenOfLine DEF Reading, ReadTo
<1>3. n = IF end < L THEN end + 1 ELSE L
  BY <1>1, ReadToNext
<1>4. PICK A : A = StartsTo(str, Cuts(str, a, b), m)
  OBVIOUS
<1>5. PICK q : q = p + 1
  OBVIOUS
<1>6. q \in (p + 1) .. L /\ q <= end + 1 /\ n \in (p + 1) .. L /\ n <= end + 1
  BY <1>2, <1>3, <1>5
<1>7. /\ StartsTo(str, Cuts(str, a, b), n) = A \cup {q} /\ q \notin A
      /\ StartsTo(str, Cuts(str, a, b), q) = A \cup {q}
  BY <1>1, <1>4, <1>5, <1>6, StartsWithToken
<1>8. PICK N \in Nat : N = Len(list)
  OBVIOUS
<1>9. Cardinality(A) = N /\ IsFiniteSet(A)
  BY <1>2, <1>4, <1>8, StartsFinite DEF SplitTo
<1>10. Cardinality(A \cup {q}) = N + 1
  BY <1>7, <1>9, FS_AddElement
<1>11. PICK more : more = Append(list, token)
  OBVIOUS
<1>12. /\ Len(more) = N + 1 /\ more[N + 1] = token
       /\ \A k \in 1 .. N : more[k] = list[k]
  <2>1. PICK W : W = Seq(Nat)
    OBVIOUS
  <2>2. list \in Seq(W) /\ token \in W
    BY <2>1
  <2> QED BY <1>8, <1>11, <2>2, AppendProperties
<1>13. ASSUME NEW k \in A
       PROVE  IsArgument(str, Cuts(str, a, b), k,
                         more[Cardinality(StartsTo(str, Cuts(str, a, b), k))])
  <2>1. PICK c : c = Cardinality(StartsTo(str, Cuts(str, a, b), k))
    OBVIOUS
  <2>2. k \in StartsTo(str, Cuts(str, a, b), k) /\ StartsTo(str, Cuts(str, a, b), k) \subseteq A
    <3>1. k \in Starts(str, Cuts(str, a, b)) /\ k <= m
      BY <1>4 DEF StartsTo
    <3>2. \A j \in Starts(str, Cuts(str, a, b)) : j \in Int
      BY DEF Starts
    <3> QED BY <1>2, <1>4, <3>1, <3>2 DEF StartsTo
  <2>3. c \in Nat /\ c <= N
    BY <1>2, <1>4, <1>9, <2>1, <2>2, StartsFinite
  <2>4. c /= 0
    <3>1. IsFiniteSet(StartsTo(str, Cuts(str, a, b), k))
      BY <1>2, StartsFinite
    <3>2. StartsTo(str, Cuts(str, a, b), k) /= {}
      BY <2>2
    <3> QED BY <2>1, <3>1, <3>2, FS_EmptySet
  <2>5. c \in 1 .. N
    BY <2>3, <2>4
  <2>6. IsArgument(str, Cuts(str, a, b), k, list[c])
    BY <1>4, <2>1 DEF SplitTo
  <2>7. more[c] = list[c]
    BY <1>12, <2>5
  <2> QED BY <2>1, <2>6, <2>7
<1>14. IsArgument(str, Cuts(str, a, b), q, token)
  <2>1. token = SubSeq(str, p + 1, end) /\ Len(token) = end - p
    <3>1. IsTextOf(str, s, p, end)
      BY TextOfToken
    <3> QED BY <3>1 DEF IsTextOf
  <2>2. PICK d : d = end - p
    OBVIOUS
  <2>3. q + d - 1 = end /\ q + d = end + 1 /\ (end + 1 = L + 1 \/ end < L)
    BY <1>2, <1>5, <2>2
  <2>4. token = SubSeq(str, q, q + d - 1)
    BY <1>5, <2>1, <2>3
  <2>5. q + d \in Cuts(str, a, b) \cup {L + 1}
    BY <1>1, <1>2, <2>3 DEF Cuts
  <2>6. \A j \in q .. (q + d - 1) : j \notin Cuts(str, a, b)
    BY <1>2, <1>5, <2>3 DEF Cuts
  <2>7. Len(token) = d
    BY <2>1, <2>2
  <2> QED BY <1>1, <2>4, <2>5, <2>6, <2>7 DEF IsArgument
<1>15. IsArgument(str, Cuts(str, a, b), q, more[Cardinality(StartsTo(str, Cuts(str, a, b), q))])
  BY <1>7, <1>10, <1>12, <1>14
<1>16. \A k \in StartsTo(str, Cuts(str, a, b), n) :
         IsArgument(str, Cuts(str, a, b), k,
                    more[Cardinality(StartsTo(str, Cuts(str, a, b), k))])
  BY <1>7, <1>13, <1>15
<1> QED BY <1>7, <1>10, <1>11, <1>12, <1>16 DEF SplitTo

\* When only blanks are left, all arguments of the line have been found.
LEMMA SplitAtEnd ==
  ASSUME NEW str, NEW a, NEW b, NEW m, NEW s, Reading(str, a, b, m, s),
         NEW list, SplitTo(str, Cuts(str, a, b), m, list),
         NEW p, SkipsTo(s, m, p), s.mem[p] = NUL
  PROVE  SplitTo(str, Cuts(str, a, b), Len(str), list)
<1>1. PICK L \in Nat : L = Len(str)
  BY DEF Reading
<1>2. /\ m \in 0 .. L /\ \A k \in m .. (L - 1) : s.mem[k] = str[k + 1]
      /\ s.mem[L] = NUL /\ \A k \in 1 .. L : str[k] /= NUL
      /\ LineSize \in Nat /\ L < LineSize
  BY <1>1, CommandLineAssumption DEF Reading, ReadTo
<1>3. p \in m .. LineSize /\ \A j \in m .. (p - 1) : s.mem[j] = Blank
  BY DEF SkipsTo
<1>4. ~(p < L)
  <2> SUFFICES ASSUME p < L PROVE FALSE
    OBVIOUS
  <2>1. p \in m .. (L - 1) /\ p + 1 \in 1 .. L
    BY <1>2, <1>3
  <2> QED BY <1>2, <2>1
<1>5. ASSUME NEW k \in (m + 1) .. L PROVE str[k] = Blank
  <2>1. PICK j : j = k - 1
    OBVIOUS
  <2>2. j \in m .. (p - 1) /\ j \in m .. (L - 1) /\ j + 1 = k
    BY <1>2, <1>3, <1>4, <2>1
  <2>3. s.mem[j] = Blank /\ s.mem[j] = str[j + 1]
    BY <1>2, <1>3, <2>2
  <2> QED BY <2>2, <2>3
<1>6. StartsTo(str, Cuts(str, a, b), L) = StartsTo(str, Cuts(str, a, b), m)
  <2>1. ASSUME NEW k \in Starts(str, Cuts(str, a, b)) PROVE k <= L <=> k <= m
    <3>1. k \in 1 .. L /\ str[k] /= Blank
      BY <1>1 DEF Starts
    <3>2. ~(k \in (m + 1) .. L)
      BY <1>5, <3>1
    <3> QED BY <1>2, <3>1, <3>2
  <2> QED BY <2>1 DEF StartsTo
<1> QED BY <1>1, <1>6 DEF SplitTo

\* Before the first token nothing has been read.
LEMMA SplitAtStart ==
  ASSUME NEW str \in Seq(Nat), NEW a, NEW b
  PROVE  SplitTo(str, Cuts(str, a, b), 0, << >>)
<1>1. StartsTo(str, Cuts(str, a, b), 0) = {}
  BY DEF StartsTo, Starts
<1>2. Cardinality({}) = 0 /\ Len(<< >>) = 0
  BY FS_EmptySet
<1> QED BY <1>1, <1>2 DEF SplitTo

\* Where a quote is open at every blank behind the first word, strtok splits the
\* line at all its blanks.
LEMMA QuotedBlanks ==
  ASSUME NEW str \in Seq(Nat), NEW a, NEW b, NEW list, BlanksAreQuoted(str, a, b),
         SplitTo(str, Cuts(str, a, b), Len(str), list)
  PROVE  SplitTo(str, Blanks(str), Len(str), list)
<1>1. PICK L \in Nat : L = Len(str)
  OBVIOUS
<1>2. PICK A, B : A = Cuts(str, a, b) /\ B = Blanks(str)
  OBVIOUS
<1>3. A \subseteq B /\ B = {k \in 1 .. L : str[k] = Blank}
  BY <1>1, <1>2 DEF Cuts, Cut, Blanks
<1>4. \A k \in B : k \in A \/ \A j \in 1 .. k : str[j] = Blank
  BY <1>1, <1>2, <1>3 DEF BlanksAreQuoted, Cuts
<1>5. Starts(str, B) = Starts(str, A)
  <2>1. ASSUME NEW k \in Starts(str, B) PROVE k \in Starts(str, A)
    <3>1. k \in 1 .. L /\ str[k] /= Blank
      BY <1>1 DEF Starts
    <3>2. PICK c \in B \cup {0} : c < k /\ \A j \in (c + 1) .. (k - 1) : str[j] = Blank
      BY DEF Starts
    <3>3. CASE c \in A \cup {0}
      BY <1>1, <3>1, <3>2, <3>3 DEF Starts
    <3>4. CASE c \in B /\ \A j \in 1 .. c : str[j] = Blank
      <4>1. c \in 1 .. L
        BY <1>3, <3>4
      <4>2. 0 < k /\ \A j \in (0 + 1) .. (k - 1) : str[j] = Blank
        BY <3>1, <3>2, <3>4, <4>1
      <4> QED BY <1>1, <3>1, <4>2 DEF Starts
    <3> QED BY <1>4, <3>2, <3>3, <3>4
  <2>2. ASSUME NEW k \in Starts(str, A) PROVE k \in Starts(str, B)
    BY <1>3 DEF Starts
  <2> QED BY <2>1, <2>2
<1>6. \A m : StartsTo(str, B, m) = StartsTo(str, A, m)
  BY <1>5 DEF StartsTo
<1>7. ASSUME NEW k \in Starts(str, A), NEW argument, IsArgument(str, A, k, argument)
      PROVE  IsArgument(str, B, k, argument)
  <2>1. k \in 1 .. L /\ str[k] /= Blank
    BY <1>1 DEF Starts
  <2>2. PICK e : e = k + Len(argument) - 1
    OBVIOUS
  <2>3. \A j \in k .. e : j \notin A
    BY <1>7, <2>2, Zenon DEF IsArgument
  <2>4. ASSUME NEW j \in k .. e PROVE j \notin B
    <3> SUFFICES ASSUME j \in B PROVE FALSE
      OBVIOUS
    <3>1. \A i \in 1 .. j : str[i] = Blank
      BY <1>4, <2>3
    <3>2. k \in 1 .. j
      BY <2>1
    <3> QED BY <2>1, <3>1, <3>2
  <2>5. /\ argument = SubSeq(str, k, k + Len(argument) - 1)
        /\ k + Len(argument) \in A \cup {Len(str) + 1}
    BY <1>7, Zenon DEF IsArgument
  <2>6. k + Len(argument) \in B \cup {Len(str) + 1}
    BY <1>3, <2>5, Zenon
  <2> QED BY <2>2, <2>4, <2>5, <2>6, Zenon DEF IsArgument
<1>8. /\ Len(list) = Cardinality(StartsTo(str, A, L))
      /\ \A k \in StartsTo(str, A, L) :
           IsArgument(str, A, k, list[Cardinality(StartsTo(str, A, k))])
  BY <1>1, <1>2 DEF SplitTo
<1>9. \A k \in StartsTo(str, A, L) : k \in Starts(str, A)
  BY DEF StartsTo
<1>10. /\ Len(list) = Cardinality(StartsTo(str, B, L))
       /\ \A k \in StartsTo(str, B, L) :
            IsArgument(str, B, k, list[Cardinality(StartsTo(str, B, k))])
  BY <1>6, <1>7, <1>8, <1>9
<1> QED BY <1>1, <1>2, <1>10 DEF SplitTo
-----------------------------------------------------------------------------
(* The steps of the shell. *)

\* The line as a string.
LEMMA TypedFacts ==
  ASSUME ShellTypeOK
  PROVE  /\ Typed \in Seq(Nat) /\ Len(Typed) < LineSize
         /\ \A k \in 1 .. Len(Typed) : Typed[k] /= NUL
<1>1. PICK n : n = LineSize - 1
  OBVIOUS
<1>2. n \in 0 .. LineSize /\ 0 \in 0 .. n /\ n \in Nat /\ LineSize \in Nat /\ n < LineSize
  BY <1>1, CommandLineAssumption
<1>3. line \in [0 .. n -> Nat] /\ line[n] = NUL
  BY <1>1 DEF ShellTypeOK
<1>4. PICK end \in 0 .. n : /\ \A k \in 0 .. (end - 1) : line[k] /= NUL
                            /\ Typed = Piece(line, 0, end)
                            /\ Typed \in Seq(Nat)
                            /\ Len(Typed) = end - 0
  BY <1>2, <1>3, StringIsSeq DEF Typed
<1>5. ASSUME NEW k \in 1 .. Len(Typed) PROVE Typed[k] /= NUL
  <2>1. k \in 1 .. (end - 0) /\ 0 + k - 1 \in 0 .. (end - 1)
    BY <1>2, <1>4
  <2>2. Typed[k] = line[0 + k - 1]
    BY <1>4, <2>1 DEF Piece
  <2> QED BY <1>4, <2>1, <2>2
<1> QED BY <1>2, <1>4, <1>5

\* The copy of the line to the buffer of liebeos_parse_command.
LEMMA CopyOfLine ==
  ASSUME NEW s \in Tokenizers, NEW str \in Seq(Nat), Len(str) < LineSize,
         \A k \in 1 .. Len(str) : str[k] /= NUL,
         NEW copied, copied = [s EXCEPT !.mem = strncpy(@, str)]
  PROVE  /\ copied \in Tokenizers /\ copied.sp = s.sp
         /\ Reading(str, s.single, s.double, 0, copied)
<1>1. /\ LineSize \in Nat \ {0, 1}
      /\ s.mem \in [0 .. LineSize -> Nat] /\ s.mem[LineSize] = NUL
      /\ s.sp \in {NoPtr} \cup 0 .. LineSize
      /\ s.single \in BOOLEAN /\ s.double \in BOOLEAN
  BY TokenizerFacts
<1>2. PICK L \in Nat : L = Len(str)
  OBVIOUS
<1>3. PICK mem : mem = strncpy(s.mem, str)
  OBVIOUS
<1>4. mem = [k \in 0 .. LineSize |-> IF k < L THEN str[k + 1] ELSE IF k = L THEN NUL ELSE s.mem[k]]
  BY <1>1, <1>2, <1>3 DEF strncpy
<1>5. \A k \in 1 .. L : str[k] \in Nat
  BY <1>2, ElementOfSeq
<1>6. mem \in [0 .. LineSize -> Nat]
  <2>1. ASSUME NEW k \in 0 .. LineSize
        PROVE  (IF k < L THEN str[k + 1] ELSE IF k = L THEN NUL ELSE s.mem[k]) \in Nat
    <3>1. k < L => k + 1 \in 1 .. L
      BY <1>1
    <3> QED BY <1>1, <1>5, <3>1 DEF NUL
  <2> QED BY <1>4, <2>1
<1>7. /\ \A k \in 0 .. (L - 1) : mem[k] = str[k + 1]
      /\ mem[L] = NUL /\ mem[LineSize] = NUL
  BY <1>1, <1>2, <1>4
<1>8. copied.mem = mem /\ copied.sp = s.sp /\ copied.single = s.single /\ copied.double = s.double
  BY <1>3 DEF Tokenizers
<1>9. copied \in Tokenizers
  <2>1. copied = [mem |-> mem, sp |-> s.sp, single |-> s.single, double |-> s.double]
    BY <1>3 DEF Tokenizers
  <2>2. PICK x \in BOOLEAN, y \in BOOLEAN, sp \in {NoPtr} \cup 0 .. LineSize :
          x = s.single /\ y = s.double /\ sp = s.sp
    BY <1>1
  <2>3. [mem |-> mem, sp |-> sp, single |-> x, double |-> y] \in Tokenizers
    BY <1>6, <1>7 DEF Tokenizers
  <2> QED BY <2>1, <2>2, <2>3
<1>10. ReadTo(str, s.single, s.double, 0, copied)
  <2>1. /\ Open(str, s.single, SingleQuote, 0) = s.single
        /\ Open(str, s.double, DoubleQuote, 0) = s.double
    <3>1. PICK x \in BOOLEAN, y \in BOOLEAN : x = s.single /\ y = s.double
      BY <1>1
    <3>2. 0 \in Nat
      OBVIOUS
    <3>3. Open(str, x, SingleQuote, 0) = x /\ Open(str, y, DoubleQuote, 0) = y
      BY <3>2, OpenStep
    <3> QED BY <3>1, <3>3
  <2>2. 0 \in 0 .. Len(str)
    OBVIOUS
  <2> QED BY <1>2, <1>7, <1>8, <2>1, <2>2 DEF ReadTo
<1> QED BY <1>1, <1>8, <1>9, <1>10 DEF Reading

LEMMA InitEstablishesShellInv == ShellInit => ShellInv
<1> SUFFICES ASSUME ShellInit PROVE ShellInv
  OBVIOUS
<1>1. LineSize \in Nat \ {0, 1} /\ Width \in Nat \ {0}
  BY CommandLineAssumption, TerminalAssumption
<1>2. term \in Terminals
  BY <1>1 DEF ShellInit, terminal_initialize, Terminals, Blank
<1>3. strtok_state \in Tokenizers
  BY <1>1 DEF ShellInit, Tokenizers, NUL
<1>4. line \in [0 .. (LineSize - 1) -> Nat] /\ line[LineSize - 1] = NUL /\ length = 0
  BY <1>1 DEF ShellInit, NUL
<1>5. arguments \in Seq(Seq(Nat)) /\ pc = "prompt" /\ strtok_state.sp = NoPtr
  BY DEF ShellInit
<1>6. seen \in [cursor : Nat, sp : {NoPtr} \cup 0 .. LineSize, single : BOOLEAN,
                double : BOOLEAN, erased : BOOLEAN, failed : BOOLEAN]
  BY DEF ShellInit
<1>7. ShellTypeOK
  BY <1>1, <1>2, <1>3, <1>4, <1>5, <1>6 DEF ShellTypeOK
<1> QED BY <1>5, <1>7 DEF ShellInv, LineOnScreen, TokenizerKept, TokenizerRuns, TokensOfLine,
                          SplitAtCuts

\* The prompt.
LEMMA PromptStep ==
  ASSUME ShellInv, shell
  PROVE  ShellInv'
<1>1. ShellTypeOK /\ LineSize \in Nat \ {0, 1}
  BY CommandLineAssumption DEF ShellInv
<1>2. /\ pc' = "readline" /\ length' = 0 /\ arguments' = << >> /\ strtok_state' = strtok_state
      /\ line' = [k \in 0 .. (LineSize - 1) |-> NUL]
      /\ term' = print(term, Prompt)
      /\ seen' = [cursor |-> Cursor(term'), sp |-> strtok_state.sp,
                  single |-> strtok_state.single, double |-> strtok_state.double,
                  erased |-> FALSE, failed |-> FALSE]
  BY DEF shell
<1>3. term' \in Terminals
  <2>1. Prompt \in Seq(Nat)
    BY DEF Prompt, Blank
  <2> QED BY <1>1, <1>2, <2>1, PrintType DEF ShellTypeOK
<1>4. PICK c \in Nat : c = Cursor(term')
  BY <1>3, CursorOfTerminal
<1>5. /\ strtok_state \in Tokenizers
      /\ strtok_state.sp \in {NoPtr} \cup 0 .. LineSize
      /\ strtok_state.single \in BOOLEAN /\ strtok_state.double \in BOOLEAN
  BY <1>1, TokenizerFacts DEF ShellTypeOK
<1>6. seen' \in [cursor : Nat, sp : {NoPtr} \cup 0 .. LineSize, single : BOOLEAN,
                 double : BOOLEAN, erased : BOOLEAN, failed : BOOLEAN]
  BY <1>2, <1>4, <1>5
<1>7. line' \in [0 .. (LineSize - 1) -> Nat] /\ line'[LineSize - 1] = NUL
  BY <1>1, <1>2 DEF NUL
<1>8. ShellTypeOK'
  BY <1>1, <1>2, <1>3, <1>5, <1>6, <1>7 DEF ShellTypeOK
<1>9. LineOnScreen'
  BY <1>2, <1>4 DEF LineOnScreen
<1> QED BY <1>2, <1>8, <1>9 DEF ShellInv, TokenizerKept, TokenizerRuns, TokensOfLine,
                                SplitAtCuts

\* A character is put into a buffer; its last cell keeps the terminator.
LEMMA PutCharacter ==
  ASSUME NEW n \in Nat, NEW f \in [0 .. n -> Nat], f[n] = NUL,
         NEW k \in Int, 0 <= k, k <= n, NEW v \in Nat, k = n => v = NUL
  PROVE  /\ [f EXCEPT ![k] = v] \in [0 .. n -> Nat]
         /\ [f EXCEPT ![k] = v][n] = NUL
<1>1. [f EXCEPT ![k] = v] = [j \in 0 .. n |-> IF j = k THEN v ELSE f[j]]
  OBVIOUS
<1>2. [j \in 0 .. n |-> IF j = k THEN v ELSE f[j]] \in [0 .. n -> Nat]
  OBVIOUS
<1>3. n \in 0 .. n
  OBVIOUS
<1> QED BY <1>1, <1>2, <1>3

\* A key: the character that is put on the screen is the one put into the line.
LEMMA ReadlineStep ==
  ASSUME ShellInv, NEW c \in Keys, liebeos_terminal_readline(c)
  PROVE  ShellInv'
<1>1. /\ ShellTypeOK /\ LineSize \in Nat \ {0, 1} /\ pc = "readline"
      /\ c \in Nat /\ c /= NUL /\ c /= LineFeed
  BY CommandLineAssumption DEF ShellInv, liebeos_terminal_readline
<1>2. /\ UNCHANGED <<strtok_state, arguments>>
      /\ term \in Terminals /\ strtok_state \in Tokenizers /\ arguments \in Seq(Seq(Nat))
      /\ line \in [0 .. (LineSize - 1) -> Nat] /\ line[LineSize - 1] = NUL
      /\ length \in 0 .. (LineSize - 1) /\ length + 1 < LineSize
      /\ seen \in [cursor : Nat, sp : {NoPtr} \cup 0 .. LineSize, single : BOOLEAN,
                   double : BOOLEAN, erased : BOOLEAN, failed : BOOLEAN]
  BY <1>1 DEF ShellTypeOK, liebeos_terminal_readline
<1>3. PICK D : D = 0 .. (Rows * Width - 1)
  OBVIOUS
<1>4. /\ \A t \in Terminals : DOMAIN t.cells = D
      /\ Cursor(term) \in Nat /\ seen.cursor \in Nat
  BY <1>2, <1>3, CursorOfTerminal DEF Terminals
<1>5. <<LineFeed>> \in Seq(Nat) /\ <<c, LineFeed>> \in Seq(Nat)
  BY <1>1 DEF LineFeed
<1>6. TokenizerKept /\ LineOnScreen
  BY DEF ShellInv
<1>7. CASE c = Enter
  <2>1. /\ line' = [line EXCEPT ![length] = NUL] /\ term' = print(term, <<LineFeed>>)
        /\ pc' = "parse" /\ UNCHANGED <<length, seen>>
    BY <1>7 DEF liebeos_terminal_readline, Enter, Backspace
  <2>2. term' \in Terminals
    BY <1>2, <1>5, <2>1, PrintType
  <2>3. line' \in [0 .. (LineSize - 1) -> Nat] /\ line'[LineSize - 1] = NUL
    BY <1>1, <1>2, <2>1 DEF NUL
  <2>4. ShellTypeOK'
    BY <1>2, <2>1, <2>2, <2>3 DEF ShellTypeOK
  <2>5. TokenizerKept'
    BY <1>1, <1>2, <1>6, <2>1 DEF TokenizerKept
  <2> QED BY <2>1, <2>4, <2>5 DEF ShellInv, LineOnScreen, TokenizerRuns, TokensOfLine,
                                  SplitAtCuts
<1>8. CASE c = Backspace /\ length >= 1
  <2>1. /\ line' = [line EXCEPT ![length - 1] = NUL] /\ length' = length - 1
        /\ term' = terminal_writechar(term, c) /\ UNCHANGED <<pc, seen>>
    BY <1>8 DEF liebeos_terminal_readline, Enter, Backspace
  <2>2. term' = terminal_backspace(term)
    BY <1>8, <2>1 DEF terminal_writechar, Backspace, LineFeed
  <2>3. term' \in Terminals
    BY <1>2, <2>2, BackspaceMoves
  <2>4. line' \in [0 .. (LineSize - 1) -> Nat] /\ line'[LineSize - 1] = NUL
    <3>1. PICK n \in Nat : n = LineSize - 1
      BY <1>1
    <3>2. PICK k \in Int : k = length - 1
      BY <1>2
    <3>3. 0 <= k /\ k <= n /\ k /= n /\ NUL \in Nat
      BY <1>1, <1>2, <1>8, <3>1, <3>2 DEF NUL
    <3>4. line \in [0 .. n -> Nat] /\ line[n] = NUL /\ line' = [line EXCEPT ![k] = NUL]
      BY <1>2, <2>1, <3>1, <3>2
    <3>5. line' \in [0 .. n -> Nat] /\ line'[n] = NUL
      BY <3>3, <3>4, PutCharacter
    <3> QED BY <3>1, <3>5
  <2>5. length' \in 0 .. (LineSize - 1) /\ length' + 1 < LineSize
    BY <1>1, <1>2, <1>8, <2>1
  <2>6. ShellTypeOK'
    BY <1>1, <1>2, <2>1, <2>3, <2>4, <2>5 DEF ShellTypeOK
  <2>7. LineOnScreen'
    <3> SUFFICES ASSUME ~seen.erased
                 PROVE  /\ Cursor(term') = seen.cursor + length'
                        /\ \A k \in 0 .. (length' - 1) :
                             seen.cursor + k \in D => term'.cells[seen.cursor + k] = line'[k]
      BY <1>4, <2>1, <2>3 DEF LineOnScreen
    <3>1. /\ Cursor(term) = seen.cursor + length
          /\ \A k \in 0 .. (length - 1) :
               seen.cursor + k \in D => term.cells[seen.cursor + k] = line[k]
      BY <1>1, <1>2, <1>4, <1>6 DEF LineOnScreen
    <3>2. Cursor(term) /= 0
      BY <1>2, <1>4, <1>8, <3>1
    <3>3. /\ Cursor(term') = Cursor(term) - 1
          /\ \A k \in D : k /= Cursor(term) - 1 => term'.cells[k] = term.cells[k]
      BY <1>2, <1>4, <2>2, <3>2, BackspaceMoves
    <3>4. ASSUME NEW k \in 0 .. (length' - 1), seen.cursor + k \in D
          PROVE  term'.cells[seen.cursor + k] = line'[k]
      <4>1. /\ k \in 0 .. (length - 1) /\ k /= length - 1 /\ k \in 0 .. (LineSize - 1)
            /\ seen.cursor + k /= Cursor(term) - 1
        BY <1>1, <1>2, <1>4, <2>1, <3>1
      <4>2. line'[k] = line[k]
        BY <1>2, <2>1, <4>1
      <4> QED BY <3>1, <3>3, <3>4, <4>1, <4>2
    <3>5. Cursor(term') = seen.cursor + length'
      BY <1>2, <1>4, <2>1, <3>1, <3>3
    <3> QED BY <3>4, <3>5
  <2>8. TokenizerKept'
    BY <1>2, <1>6, <2>1 DEF TokenizerKept
  <2> QED BY <1>1, <2>1, <2>6, <2>7, <2>8 DEF ShellInv, TokenizerRuns, TokensOfLine, SplitAtCuts
<1>9. CASE c /= Enter /\ ~(c = Backspace /\ length >= 1)
  <2>1. /\ line' = [line EXCEPT ![length] = c, ![length + 1] = NUL]
        /\ length' = length + 1
        /\ seen' = [seen EXCEPT !.erased = @ \/ c = Backspace]
        /\ IF length' < LineSize - 1
             THEN term' = terminal_writechar(term, c) /\ pc' = "readline"
             ELSE term' = print(term, <<c, LineFeed>>) /\ pc' = "parse"
    BY <1>9 DEF liebeos_terminal_readline
  <2>2. line' \in [0 .. (LineSize - 1) -> Nat] /\ line'[LineSize - 1] = NUL
    <3>1. PICK n \in Nat : n = LineSize - 1
      BY <1>1
    <3>2. PICK k \in Int : k = length
      BY <1>2
    <3>3. PICK m \in Int : m = length + 1
      BY <1>2
    <3>4. 0 <= k /\ k <= n /\ k /= n /\ 0 <= m /\ m <= n /\ NUL \in Nat
      BY <1>1, <1>2, <3>1, <3>2, <3>3 DEF NUL
    <3>5. PICK f : f = [line EXCEPT ![k] = c]
      OBVIOUS
    <3>6. line \in [0 .. n -> Nat] /\ line[n] = NUL /\ line' = [f EXCEPT ![m] = NUL]
      BY <1>2, <2>1, <3>1, <3>2, <3>3, <3>5
    <3>7. f \in [0 .. n -> Nat] /\ f[n] = NUL
      BY <1>1, <3>4, <3>5, <3>6, PutCharacter
    <3>8. line' \in [0 .. n -> Nat] /\ line'[n] = NUL
      BY <3>4, <3>6, <3>7, PutCharacter
    <3> QED BY <3>1, <3>8
  <2>3. length' \in 0 .. (LineSize - 1) /\ (length' < LineSize - 1 => length' + 1 < LineSize)
    BY <1>1, <1>2, <2>1
  <2>4. PICK e \in BOOLEAN : e = (seen.erased \/ c = Backspace)
    OBVIOUS
  <2>5. /\ seen' = [seen EXCEPT !.erased = e]
        /\ ~e => ~seen.erased /\ c /= Backspace
    BY <2>1, <2>4
  <2>6. /\ seen' \in [cursor : Nat, sp : {NoPtr} \cup 0 .. LineSize, single : BOOLEAN,
                      double : BOOLEAN, erased : BOOLEAN, failed : BOOLEAN]
        /\ seen'.cursor = seen.cursor /\ seen'.sp = seen.sp /\ seen'.erased = e
        /\ seen'.single = seen.single /\ seen'.double = seen.double
    BY <1>2, <2>5
  <2>7. term' \in Terminals
    <3>1. CASE length' < LineSize - 1
      BY <1>1, <1>2, <2>1, <3>1, WriteCharType
    <3>2. CASE ~(length' < LineSize - 1)
      <4>1. PICK str \in Seq(Nat) : str = <<c, LineFeed>>
        BY <1>5
      <4>2. term' = print(term, str)
        BY <2>1, <3>2, <4>1
      <4> QED BY <1>2, <4>2, PrintType
    <3> QED BY <3>1, <3>2
  <2>8. pc' \in {"readline", "parse"} /\ (pc' = "readline" => length' < LineSize - 1)
    BY <2>1
  <2>9. ShellTypeOK'
    BY <1>2, <2>2, <2>3, <2>6, <2>7, <2>8 DEF ShellTypeOK
  <2>10. LineOnScreen'
    <3> SUFFICES ASSUME ~e, pc' = "readline"
                 PROVE  /\ Cursor(term') = seen.cursor + length'
                        /\ \A k \in 0 .. (length' - 1) :
                             seen.cursor + k \in D => term'.cells[seen.cursor + k] = line'[k]
      BY <1>4, <2>6, <2>7 DEF LineOnScreen
    <3>1. /\ Cursor(term) = seen.cursor + length
          /\ \A k \in 0 .. (length - 1) :
               seen.cursor + k \in D => term.cells[seen.cursor + k] = line[k]
      BY <1>1, <1>2, <1>4, <1>6, <2>5 DEF LineOnScreen
    <3>2. c \in Nat \ {LineFeed, Backspace} /\ term' = terminal_writechar(term, c)
      BY <1>1, <2>1, <2>5
    <3>3. /\ Cursor(term') = Cursor(term) + 1
          /\ \A k \in D : term'.cells[k] = IF k = Cursor(term) THEN c ELSE term.cells[k]
      BY <1>2, <1>4, <3>2, WriteCharMoves
    <3>4. ASSUME NEW k \in 0 .. (length' - 1), seen.cursor + k \in D
          PROVE  term'.cells[seen.cursor + k] = line'[k]
      <4>1. CASE k = length
        <5>1. line'[k] = c /\ seen.cursor + k = Cursor(term)
          BY <1>2, <2>1, <3>1, <4>1
        <5> QED BY <3>3, <3>4, <5>1
      <4>2. CASE k /= length
        <5>1. /\ k \in 0 .. (length - 1) /\ k \in 0 .. (LineSize - 1) /\ k /= length + 1
              /\ seen.cursor + k /= Cursor(term)
          <6>1. length \in Int /\ length' - 1 = length /\ LineSize \in Int
            BY <1>1, <1>2, <2>1
          <6>2. k \in 0 .. length
            BY <3>4, <6>1
          <6>3. k \in 0 .. (length - 1) /\ k \in 0 .. (LineSize - 1) /\ k /= length + 1
            BY <1>2, <4>2, <6>1, <6>2
          <6> QED BY <1>4, <3>1, <4>2, <6>1, <6>3
        <5>2. line'[k] = line[k]
          BY <1>2, <2>1, <4>2, <5>1
        <5> QED BY <3>1, <3>3, <3>4, <5>1, <5>2
      <4> QED BY <4>1, <4>2
    <3>5. Cursor(term') = seen.cursor + length'
      BY <1>2, <1>4, <2>1, <3>1, <3>3
    <3> QED BY <3>4, <3>5
  <2>11. TokenizerKept'
    BY <1>1, <1>2, <1>6, <2>6 DEF TokenizerKept
  <2> QED BY <2>8, <2>9, <2>10, <2>11 DEF ShellInv, TokenizerRuns, TokensOfLine, SplitAtCuts
<1> QED BY <1>7, <1>8, <1>9

\* A token is copied to an argument, or there is no memory for it.
LEMMA ArgumentStep ==
  ASSUME ShellTypeOK,
         NEW s \in Tokenizers, NEW from \in 0 .. LineSize, NEW p, NEW end,
         TokenFound(s, from, p, end),
         NEW found, found = [state |-> AfterToken(s, p, end), token |-> p],
         strtok_state' = found.state,
         NEW then_failed \in {"prompt", "system"},
         then_failed = "system" => arguments /= << >>,
         NewArgument(found, "tokens", then_failed),
         UNCHANGED <<term, line, length, lines>>,
         (~seen.failed /\ seen.sp = NoPtr) =>
           /\ Reading(Typed, seen.single, seen.double, from, s)
           /\ SplitTo(Typed, Cuts(Typed, seen.single, seen.double), from, arguments)
  PROVE  ShellInv'
<1>1. PICK after : after = AfterToken(s, p, end)
  OBVIOUS
<1>2. PICK token : token = StringAt(after.mem, p)
  OBVIOUS
<1>3. /\ after \in Tokenizers /\ after.sp \in 0 .. LineSize /\ token \in Seq(Nat)
      /\ strtok_state' = after /\ StringAt(found.state.mem, found.token) = token
  BY <1>1, <1>2, TokenType
<1>4. /\ term' \in Terminals /\ length' \in 0 .. (LineSize - 1)
      /\ line' \in [0 .. (LineSize - 1) -> Nat] /\ line'[LineSize - 1] = NUL
      /\ arguments \in Seq(Seq(Nat)) /\ Typed' = Typed
      /\ seen \in [cursor : Nat, sp : {NoPtr} \cup 0 .. LineSize, single : BOOLEAN,
                   double : BOOLEAN, erased : BOOLEAN, failed : BOOLEAN]
  BY DEF ShellTypeOK, Typed
<1>5. CASE /\ arguments' = Append(arguments, token) /\ pc' = "tokens" /\ seen' = seen
  <2>1. arguments' \in Seq(Seq(Nat)) /\ arguments' /= << >>
    <3>1. PICK W : W = Seq(Nat)
      OBVIOUS
    <3>2. /\ arguments \in Seq(W) /\ token \in W
      BY <1>3, <1>4, <3>1
    <3>3. Append(arguments, token) \in Seq(W) /\ Append(arguments, token) /= << >>
      BY <3>2
    <3> QED BY <1>5, <3>1, <3>3
  <2>2. ShellTypeOK'
    BY <1>3, <1>4, <1>5, <2>1 DEF ShellTypeOK
  <2>3. TokensOfLine'
    <3> SUFFICES ASSUME ~seen.failed /\ seen.sp = NoPtr
                 PROVE  /\ ReadTo(Typed, seen.single, seen.double, after.sp, after)
                        /\ SplitTo(Typed, Cuts(Typed, seen.single, seen.double), after.sp, arguments')
      BY <1>3, <1>4, <1>5 DEF TokensOfLine
    <3>1. PICK str, a, b, list : /\ str = Typed /\ a = seen.single /\ b = seen.double
                                 /\ list = arguments
      OBVIOUS
    <3>2. /\ Reading(str, a, b, from, s) /\ SplitTo(str, Cuts(str, a, b), from, list)
          /\ list \in Seq(Seq(Nat))
      BY <1>4, <3>1
    <3>3. PICK n : n = after.sp
      OBVIOUS
    <3>4. n = AfterToken(s, p, end).sp /\ token = StringAt(AfterToken(s, p, end).mem, p)
      BY <1>1, <1>2, <3>3
    <3>5. ReadTo(str, a, b, n, AfterToken(s, p, end))
      BY <3>2, <3>4, ReadToNext
    <3>6. SplitTo(str, Cuts(str, a, b), n, Append(list, token))
      BY <1>3, <3>2, <3>4, SplitToNext
    <3> QED BY <1>1, <1>5, <3>1, <3>3, <3>5, <3>6
  <2> QED BY <1>5, <2>1, <2>2, <2>3 DEF ShellInv, LineOnScreen, TokenizerKept, TokenizerRuns,
                                        SplitAtCuts
<1>6. CASE /\ arguments' = arguments /\ pc' = then_failed
           /\ seen' = [seen EXCEPT !.failed = TRUE]
  <2>1. /\ seen' \in [cursor : Nat, sp : {NoPtr} \cup 0 .. LineSize, single : BOOLEAN,
                      double : BOOLEAN, erased : BOOLEAN, failed : BOOLEAN]
        /\ seen'.failed = TRUE
    BY <1>4, <1>6
  <2>2. ShellTypeOK'
    BY <1>3, <1>4, <1>6, <2>1 DEF ShellTypeOK
  <2> QED BY <1>6, <2>1, <2>2 DEF ShellInv, LineOnScreen, TokenizerKept, TokenizerRuns,
                                  TokensOfLine, SplitAtCuts
<1> QED BY <1>3, <1>5, <1>6 DEF NewArgument

\* The first token: strtok starts at the copy of the line, unless it has kept a
\* pointer.
LEMMA ParseStep ==
  ASSUME ShellInv, liebeos_parse_command
  PROVE  ShellInv'
<1>1. /\ ShellTypeOK /\ TokenizerKept /\ pc = "parse" /\ UNCHANGED <<term, line, length, lines>>
  BY DEF ShellInv, liebeos_parse_command
<1>2. /\ arguments = << >> /\ strtok_state \in Tokenizers
      /\ strtok_state.sp = seen.sp /\ strtok_state.single = seen.single
      /\ strtok_state.double = seen.double
  BY <1>1 DEF ShellTypeOK, TokenizerKept
<1>3. PICK str : str = Typed
  OBVIOUS
<1>4. str \in Seq(Nat) /\ Len(str) < LineSize /\ \A k \in 1 .. Len(str) : str[k] /= NUL
  BY <1>1, <1>3, TypedFacts
<1>5. PICK old : old = strtok_state
  OBVIOUS
<1>6. PICK s : s = [old EXCEPT !.mem = strncpy(@, str)]
  OBVIOUS
<1>7. s \in Tokenizers /\ s.sp = seen.sp /\ Reading(Typed, seen.single, seen.double, 0, s)
  <2>1. old \in Tokenizers
    BY <1>2, <1>5
  <2>2. s \in Tokenizers /\ s.sp = old.sp /\ Reading(str, old.single, old.double, 0, s)
    BY <1>4, <1>6, <2>1, CopyOfLine
  <2> QED BY <1>2, <1>3, <1>5, <2>2
<1>8. PICK found : found = strtok(s, 0)
  OBVIOUS
<1>9. /\ strtok_state' = found.state
      /\ \/ /\ found.token = NoPtr /\ pc' = "prompt"
            /\ UNCHANGED <<arguments, allocations, seen>>
         \/ found.token /= NoPtr /\ NewArgument(found, "tokens", "prompt")
  <2>1. s = [strtok_state EXCEPT !.mem = strncpy(@, StringAt(line, 0))]
    BY <1>3, <1>5, <1>6 DEF Typed
  <2> QED BY <1>8, <2>1, Zenon DEF liebeos_parse_command
<1>10. LineSize \in Nat /\ 0 \in 0 .. LineSize /\ NoPtr \notin 0 .. LineSize
  BY CommandLineAssumption DEF NoPtr
<1>11. PICK from : from = IF s.sp = NoPtr THEN 0 ELSE s.sp
  OBVIOUS
<1>12. from \in 0 .. LineSize
  BY <1>7, <1>10, <1>11, TokenizerFacts
<1>13. \/ found = [state |-> Exhausted(s), token |-> NoPtr]
       \/ \E p, end : /\ TokenFound(s, from, p, end)
                      /\ found = [state |-> AfterToken(s, p, end), token |-> p]
  BY <1>7, <1>8, <1>10, <1>11, <1>12, StrtokCases
<1>14. CASE found = [state |-> Exhausted(s), token |-> NoPtr]
  <2>1. /\ pc' = "prompt" /\ UNCHANGED <<arguments, seen>>
        /\ strtok_state' \in Tokenizers /\ strtok_state'.sp = NoPtr
    BY <1>7, <1>9, <1>14, ExhaustedType
  <2>2. ShellTypeOK'
    BY <1>1, <2>1 DEF ShellTypeOK
  <2> QED BY <2>1, <2>2 DEF ShellInv, LineOnScreen, TokenizerKept, TokenizerRuns,
                            TokensOfLine, SplitAtCuts
<1>15. ASSUME NEW p, NEW end, TokenFound(s, from, p, end),
              found = [state |-> AfterToken(s, p, end), token |-> p]
       PROVE  ShellInv'
  <2>1. NewArgument(found, "tokens", "prompt")
    <3>1. p \in 0 .. LineSize
      BY <1>7, <1>12, <1>15, TokenType
    <3> QED BY <1>9, <1>10, <1>15, <3>1
  <2>2. (~seen.failed /\ seen.sp = NoPtr) =>
          /\ Reading(Typed, seen.single, seen.double, from, s)
          /\ SplitTo(Typed, Cuts(Typed, seen.single, seen.double), from, arguments)
    <3> SUFFICES ASSUME seen.sp = NoPtr
                 PROVE  /\ Reading(Typed, seen.single, seen.double, from, s)
                        /\ SplitTo(Typed, Cuts(Typed, seen.single, seen.double), from, arguments)
      OBVIOUS
    <3>1. from = 0
      BY <1>7, <1>11
    <3>2. SplitTo(Typed, Cuts(Typed, seen.single, seen.double), 0, arguments)
      <4>1. PICK a, b : a = seen.single /\ b = seen.double
        OBVIOUS
      <4>2. SplitTo(str, Cuts(str, a, b), 0, << >>)
        BY <1>4, SplitAtStart
      <4> QED BY <1>2, <1>3, <4>1, <4>2
    <3> QED BY <1>7, <3>1, <3>2
  <2>3. "prompt" \in {"prompt", "system"} /\ "prompt" /= "system"
    OBVIOUS
  <2> QED BY <1>1, <1>7, <1>9, <1>12, <1>15, <2>1, <2>2, <2>3, ArgumentStep
<1> QED BY <1>13, <1>14, <1>15

\* A further token: strtok goes on where it stopped.
LEMMA TokenStep ==
  ASSUME ShellInv, next_token
  PROVE  ShellInv'
<1>1. /\ ShellTypeOK /\ TokensOfLine /\ TokenizerRuns /\ pc = "tokens"
      /\ UNCHANGED <<term, line, length, lines>>
  BY DEF ShellInv, next_token
<1>2. PICK s : s = strtok_state
  OBVIOUS
<1>3. /\ s \in Tokenizers /\ s.sp \in {NoPtr} \cup 0 .. LineSize
      /\ arguments /= << >> /\ arguments \in Seq(Seq(Nat))
  BY <1>1, <1>2, TokenizerFacts DEF ShellTypeOK, TokenizerRuns
<1>4. PICK found : found = strtok(s, NoPtr)
  OBVIOUS
<1>5. /\ strtok_state' = found.state
      /\ \/ /\ found.token = NoPtr /\ pc' = "system"
            /\ UNCHANGED <<arguments, allocations, seen>>
         \/ found.token /= NoPtr /\ NewArgument(found, "tokens", "system")
  BY <1>2, <1>4, Zenon DEF next_token
<1>6. LineSize \in Nat /\ NoPtr \notin 0 .. LineSize
  BY CommandLineAssumption DEF NoPtr
<1>7. PICK from : from = s.sp
  OBVIOUS
<1>8. (~seen.failed /\ seen.sp = NoPtr) =>
        /\ Reading(Typed, seen.single, seen.double, from, s)
        /\ SplitTo(Typed, Cuts(Typed, seen.single, seen.double), from, arguments)
  <2>1. seen.single \in BOOLEAN /\ seen.double \in BOOLEAN
    BY <1>1 DEF ShellTypeOK
  <2> QED BY <1>1, <1>2, <1>3, <1>7, <2>1, TypedFacts DEF TokensOfLine, Reading
<1>9. \/ from = NoPtr /\ found = [state |-> s, token |-> NoPtr]
      \/ \E p : /\ SkipsTo(s, from, p) /\ s.mem[p] = NUL
                /\ found = [state |-> Exhausted(s), token |-> NoPtr]
      \/ /\ from \in 0 .. LineSize
         /\ \E p, end : /\ TokenFound(s, from, p, end)
                        /\ found = [state |-> AfterToken(s, p, end), token |-> p]
  <2>1. from = IF s.sp = NoPtr THEN NoPtr ELSE s.sp
    BY <1>7
  <2> QED BY <1>3, <1>4, <2>1, StrtokCases
<1>10. ASSUME found.token = NoPtr, found.state \in Tokenizers, found.state.sp = NoPtr,
              (~seen.failed /\ seen.sp = NoPtr) =>
                SplitTo(Typed, Cuts(Typed, seen.single, seen.double), Len(Typed), arguments)
       PROVE  ShellInv'
  <2>1. /\ pc' = "system" /\ UNCHANGED <<arguments, seen>> /\ Typed' = Typed
        /\ strtok_state' \in Tokenizers /\ strtok_state'.sp = NoPtr
    BY <1>1, <1>5, <1>10 DEF Typed
  <2>2. ShellTypeOK'
    BY <1>1, <2>1 DEF ShellTypeOK
  <2>3. SplitAtCuts'
    BY <1>10, <2>1 DEF SplitAtCuts
  <2> QED BY <1>3, <2>1, <2>2, <2>3 DEF ShellInv, LineOnScreen, TokenizerKept, TokenizerRuns,
                                        TokensOfLine
<1>11. CASE from = NoPtr /\ found = [state |-> s, token |-> NoPtr]
  <2>1. ~(~seen.failed /\ seen.sp = NoPtr)
    <3> SUFFICES ASSUME ~seen.failed /\ seen.sp = NoPtr
                 PROVE  FALSE
      OBVIOUS
    <3>1. PICK str : str = Typed
      OBVIOUS
    <3>2. str \in Seq(Nat) /\ NoPtr \in 0 .. Len(str)
      BY <1>8, <1>11, <3>1 DEF Reading, ReadTo
    <3> QED BY <3>2 DEF NoPtr
  <2> QED BY <1>3, <1>7, <1>10, <1>11, <2>1
<1>12. ASSUME NEW p, SkipsTo(s, from, p), s.mem[p] = NUL,
              found = [state |-> Exhausted(s), token |-> NoPtr]
       PROVE  ShellInv'
  <2>1. Exhausted(s) \in Tokenizers /\ Exhausted(s).sp = NoPtr
    BY <1>3, ExhaustedType
  <2>2. (~seen.failed /\ seen.sp = NoPtr) =>
          SplitTo(Typed, Cuts(Typed, seen.single, seen.double), Len(Typed), arguments)
    <3> SUFFICES ASSUME ~seen.failed /\ seen.sp = NoPtr
                 PROVE  SplitTo(Typed, Cuts(Typed, seen.single, seen.double), Len(Typed), arguments)
      OBVIOUS
    <3>1. PICK str, a, b, list : /\ str = Typed /\ a = seen.single /\ b = seen.double
                                 /\ list = arguments
      OBVIOUS
    <3>2. Reading(str, a, b, from, s) /\ SplitTo(str, Cuts(str, a, b), from, list)
      BY <1>8, <3>1
    <3>3. SplitTo(str, Cuts(str, a, b), Len(str), list)
      BY <1>12, <3>2, SplitAtEnd
    <3> QED BY <3>1, <3>3
  <2> QED BY <1>10, <1>12, <2>1, <2>2
<1>13. ASSUME from \in 0 .. LineSize, NEW p, NEW end, TokenFound(s, from, p, end),
              found = [state |-> AfterToken(s, p, end), token |-> p]
       PROVE  ShellInv'
  <2>1. NewArgument(found, "tokens", "system")
    <3>1. p \in 0 .. LineSize
      BY <1>3, <1>13, TokenType
    <3> QED BY <1>5, <1>6, <1>13, <3>1
  <2>2. "system" \in {"prompt", "system"} /\ arguments /= << >>
    BY <1>3
  <2> QED BY <1>1, <1>3, <1>5, <1>8, <1>13, <2>1, <2>2, ArgumentStep
<1> QED BY <1>9, <1>11, <1>12, <1>13

\* The program runs and ends.
LEMMA SystemStep ==
  ASSUME ShellInv, liebeos_system
  PROVE  ShellInv'
<1>1. /\ ShellTypeOK /\ TokenizerRuns /\ pc = "system" /\ pc' = "prompt"
      /\ UNCHANGED <<line, length, strtok_state, arguments, seen>>
      /\ \/ term' = Echo(term, process_inject_arguments(arguments))
         \/ term' = term
  BY DEF ShellInv, liebeos_system
<1>2. term \in Terminals /\ arguments \in Seq(Seq(Nat)) /\ arguments /= << >>
  BY <1>1 DEF ShellTypeOK, TokenizerRuns
<1>3. term' \in Terminals
  BY <1>1, <1>2, EchoType
<1>4. ShellTypeOK'
  BY <1>1, <1>3 DEF ShellTypeOK
<1> QED BY <1>1, <1>4 DEF ShellInv, LineOnScreen, TokenizerKept, TokenizerRuns, TokensOfLine,
                          SplitAtCuts

LEMMA NextPreservesShellInv == ShellInv /\ [ShellNext]_shellvars => ShellInv'
<1> SUFFICES ASSUME ShellInv, [ShellNext]_shellvars PROVE ShellInv'
  OBVIOUS
<1>1. ASSUME UNCHANGED shellvars PROVE ShellInv'
  BY <1>1 DEF shellvars, ShellInv, ShellTypeOK, LineOnScreen, TokenizerKept, TokenizerRuns,
              TokensOfLine, SplitAtCuts, Typed
<1>2. CASE shell
  BY <1>2, PromptStep
<1>3. CASE \E c \in Keys : liebeos_terminal_readline(c)
  BY <1>3, ReadlineStep
<1>4. CASE liebeos_parse_command
  BY <1>4, ParseStep
<1>5. CASE next_token
  BY <1>5, TokenStep
<1>6. CASE liebeos_system
  BY <1>6, SystemStep
<1>7. CASE Done
  BY <1>1, <1>7 DEF Done
<1> QED BY <1>1, <1>2, <1>3, <1>4, <1>5, <1>6, <1>7 DEF ShellNext

\* The inductive invariant of the shell: the types, with the terminator at the end
\* of both buffers, the line on the screen, where strtok stands and which part of
\* the line its arguments are.
THEOREM ShellInvariant == ShellSpec => []ShellInv
<1>1. ShellInit => ShellInv
  BY InitEstablishesShellInv
<1>2. ShellInv /\ [ShellNext]_shellvars => ShellInv'
  BY NextPreservesShellInv
<1> QED BY <1>1, <1>2, PTL DEF ShellSpec

\* However long the line, wherever on the screen it begins and however often it is
\* wrapped and erased over the edge, what liebeos_terminal_readline has in its
\* buffer is what terminal_writechar has put on the screen.
THEOREM LineStaysOnScreen == ShellSpec => []LineOnScreen
<1>1. ShellInv => LineOnScreen
  BY DEF ShellInv
<1> QED BY <1>1, ShellInvariant, PTL

\* For a buffer of every size and every line: strtok has given its pointer back
\* when the shell prompts, unless malloc failed in the middle of the line.
THEOREM TokenizerComesToRest == ShellSpec => []TokenizerRests
<1>1. ShellInv => TokenizerRests
  BY DEF ShellInv, TokenizerRuns, TokenizerRests
<1> QED BY <1>1, ShellInvariant, PTL

\* For every line of characters of every kind, whatever quotes the lines before it
\* left open: the list liebeos_parse_command makes is the line split at blanks, in
\* order and with no other character lost, and at all its blanks if a quote is
\* open at each.
THEOREM LineIsSplitAtBlanks == ShellSpec => []ArgumentsOfLine
<1>1. ShellInv => ArgumentsOfLine
  <2> SUFFICES ASSUME ShellInv, pc = "system", ~seen.failed, seen.sp = NoPtr
               PROVE  \E cuts \in SUBSET Blanks(Typed) :
                        /\ SplitTo(Typed, cuts, Len(Typed), arguments)
                        /\ BlanksAreQuoted(Typed, seen.single, seen.double) => cuts = Blanks(Typed)
    BY DEF ArgumentsOfLine
  <2>1. PICK str, a, b, list : /\ str = Typed /\ a = seen.single /\ b = seen.double
                               /\ list = arguments
    OBVIOUS
  <2>2. SplitTo(str, Cuts(str, a, b), Len(str), list)
    BY <2>1 DEF ShellInv, SplitAtCuts
  <2>3. str \in Seq(Nat)
    BY <2>1, TypedFacts DEF ShellInv
  <2>4. Cuts(str, a, b) \in SUBSET Blanks(str)
    BY DEF Cuts, Cut, Blanks
  <2>5. CASE ~BlanksAreQuoted(str, a, b)
    BY <2>1, <2>2, <2>4, <2>5
  <2>6. CASE BlanksAreQuoted(str, a, b)
    <3>1. SplitTo(str, Blanks(str), Len(str), list)
      BY <2>2, <2>3, <2>6, QuotedBlanks
    <3> QED BY <2>1, <3>1
  <2> QED BY <2>5, <2>6
<1> QED BY <1>1, ShellInvariant, PTL

\* For every name that is typed: pathparser_parse of the path made of it gives the
\* names between its slashes, and no character is lost but a slash at its end.
THEOREM PathIsItsParts == ShellSpec => []PartsJoinToPath
<1>1. ShellInv => PartsJoinToPath
  <2> SUFFICES ASSUME ShellInv, pc = "system"
               PROVE  PartsJoinToPath
    BY DEF PartsJoinToPath
  <2>1. arguments \in Seq(Seq(Nat)) /\ arguments /= << >>
    BY DEF ShellInv, ShellTypeOK, TokenizerRuns
  <2>2. PICK name : name = Head(arguments)
    OBVIOUS
  <2>3. name \in Seq(Nat)
    <3>1. PICK W : W = Seq(Nat)
      OBVIOUS
    <3>2. arguments \in Seq(W)
      BY <2>1, <3>1
    <3>3. Head(arguments) \in W
      BY <2>1, <3>2
    <3> QED BY <2>2, <3>1, <3>3
  <2>4. LET parts == pathparser_parse(PathOf(name)).parts
        IN  /\ \A k \in DOMAIN parts : \A j \in DOMAIN parts[k] : parts[k][j] /= Slash
            /\ Joined(parts) = WithoutEndSlash(name)
    BY <2>3, PathParsesBack
  <2> QED BY <2>2, <2>4, Zenon DEF PartsJoinToPath
<1> QED BY <1>1, ShellInvariant, PTL
=============================================================================
