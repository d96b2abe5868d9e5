------------------------------ MODULE Allocator ------------------------------
(***************************************************************************)
(* What the kernel expects of kmalloc and kfree, whatever the block table   *)
(* behind them: a region handed out shares no block with a region that is   *)
(* still in use, a request may fail, and freeing a region releases that     *)
(* region and nothing else.  The module Heap implements this specification. *)
(***************************************************************************)
EXTENDS Integers

CONSTANTS
  Addresses,    \* addresses a region may start at, counted in blocks
  BlockCounts   \* sizes of the regions asked for, in blocks

VARIABLE live   \* the regions handed out and not yet freed

Regions == [ptr : Addresses, blocks : BlockCounts]

\* The blocks of memory a region occupies.
BlocksOf(r) == r.ptr .. (r.ptr + r.blocks - 1)

Init == live = {}

\* A successful request hands out a region that overlaps none in use.
Malloc ==
  \E r \in Regions :
    /\ \A a \in live : BlocksOf(a) \cap BlocksOf(r) = {}
    /\ live' = live \cup {r}

Free == \E r \in live : live' = live \ {r}

Next == Malloc \/ Free

Spec == Init /\ [][Next]_live
=============================================================================
