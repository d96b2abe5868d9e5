-------------------------------- MODULE Heap --------------------------------
(***************************************************************************)
(* The kernel heap (src/memory/heap/heap.c, kheap.c): a table with one byte *)
(* per 4096-byte block, first-fit allocation of runs of blocks, and a free  *)
(* that follows the "has next" bits from the first block of a run.          *)
(*                                                                         *)
(* Addresses are counted in blocks: HeapStart is LIEBE_OS_HEAP_ADDRESS /    *)
(* LIEBE_OS_HEAP_BLOCK_SIZE and the null pointer is address 0.  The bytes   *)
(* around the table that the C code can reach through an index below 0 or   *)
(* at and above table->total are part of the state: `entries' is the memory *)
(* window seen through kernel_heap_table.entries, not only the table.       *)
(***************************************************************************)
EXTENDS Integers

CONSTANTS
  Total,      \* table->total: number of blocks of the heap
  BlockSize,  \* LIEBE_OS_HEAP_BLOCK_SIZE
  WordSize,   \* 2^32, the range of the uint32_t arithmetic on sizes
  HeapStart,  \* address of block 0, in blocks
  Spill,      \* number of bytes after the table the model keeps
  Sizes       \* sizes in bytes the kernel asks for

ASSUME HeapAssumption ==
  /\ Total \in Nat \ {0}
  /\ BlockSize \in Nat \ {0}
  /\ WordSize \in Nat \ {0}
  /\ HeapStart \in Nat \ {0}
  /\ Spill \in Nat
  /\ Sizes \subseteq 0 .. (WordSize - 1)

VARIABLES
  entries,  \* the bytes of the table and around it, as sets of flag bits
  live      \* pointers returned by kmalloc and not yet passed to kfree

vars == <<entries, live>>

TAKEN == "taken"        \* HEAP_BLOCK_TABLE_ENTRY_TAKEN
IS_FIRST == "first"     \* HEAP_BLOCK_IS_FIRST
HAS_NEXT == "next"      \* HEAP_BLOCK_HAS_NEXT
Flags == {TAKEN, IS_FIRST, HAS_NEXT}
FREE == {}              \* HEAP_BLOCK_TABLE_ENTRY_FREE

ENOMEM == 3

Table == 0 .. (Total - 1)
Below == (-HeapStart) .. (-1)
Window == (-HeapStart) .. (Total + Spill - 1)
-----------------------------------------------------------------------------
(* Conversions between sizes, blocks and addresses. *)

\* The next multiple of BlockSize, in 32-bit arithmetic: a size within one
\* block of the top of the range wraps round to 0.
heap_align_value_to_upper(val) ==
  IF val % BlockSize = 0
    THEN val
    ELSE (val - (val % BlockSize) + BlockSize) % WordSize

TotalBlocks(size) == heap_align_value_to_upper(size) \div BlockSize

\* The bytes kept after the table are all the largest request can reach.
ASSUME SpillAssumption == \A size \in Sizes : TotalBlocks(size) <= Spill

heap_block_to_address(block) == HeapStart + block

\* Mutant: an address below the pool is clamped to its first block.
heap_address_to_block_clamped(address) ==
  IF address < HeapStart THEN 0 ELSE address - HeapStart

heap_address_to_block(address) == address - HeapStart

\* The table indices of a region handed out.
RegionBlocks(r) ==
  heap_address_to_block(r.ptr) .. (heap_address_to_block(r.ptr) + r.blocks - 1)
-----------------------------------------------------------------------------
(* The search for a run of free blocks. *)

Taken(t, i) == TAKEN \in t[i]

\* A run of n free blocks of the table starts at i.
Fits(t, n, i) ==
  /\ n > 0
  /\ i + n <= Total
  /\ \A k \in i .. (i + n - 1) : ~Taken(t, k)

\* Mutant: the search does not stop at the first run that fits.
LastFit(t, n, i) ==
  Fits(t, n, i) /\ \A j \in (i + 1) .. (Total - 1) : ~Fits(t, n, j)

FirstFit(t, n, i) == Fits(t, n, i) /\ \A j \in 0 .. (i - 1) : ~Fits(t, n, j)

\* The free blocks at the end of the table start at i.
TrailingRun(t, i) ==
  /\ \A k \in i .. (Total - 1) : ~Taken(t, k)
  /\ i > 0 => Taken(t, i - 1)

\* The result of the scan.  When no run is long enough the loop ends with
\* block_start at the start of the trailing free run, whatever its length,
\* and that is what is returned; a request of 0 blocks always ends there.
heap_get_start_block(t, n) ==
  IF \E i \in Table : FirstFit(t, n, i)
    THEN CHOOSE i \in Table : FirstFit(t, n, i)
    ELSE IF \E i \in Table : TrailingRun(t, i)
           THEN CHOOSE i \in Table : TrailingRun(t, i)
           ELSE -ENOMEM

\* One turn of the loop of the source, for block i - 1, with block_count and
\* block_start.  The loop is left once block_count is the number asked for.
ScanTurn(t, n, i, s) ==
  IF n > 0 /\ s.count = n THEN s
  ELSE IF Taken(t, i - 1) THEN [count |-> 0, start |-> -1]
  ELSE [count |-> s.count + 1, start |-> IF s.start = -1 THEN i - 1 ELSE s.start]

\* The same search as the loop of the source.
ScanLoop(t, n) ==
  LET scan[i \in 0 .. Total] ==
        IF i = 0 THEN [count |-> 0, start |-> -1] ELSE ScanTurn(t, n, i, scan[i - 1])
  IN  IF scan[Total].start = -1 THEN -ENOMEM ELSE scan[Total].start
-----------------------------------------------------------------------------
(* Updates of the table. *)

\* Mutant: `i != end_block' instead of `i != end_block - 1', so that the last
\* block of a run longer than one block still claims a successor.
ChainEntryOffByOne(s, n, k) ==
  {TAKEN} \cup (IF k = s THEN {IS_FIRST} ELSE {})
          \cup (IF n > 1 THEN {HAS_NEXT} ELSE {})

\* The byte written for block k of a run of n blocks that starts at s.
ChainEntry(s, n, k) ==
  {TAKEN} \cup (IF k = s THEN {IS_FIRST} ELSE {})
          \cup (IF k /= s + n - 1 THEN {HAS_NEXT} ELSE {})

\* Mutant: end_block is one too small.
heap_mark_blocks_taken_short(t, s, n) ==
  [k \in Window |-> IF k \in s .. (s + n - 2) THEN ChainEntry(s, n, k) ELSE t[k]]

heap_mark_blocks_taken(t, s, n) ==
  [k \in Window |-> IF k \in s .. (s + n - 1) THEN ChainEntry(s, n, k) ELSE t[k]]

\* Mutant: the loop leaves before it clears the last block of the run.
ChainStopsEarly(t, s) ==
  {k \in s .. (Total - 1) : \A j \in s .. k : HAS_NEXT \in t[j]}

\* The indices the freeing loop visits: up to and including the first one
\* without the "has next" bit, and never past the end of the table.
Chain(t, s) ==
  {k \in s .. (Total - 1) : \A j \in s .. (k - 1) : HAS_NEXT \in t[j]}

heap_mark_blocks_free(t, s) ==
  [k \in Window |-> IF k \in Chain(t, s) THEN FREE ELSE t[k]]
-----------------------------------------------------------------------------
(* heap_create clears the table.  What the bytes below it hold is left over *)
(* from the boot: anything, except that the boot sector image, which lies   *)
(* there, holds at least one byte without the "has next" bit.               *)
Init ==
  /\ \E leftover \in [Below -> SUBSET Flags] :
       /\ \E k \in Below : HAS_NEXT \notin leftover[k]
       /\ entries = [k \in Window |-> IF k \in Below THEN leftover[k] ELSE FREE]
  /\ live = {}

\* kmalloc / heap_malloc / heap_malloc_blocks.
kmalloc(size) ==
  LET n == TotalBlocks(size)
      s == heap_get_start_block(entries, n)
  IN  IF s < 0
        THEN UNCHANGED vars
        ELSE /\ entries' = heap_mark_blocks_taken(entries, s, n)
             /\ live' = live \cup {[ptr |-> heap_block_to_address(s), blocks |-> n]}

\* kfree / heap_free of a pointer kmalloc returned.
kfree(r) ==
  /\ entries' = heap_mark_blocks_free(entries, heap_address_to_block(r.ptr))
  /\ live' = live \ {r}

\* kfree(0): process_terminate_allocations frees every slot of the process's
\* allocation table, the empty ones included, and process_free passes on a
\* null pointer.  The loop runs over the bytes below the table.
kfree_null ==
  /\ entries' = heap_mark_blocks_free(entries, heap_address_to_block(0))
  /\ UNCHANGED live

Next ==
  \/ \E size \in Sizes : kmalloc(size)
  \/ \E r \in live : kfree(r)
  \/ kfree_null

Spec == Init /\ [][Next]_vars
-----------------------------------------------------------------------------
(* Properties. *)

\* A request never comes down to 0 blocks.  The kernel does not check this;
\* it is the assumption under which the properties below hold.
NonEmptyRequests == \A size \in Sizes : TotalBlocks(size) > 0

\* Every pointer handed out lies in the pool and stands for at least a block.
TypeOK ==
  /\ entries \in [Window -> SUBSET Flags]
  /\ live \subseteq [ptr : HeapStart .. (HeapStart + Total - 1), blocks : 1 .. Spill]

\* No block, of the pool or after it, belongs to two regions in use.
Disjoint ==
  \A a, b \in live : a /= b => RegionBlocks(a) \cap RegionBlocks(b) = {}

\* A block of the table is marked taken exactly when a region in use holds it:
\* kmalloc followed by kfree in any order loses no block and frees none twice.
TableMatchesLive ==
  \A k \in Table : Taken(entries, k) <=> \E r \in live : k \in RegionBlocks(r)

\* The table spells the length of every region in use: following "has next"
\* from its first block visits the blocks of the region and no other, which is
\* all heap_mark_blocks_free knows when it is given a pointer.
ChainsSpellRegions ==
  \A r \in live :
    Chain(entries, heap_address_to_block(r.ptr)) = RegionBlocks(r) \cap Table

\* Freeing a region clears its blocks and leaves every other byte of the table
\* as it was.
FreeExact ==
  [][\A r \in live \ live' : \A k \in Table :
       entries'[k] = IF k \in RegionBlocks(r) THEN FREE ELSE entries[k]]_vars

\* A call that hands out and takes back nothing (kfree(0), a failed request)
\* leaves the table alone: kfree(0) wanders below the table and stops there.
NullFreeHarmless ==
  [][live' = live => \A k \in Table : entries'[k] = entries[k]]_vars

\* The search described by its result is the loop of the source, for every
\* table the heap can be in and every request, 0 and too large ones included.
ScanIsLoop ==
  \A n \in 0 .. (Total + 1) :
    heap_get_start_block(entries, n) = ScanLoop(entries, n)

\* The heap implements the abstract allocator.
Abstract ==
  INSTANCE Allocator WITH
    Addresses <- HeapStart .. (HeapStart + Total - 1),
    BlockCounts <- 1 .. Spill

\* Every step of the block table is a step the abstract allocator allows.
ImplementsAllocator == Abstract!Spec

\* The inductive strengthening.  Disjointness alone is not inductive: kfree is
\* given only a first block, so every byte of a run has to be the one
\* heap_mark_blocks_taken wrote, and one byte below the table has to stop
\* kfree(0) before it walks into block 0.
BytesOfRegions ==
  \A r \in live : \A k \in RegionBlocks(r) \cap Table :
    entries[k] = ChainEntry(heap_address_to_block(r.ptr), r.blocks, k)

StopByteBelow == \E k \in Below : HAS_NEXT \notin entries[k]

HeapInv ==
  TypeOK /\ Disjoint /\ TableMatchesLive /\ BytesOfRegions /\ StopByteBelow

\* What heap_get_start_block is documented to return: the start of a run of the
\* requested size on the heap table.
RegionsInPool == \A r \in live : RegionBlocks(r) \subseteq Table
=============================================================================
