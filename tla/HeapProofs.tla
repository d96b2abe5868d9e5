----------------------------- MODULE HeapProofs -----------------------------
(***************************************************************************)
(* Proofs about the kernel heap, for every number of blocks, block size and *)
(* set of requests, as long as no request comes down to 0 blocks.           *)
(***************************************************************************)
EXTENDS Heap, NaturalNumbers

\* A request of at least one block is placed at a block of the table, and no
\* block of the table it covers was taken, also when it runs past the end.
LEMMA StartBlockIsFree ==
  ASSUME NEW t, NEW n \in Nat \ {0}, heap_get_start_block(t, n) >= 0
  PROVE  /\ heap_get_start_block(t, n) \in Table
         /\ \A k \in Table :
              k \in heap_get_start_block(t, n) .. (heap_get_start_block(t, n) + n - 1)
                => ~Taken(t, k)
<1> DEFINE s == heap_get_start_block(t, n)
<1>1. CASE \E i \in Table : FirstFit(t, n, i)
  <2>1. s = CHOOSE i \in Table : FirstFit(t, n, i)
    BY <1>1 DEF heap_get_start_block
  <2>2. s \in Table /\ FirstFit(t, n, s)
    BY <1>1, <2>1
  <2> QED BY <2>2 DEF FirstFit, Fits
<1>2. CASE ~(\E i \in Table : FirstFit(t, n, i)) /\ \E i \in Table : TrailingRun(t, i)
  <2>1. s = CHOOSE i \in Table : TrailingRun(t, i)
    BY <1>2 DEF heap_get_start_block
  <2>2. s \in Table /\ TrailingRun(t, s)
    BY <1>2, <2>1
  <2> QED BY <2>2, HeapAssumption DEF TrailingRun, Table
<1>3. CASE ~(\E i \in Table : FirstFit(t, n, i)) /\ ~(\E i \in Table : TrailingRun(t, i))
  <2>1. s = -ENOMEM
    BY <1>3 DEF heap_get_start_block
  <2> QED BY <2>1 DEF ENOMEM
<1> QED BY <1>1, <1>2, <1>3

\* The search returns a block of the table or the error code.
LEMMA StartBlockIsInteger ==
  ASSUME NEW t, NEW n
  PROVE  heap_get_start_block(t, n) \in Int
<1>1. CASE \E i \in Table : FirstFit(t, n, i)
  BY <1>1, HeapAssumption DEF heap_get_start_block, Table
<1>2. CASE ~(\E i \in Table : FirstFit(t, n, i)) /\ \E i \in Table : TrailingRun(t, i)
  BY <1>2, HeapAssumption DEF heap_get_start_block, Table
<1>3. CASE ~(\E i \in Table : FirstFit(t, n, i)) /\ ~(\E i \in Table : TrailingRun(t, i))
  BY <1>3 DEF heap_get_start_block, ENOMEM
<1> QED BY <1>1, <1>2, <1>3

\* The bytes of a region lead the freeing loop over exactly its own blocks.
LEMMA ChainOfRegion ==
  ASSUME NEW r \in live, TypeOK, BytesOfRegions
  PROVE  Chain(entries, heap_address_to_block(r.ptr)) = RegionBlocks(r) \cap Table
<1> DEFINE s == heap_address_to_block(r.ptr)
           e == s + r.blocks - 1
<1>1. s \in Table /\ r.blocks \in Nat \ {0} /\ s \in Int /\ e \in Int /\ s <= e
  BY HeapAssumption DEF TypeOK, Table, heap_address_to_block
<1>2. RegionBlocks(r) = s .. e
  BY DEF RegionBlocks
<1>3. \A k \in s .. e : k \in Table => (HAS_NEXT \in entries[k] <=> k /= e)
  BY <1>1, <1>2 DEF BytesOfRegions, ChainEntry, TAKEN, IS_FIRST, HAS_NEXT
<1>4. ASSUME NEW k \in Chain(entries, s)
      PROVE  k \in s .. e /\ k \in Table
  <2>1. k \in s .. (Total - 1) /\ \A j \in s .. (k - 1) : HAS_NEXT \in entries[j]
    BY <1>4 DEF Chain
  <2>2. k \in Table
    BY <2>1, <1>1, HeapAssumption DEF Table
  <2>3. ASSUME k > e PROVE FALSE
    <3>1. e \in s .. (k - 1) /\ e \in s .. e /\ e \in Table
      BY <2>3, <2>1, <1>1, HeapAssumption DEF Table
    <3> QED BY <3>1, <2>1, <1>3
  <2> QED BY <2>1, <2>2, <2>3, <1>1
<1>5. ASSUME NEW k \in s .. e, k \in Table
      PROVE  k \in Chain(entries, s)
  <2>1. k \in s .. (Total - 1)
    BY <1>5, <1>1, HeapAssumption DEF Table
  <2>2. ASSUME NEW j \in s .. (k - 1) PROVE HAS_NEXT \in entries[j]
    <3>1. j \in s .. e /\ j \in Table /\ j /= e
      BY <1>5, <1>1, HeapAssumption DEF Table
    <3> QED BY <3>1, <1>3
  <2> QED BY <2>1, <2>2 DEF Chain
<1> QED BY <1>2, <1>4, <1>5

\* The byte below the table keeps kfree(0) away from the table.
LEMMA NullChainBelow ==
  ASSUME TypeOK, StopByteBelow
  PROVE  \A k \in Table : k \notin Chain(entries, heap_address_to_block(0))
<1>1. heap_address_to_block(0) = -HeapStart
  BY HeapAssumption DEF heap_address_to_block
<1>2. PICK b \in Below : HAS_NEXT \notin entries[b]
  BY DEF StopByteBelow
<1>3. \A k \in Table : b \in (-HeapStart) .. (k - 1)
  BY <1>2, HeapAssumption DEF Below, Table
<1> QED BY <1>1, <1>2, <1>3 DEF Chain

LEMMA InitEstablishesHeapInv == Init => HeapInv
<1> SUFFICES ASSUME Init PROVE HeapInv
  OBVIOUS
<1>1. PICK leftover \in [Below -> SUBSET Flags] :
         /\ \E k \in Below : HAS_NEXT \notin leftover[k]
         /\ entries = [k \in Window |-> IF k \in Below THEN leftover[k] ELSE FREE]
  BY DEF Init
<1>2. live = {}
  BY DEF Init
<1>3. \A k \in Below : k \in Window
  BY HeapAssumption DEF Below, Window
<1>4. \A k \in Table : k \in Window /\ k \notin Below
  BY HeapAssumption DEF Below, Window, Table
<1>5. TypeOK
  BY <1>1, <1>2 DEF TypeOK, FREE
<1>6. TableMatchesLive
  BY <1>1, <1>2, <1>4 DEF TableMatchesLive, Taken, FREE
<1>7. StopByteBelow
  BY <1>1, <1>3 DEF StopByteBelow
<1> QED BY <1>2, <1>5, <1>6, <1>7 DEF HeapInv, Disjoint, BytesOfRegions

\* A request that is granted: where it lies, and that no region in use shares a
\* block with it.  A region that runs past the table covers its last block, so
\* two of them meet inside the table too.
LEMMA GrantedRegion ==
  ASSUME HeapInv, NonEmptyRequests, NEW size \in Sizes,
         heap_get_start_block(entries, TotalBlocks(size)) >= 0
  PROVE  LET n == TotalBlocks(size)
             s == heap_get_start_block(entries, n)
             r == [ptr |-> heap_block_to_address(s), blocks |-> n]
         IN  /\ s \in Table
             /\ n \in 1 .. Spill
             /\ r \in [ptr : HeapStart .. (HeapStart + Total - 1), blocks : 1 .. Spill]
             /\ RegionBlocks(r) = s .. (s + n - 1)
             /\ heap_address_to_block(r.ptr) = s
             /\ \A k \in Table : k \in RegionBlocks(r) => ~Taken(entries, k)
             /\ \A a \in live : RegionBlocks(a) \cap RegionBlocks(r) = {}
<1> DEFINE n == TotalBlocks(size)
           s == heap_get_start_block(entries, n)
           r == [ptr |-> heap_block_to_address(s), blocks |-> n]
<1>1. n \in 1 .. Spill
  <2>1. heap_align_value_to_upper(size) \in Int
    BY HeapAssumption DEF heap_align_value_to_upper
  <2>2. n \in Int
    BY <2>1, HeapAssumption DEF TotalBlocks
  <2> QED BY <2>2, HeapAssumption, SpillAssumption DEF NonEmptyRequests
<1>2. s \in Table /\ \A k \in Table : k \in s .. (s + n - 1) => ~Taken(entries, k)
  BY <1>1, StartBlockIsFree
<1> HIDE DEF n, s
<1>3. heap_address_to_block(r.ptr) = s
  BY <1>2, HeapAssumption DEF heap_address_to_block, heap_block_to_address, Table
<1>4. RegionBlocks(r) = s .. (s + n - 1)
  BY <1>3 DEF RegionBlocks
<1>5. r \in [ptr : HeapStart .. (HeapStart + Total - 1), blocks : 1 .. Spill]
  BY <1>1, <1>2, HeapAssumption DEF heap_block_to_address, Table
<1>6. ASSUME NEW a \in live, NEW k \in RegionBlocks(a), k \in RegionBlocks(r)
      PROVE  FALSE
  <2> DEFINE sa == heap_address_to_block(a.ptr)
  <2>1. sa \in Table /\ a.blocks \in Nat /\ RegionBlocks(a) = sa .. (sa + a.blocks - 1)
    BY HeapAssumption DEF HeapInv, TypeOK, RegionBlocks, heap_address_to_block, Table
  <2>2. CASE k \in Table
    BY <2>2, <1>6, <1>2, <1>4 DEF HeapInv, TableMatchesLive
  <2>3. CASE k \notin Table
    <3>1. Total - 1 \in Table /\ Total - 1 \in RegionBlocks(a) /\ Total - 1 \in s .. (s + n - 1)
      BY <2>1, <2>3, <1>1, <1>2, <1>4, <1>6, HeapAssumption DEF Table
    <3> QED BY <3>1, <1>2 DEF HeapInv, TableMatchesLive
  <2> QED BY <2>2, <2>3
<1> QED BY <1>1, <1>2, <1>3, <1>4, <1>5, <1>6 DEF n, s

\* kmalloc keeps the invariant: the new run only writes blocks nobody holds.
LEMMA kmallocPreservesHeapInv ==
  ASSUME HeapInv, NonEmptyRequests, NEW size \in Sizes, kmalloc(size)
  PROVE  HeapInv'
<1> DEFINE n == TotalBlocks(size)
           s == heap_get_start_block(entries, n)
           r == [ptr |-> heap_block_to_address(s), blocks |-> n]
<1>1. CASE s < 0
  <2>1. UNCHANGED vars
    BY <1>1 DEF kmalloc
  <2> QED BY <2>1 DEF vars, HeapInv, TypeOK, Disjoint, TableMatchesLive, Taken,
                      BytesOfRegions, StopByteBelow
<1>2. CASE s >= 0
  <2>1. /\ s \in Table /\ n \in 1 .. Spill
        /\ r \in [ptr : HeapStart .. (HeapStart + Total - 1), blocks : 1 .. Spill]
        /\ RegionBlocks(r) = s .. (s + n - 1)
        /\ heap_address_to_block(r.ptr) = s
        /\ \A k \in Table : k \in RegionBlocks(r) => ~Taken(entries, k)
        /\ \A a \in live : RegionBlocks(a) \cap RegionBlocks(r) = {}
    BY <1>2, GrantedRegion
  <2>2. entries' = heap_mark_blocks_taken(entries, s, n) /\ live' = live \cup {r}
    <3> HIDE DEF n
    <3>1. ~(s < 0)
      BY <2>1, HeapAssumption DEF Table
    <3> QED BY <3>1 DEF kmalloc, n
  <2> HIDE DEF n, s, r
  <2>3. \A k \in Window : entries'[k] = IF k \in RegionBlocks(r) THEN ChainEntry(s, n, k)
                                                                ELSE entries[k]
    BY <2>1, <2>2 DEF heap_mark_blocks_taken
  <2>4. Table \subseteq Window /\ Below \subseteq Window /\ Below \cap RegionBlocks(r) = {}
    BY <2>1, HeapAssumption DEF Table, Window, Below
  <2>5. TypeOK'
    <3>1. \A k : ChainEntry(s, n, k) \in SUBSET Flags
      BY DEF ChainEntry, Flags
    <3>2. entries' \in [Window -> SUBSET Flags]
      BY <3>1, <2>2 DEF heap_mark_blocks_taken, HeapInv, TypeOK
    <3> QED BY <3>2, <2>1, <2>2 DEF HeapInv, TypeOK
  <2>6. Disjoint'
    BY <2>1, <2>2 DEF HeapInv, Disjoint, RegionBlocks
  <2>7. TableMatchesLive'
    <3>1. \A k : TAKEN \in ChainEntry(s, n, k)
      BY DEF ChainEntry
    <3> QED BY <3>1, <2>2, <2>3, <2>4 DEF HeapInv, TableMatchesLive, Taken, RegionBlocks
  <2>8. BytesOfRegions'
    <3>1. r.blocks = n
      BY DEF r
    <3>2. ASSUME NEW a \in live', NEW k \in RegionBlocks(a) \cap Table
          PROVE  entries'[k] = ChainEntry(heap_address_to_block(a.ptr), a.blocks, k)
      <4>1. CASE a = r
        BY <4>1, <3>1, <2>1, <2>3, <2>4
      <4>2. CASE a \in live
        <5>1. k \notin RegionBlocks(r) /\ k \in Window
          BY <4>2, <2>1, <2>4
        <5> QED BY <5>1, <4>2, <2>3 DEF HeapInv, BytesOfRegions
      <4> QED BY <4>1, <4>2, <2>2
    <3> QED BY <3>2 DEF BytesOfRegions, RegionBlocks
  <2>9. StopByteBelow'
    BY <2>3, <2>4 DEF HeapInv, StopByteBelow
  <2> QED BY <2>5, <2>6, <2>7, <2>8, <2>9 DEF HeapInv
<1>3. s \in Int
  BY StartBlockIsInteger
<1> QED BY <1>1, <1>2, <1>3

\* kfree keeps the invariant: the loop clears the blocks of the region it was
\* given and no block of another one.
LEMMA kfreePreservesHeapInv ==
  ASSUME HeapInv, NEW r \in live, kfree(r)
  PROVE  HeapInv'
<1> DEFINE s == heap_address_to_block(r.ptr)
<1>1. Chain(entries, s) = RegionBlocks(r) \cap Table
  BY ChainOfRegion DEF HeapInv
<1>2. live' = live \ {r}
  BY DEF kfree
<1>3. Table \subseteq Window /\ Below \subseteq Window /\ Below \cap Table = {}
  BY HeapAssumption DEF Table, Window, Below
<1>4. entries' = [k \in Window |-> IF k \in RegionBlocks(r) /\ k \in Table
                                   THEN FREE ELSE entries[k]]
  BY <1>1 DEF kfree, heap_mark_blocks_free
<1>5. \A k \in Window : entries'[k] = IF k \in RegionBlocks(r) /\ k \in Table
                                      THEN FREE ELSE entries[k]
  BY <1>4
<1>6. TypeOK'
  BY <1>2, <1>4 DEF HeapInv, TypeOK, FREE
<1>7. Disjoint'
  BY <1>2 DEF HeapInv, Disjoint, RegionBlocks
<1>8. TableMatchesLive'
  <2>1. ASSUME NEW k \in Table
        PROVE  Taken(entries', k) <=> \E a \in live' : k \in RegionBlocks(a)
    <3>1. CASE k \in RegionBlocks(r)
      <4>1. ~Taken(entries', k)
        BY <3>1, <1>3, <1>5 DEF Taken, FREE
      <4>2. \A a \in live' : k \notin RegionBlocks(a)
        BY <3>1, <1>2 DEF HeapInv, Disjoint
      <4> QED BY <4>1, <4>2
    <3>2. CASE k \notin RegionBlocks(r)
      BY <3>2, <1>2, <1>3, <1>5 DEF HeapInv, TableMatchesLive, Taken
    <3> QED BY <3>1, <3>2
  <2> QED BY <2>1 DEF TableMatchesLive, RegionBlocks
<1>9. BytesOfRegions'
  <2>1. ASSUME NEW a \in live', NEW k \in RegionBlocks(a) \cap Table
        PROVE  entries'[k] = ChainEntry(heap_address_to_block(a.ptr), a.blocks, k)
    <3>1. a \in live /\ k \notin RegionBlocks(r)
      BY <1>2 DEF HeapInv, Disjoint
    <3> QED BY <3>1, <1>3, <1>5 DEF HeapInv, BytesOfRegions
  <2> QED BY <2>1 DEF BytesOfRegions, RegionBlocks
<1>10. StopByteBelow'
  <2>1. \A k \in Below : entries'[k] = entries[k]
    BY <1>3, <1>5
  <2> QED BY <2>1 DEF HeapInv, StopByteBelow
<1> QED BY <1>6, <1>7, <1>8, <1>9, <1>10 DEF HeapInv

\* kfree(0) leaves the table as it was.
LEMMA kfree_nullLeavesTable ==
  ASSUME TypeOK, StopByteBelow, kfree_null
  PROVE  \A k \in Table : entries'[k] = entries[k]
<1>1. Table \subseteq Window
  BY HeapAssumption DEF Table, Window
<1> QED BY <1>1, NullChainBelow DEF kfree_null, heap_mark_blocks_free

\* kfree(0) keeps the invariant: the bytes it clears below the table stop the
\* next kfree(0) too.
LEMMA kfree_nullPreservesHeapInv ==
  ASSUME HeapInv, kfree_null
  PROVE  HeapInv'
<1>1. \A k \in Table : entries'[k] = entries[k]
  BY kfree_nullLeavesTable DEF HeapInv
<1>2. live' = live
  BY DEF kfree_null
<1>3. TypeOK'
  BY <1>2 DEF HeapInv, TypeOK, kfree_null, heap_mark_blocks_free, FREE
<1>4. Disjoint'
  BY <1>2 DEF HeapInv, Disjoint, RegionBlocks
<1>5. TableMatchesLive'
  BY <1>1, <1>2 DEF HeapInv, TableMatchesLive, Taken, RegionBlocks
<1>6. BytesOfRegions'
  BY <1>1, <1>2 DEF HeapInv, BytesOfRegions, RegionBlocks
<1>7. StopByteBelow'
  <2>1. PICK b \in Below : HAS_NEXT \notin entries[b]
    BY DEF HeapInv, StopByteBelow
  <2>2. b \in Window
    BY <2>1, HeapAssumption DEF Below, Window
  <2>3. entries'[b] = FREE \/ entries'[b] = entries[b]
    BY <2>2 DEF kfree_null, heap_mark_blocks_free
  <2> QED BY <2>1, <2>3 DEF StopByteBelow, FREE
<1> QED BY <1>3, <1>4, <1>5, <1>6, <1>7 DEF HeapInv

\* The three operations of the heap, and a stuttering step, keep the invariant.
LEMMA NextPreservesHeapInv ==
  ASSUME HeapInv, NonEmptyRequests, [Next]_vars
  PROVE  HeapInv'
<1>1. ASSUME NEW size \in Sizes, kmalloc(size) PROVE HeapInv'
  BY <1>1, kmallocPreservesHeapInv
<1>2. ASSUME NEW r \in live, kfree(r) PROVE HeapInv'
  BY <1>2, kfreePreservesHeapInv
<1>3. CASE kfree_null
  BY <1>3, kfree_nullPreservesHeapInv
<1>4. CASE UNCHANGED vars
  BY <1>4 DEF vars, HeapInv, TypeOK, Disjoint, TableMatchesLive, Taken, RegionBlocks,
              BytesOfRegions, StopByteBelow
<1> QED BY <1>1, <1>2, <1>3, <1>4 DEF Next
-----------------------------------------------------------------------------
\* The inductive invariant of the block table holds in every reachable state.
THEOREM HeapInvariant == NonEmptyRequests => (Spec => []HeapInv)
<1> SUFFICES ASSUME NonEmptyRequests PROVE Spec => []HeapInv
  OBVIOUS
<1>1. Init => HeapInv
  BY InitEstablishesHeapInv
<1>2. HeapInv /\ [Next]_vars => HeapInv'
  BY NextPreservesHeapInv
<1> QED BY <1>1, <1>2, PTL DEF Spec

\* No block, of the pool or after it, is ever in two regions kmalloc handed out.
THEOREM HeapDisjoint == NonEmptyRequests => (Spec => []Disjoint)
<1>1. HeapInv => Disjoint
  BY DEF HeapInv
<1> QED BY <1>1, HeapInvariant, PTL

\* Table and regions agree: kmalloc and kfree neither lose a block nor free
\* one that is still in use.
THEOREM HeapTableMatchesLive == NonEmptyRequests => (Spec => []TableMatchesLive)
<1>1. HeapInv => TableMatchesLive
  BY DEF HeapInv
<1> QED BY <1>1, HeapInvariant, PTL

\* The "has next" bits spell every region handed out.
THEOREM HeapChainsSpellRegions == NonEmptyRequests => (Spec => []ChainsSpellRegions)
<1>1. HeapInv => ChainsSpellRegions
  BY ChainOfRegion DEF HeapInv, ChainsSpellRegions
<1> QED BY <1>1, HeapInvariant, PTL

\* Type correctness of the block table: every pointer handed out lies in the pool.
THEOREM HeapTypeOK == NonEmptyRequests => (Spec => []TypeOK)
<1>1. HeapInv => TypeOK
  BY DEF HeapInv
<1> QED BY <1>1, HeapInvariant, PTL

\* Freeing a region clears its blocks and no other byte of the table.
THEOREM HeapFreeExact == NonEmptyRequests => (Spec => FreeExact)
<1> DEFINE A == \A r \in live \ live' : \A k \in Table :
                  entries'[k] = IF k \in RegionBlocks(r) THEN FREE ELSE entries[k]
<1>1. HeapInv /\ [Next]_vars => [A]_vars
  <2> SUFFICES ASSUME HeapInv, Next PROVE A
    BY DEF vars
  <2>1. ASSUME NEW size \in Sizes, kmalloc(size) PROVE A
    BY <2>1 DEF kmalloc, vars
  <2>2. ASSUME NEW r \in live, kfree(r) PROVE A
    <3>1. Chain(entries, heap_address_to_block(r.ptr)) = RegionBlocks(r) \cap Table
      BY ChainOfRegion DEF HeapInv
    <3>2. Table \subseteq Window
      BY HeapAssumption DEF Table, Window
    <3>3. \A k \in Table : entries'[k] = IF k \in RegionBlocks(r) THEN FREE ELSE entries[k]
      BY <3>1, <3>2, <2>2 DEF kfree, heap_mark_blocks_free
    <3>4. \A a \in live \ live' : a = r
      BY <2>2 DEF kfree
    <3> QED BY <3>3, <3>4
  <2>3. CASE kfree_null
    BY <2>3 DEF kfree_null
  <2> QED BY <2>1, <2>2, <2>3 DEF Next
<1> QED BY <1>1, HeapInvariant, PTL DEF Spec, FreeExact

\* kfree(0) and a refused request never change the table.
THEOREM HeapNullFreeHarmless == NonEmptyRequests => (Spec => NullFreeHarmless)
<1> DEFINE A == live' = live => \A k \in Table : entries'[k] = entries[k]
<1> SUFFICES ASSUME NonEmptyRequests PROVE Spec => NullFreeHarmless
  OBVIOUS
<1>1. HeapInv /\ [Next]_vars => [A]_vars
  <2> SUFFICES ASSUME HeapInv, Next PROVE A
    BY DEF vars
  <2>1. ASSUME NEW size \in Sizes, kmalloc(size) PROVE A
    <3> DEFINE n == TotalBlocks(size)
               s == heap_get_start_block(entries, n)
               r == [ptr |-> heap_block_to_address(s), blocks |-> n]
    <3>1. CASE s < 0
      BY <3>1, <2>1 DEF kmalloc, vars
    <3>2. CASE s >= 0
      <4>1. /\ s \in Table /\ n \in 1 .. Spill
            /\ RegionBlocks(r) = s .. (s + n - 1)
            /\ \A a \in live : RegionBlocks(a) \cap RegionBlocks(r) = {}
        BY <3>2, GrantedRegion
      <4>2. s \in RegionBlocks(r)
        BY <4>1, HeapAssumption DEF Table
      <4>3. live' = live \cup {r}
        <5> HIDE DEF n
        <5>1. ~(s < 0)
          BY <4>1, HeapAssumption DEF Table
        <5> QED BY <5>1, <2>1 DEF kmalloc, n
      <4> QED BY <4>1, <4>2, <4>3
    <3>3. s \in Int
      BY StartBlockIsInteger
    <3> QED BY <3>1, <3>2, <3>3
  <2>2. ASSUME NEW r \in live, kfree(r) PROVE A
    BY <2>2 DEF kfree
  <2>3. CASE kfree_null
    BY <2>3, kfree_nullLeavesTable DEF HeapInv
  <2> QED BY <2>1, <2>2, <2>3 DEF Next
<1> QED BY <1>1, HeapInvariant, PTL DEF Spec, NullFreeHarmless

\* The block table implements the abstract allocator: every region it hands out
\* is disjoint from those in use, and a free releases one region.
THEOREM HeapImplementsAllocator == NonEmptyRequests => (Spec => ImplementsAllocator)
<1> SUFFICES ASSUME NonEmptyRequests PROVE Spec => ImplementsAllocator
  OBVIOUS
<1>1. Init => Abstract!Init
  BY DEF Init, Abstract!Init
<1>2. HeapInv /\ [Next]_vars => [Abstract!Next]_live
  <2> SUFFICES ASSUME HeapInv, Next PROVE Abstract!Next \/ live' = live
    BY DEF vars
  <2>1. ASSUME NEW size \in Sizes, kmalloc(size) PROVE Abstract!Next \/ live' = live
    <3> DEFINE n == TotalBlocks(size)
               s == heap_get_start_block(entries, n)
               r == [ptr |-> heap_block_to_address(s), blocks |-> n]
    <3>1. CASE s < 0
      BY <3>1, <2>1 DEF kmalloc, vars
    <3>2. CASE s >= 0
      <4>1. /\ s \in Table
            /\ r \in [ptr : HeapStart .. (HeapStart + Total - 1), blocks : 1 .. Spill]
            /\ \A a \in live : RegionBlocks(a) \cap RegionBlocks(r) = {}
        BY <3>2, GrantedRegion
      <4>2. live' = live \cup {r}
        <5> HIDE DEF n
        <5>1. ~(s < 0)
          BY <4>1, HeapAssumption DEF Table
        <5> QED BY <5>1, <2>1 DEF kmalloc, n
      <4> HIDE DEF n, s, r
      <4>3. ASSUME NEW a \in live PROVE Abstract!BlocksOf(a) \cap Abstract!BlocksOf(r) = {}
        <5>1. /\ a.ptr \in Int /\ a.blocks \in Int
              /\ r.ptr \in Int /\ r.blocks \in Int
          BY <4>1, HeapAssumption DEF HeapInv, TypeOK
        <5>2. ASSUME NEW k \in Abstract!BlocksOf(a), k \in Abstract!BlocksOf(r)
              PROVE  k - HeapStart \in RegionBlocks(a) /\ k - HeapStart \in RegionBlocks(r)
          BY <5>1, <5>2, HeapAssumption
             DEF Abstract!BlocksOf, RegionBlocks, heap_address_to_block
        <5> QED BY <5>2, <4>1
      <4>4. Abstract!Malloc
        BY <4>1, <4>2, <4>3 DEF Abstract!Malloc, Abstract!Regions
      <4> QED BY <4>4 DEF Abstract!Next
    <3>3. s \in Int
      BY StartBlockIsInteger
    <3> QED BY <3>1, <3>2, <3>3
  <2>2. ASSUME NEW r \in live, kfree(r) PROVE Abstract!Next
    BY <2>2 DEF kfree, Abstract!Next, Abstract!Free
  <2>3. CASE kfree_null
    BY <2>3 DEF kfree_null
  <2> QED BY <2>1, <2>2, <2>3 DEF Next
<1> QED BY <1>1, <1>2, HeapInvariant, PTL DEF Spec, ImplementsAllocator, Abstract!Spec
-----------------------------------------------------------------------------
(* The search for a run of free blocks. *)

\* What the loop knows after i blocks.  It looks for more: the last count blocks
\* are free, the one before them is not, and no run that fits ends so far.
Searching(t, n, i, s) ==
  /\ s.count \in 0 .. i
  /\ s.start = IF s.count = 0 THEN -1 ELSE i - s.count
  /\ n > 0 => s.count < n
  /\ \A k \in (i - s.count) .. (i - 1) : ~Taken(t, k)
  /\ i - s.count > 0 => Taken(t, i - s.count - 1)
  /\ \A j \in Nat : j + n <= i => ~Fits(t, n, j)

\* Or it has been left with the first run that fits.
Found(t, n, s) == n > 0 /\ s.count = n /\ s.start \in Table /\ FirstFit(t, n, s.start)

\* The turns of the loop.
LEMMA ScanLoopTurns ==
  ASSUME NEW t, NEW n \in Nat
  PROVE  \E g \in [0 .. Total -> [count : Nat, start : Int]] :
           /\ g[0] = [count |-> 0, start |-> -1]
           /\ \A i \in 1 .. Total : g[i] = ScanTurn(t, n, i, g[i - 1])
           /\ ScanLoop(t, n) = IF g[Total].start = -1 THEN -ENOMEM ELSE g[Total].start
<1> DEFINE V == [count : Nat, start : Int]
           z == [count |-> 0, start |-> -1]
           Loop(g) == g = [i \in 0 .. Total |-> IF i = 0 THEN z ELSE ScanTurn(t, n, i, g[i - 1])]
           m == CHOOSE g : Loop(g)
<1>1. Total \in Nat
  BY HeapAssumption
<1>2. ScanLoop(t, n) = IF m[Total].start = -1 THEN -ENOMEM ELSE m[Total].start
  BY DEF ScanLoop
<1>3. z \in V
  OBVIOUS
<1>4. PICK step : step = [i \in 1 .. Total |-> [s \in V |-> ScanTurn(t, n, i, s)]]
  OBVIOUS
<1>5. ASSUME NEW i \in 1 .. Total, NEW s \in V PROVE ScanTurn(t, n, i, s) \in V
  BY <1>1 DEF ScanTurn
<1> HIDE DEF z, V
<1>6. step \in [1 .. Total -> [V -> V]]
  BY <1>4, <1>5
<1>7. PICK g \in [0 .. Total -> V] : g[0] = z /\ \A i \in 1 .. Total : g[i] = step[i][g[i - 1]]
  <2>1. PICK g : ValuesOfLoop(Total, V, z, step, g)
    BY <1>1, <1>3, <1>6, LoopRuns
  <2> QED BY <2>1 DEF ValuesOfLoop
<1>8. \A i \in 1 .. Total : g[i] = ScanTurn(t, n, i, g[i - 1])
  <2> SUFFICES ASSUME NEW i \in 1 .. Total PROVE g[i] = ScanTurn(t, n, i, g[i - 1])
    OBVIOUS
  <2>1. i - 1 \in 0 .. Total
    BY <1>1
  <2>2. g[i - 1] \in V
    BY <1>7, <2>1
  <2>3. step[i][g[i - 1]] = ScanTurn(t, n, i, g[i - 1])
    BY <1>4, <2>2
  <2> QED BY <1>7, <2>3
<1>9. Loop(g)
  <2>1. \A i \in 0 .. Total : g[i] = IF i = 0 THEN z ELSE ScanTurn(t, n, i, g[i - 1])
    BY <1>1, <1>7, <1>8
  <2> HIDE DEF ScanTurn
  <2> QED BY <1>7, <2>1
<1>10. Loop(m)
  <2> HIDE DEF Loop
  <2> QED BY <1>9
<1> HIDE DEF m
<1>11. m[0] = z /\ \A i \in 1 .. Total : m[i] = ScanTurn(t, n, i, m[i - 1])
  <2>1. \A i \in 0 .. Total : m[i] = IF i = 0 THEN z ELSE ScanTurn(t, n, i, m[i - 1])
    BY <1>10
  <2>2. 0 \in 0 .. Total /\ \A i \in 1 .. Total : i \in 0 .. Total /\ i /= 0
    BY <1>1
  <2> QED BY <2>1, <2>2
<1>12. m \in [0 .. Total -> V]
  <2> DEFINE T == {i \in 0 .. Total : m[i] \in V}
  <2>1. 0 \in T
    BY <1>1, <1>3, <1>11
  <2>2. \A i \in 1 .. Total : i - 1 \in T => i \in T
    BY <1>1, <1>5, <1>11
  <2>3. \A i \in 0 .. Total : i \in T
    <3> HIDE DEF T
    <3> QED BY <1>1, <2>1, <2>2, LoopInduction
  <2> QED BY <1>10, <2>3
<1> QED BY <1>2, <1>11, <1>12 DEF V, z

\* One turn of a loop that looks for more.
LEMMA SearchTurn ==
  ASSUME NEW t, NEW n \in Nat, NEW i \in 1 .. Total, NEW s \in [count : Nat, start : Int],
         Searching(t, n, i - 1, s)
  PROVE  \/ Searching(t, n, i, ScanTurn(t, n, i, s))
         \/ Found(t, n, ScanTurn(t, n, i, s))
<1>1. PICK c \in Nat : c = s.count
  OBVIOUS
<1>2. PICK r : r = ScanTurn(t, n, i, s)
  OBVIOUS
<1>3. /\ Total \in Nat /\ i \in Nat /\ c <= i - 1
      /\ s.start = IF c = 0 THEN -1 ELSE i - 1 - c
      /\ n > 0 => c < n
      /\ \A k \in (i - 1 - c) .. (i - 2) : ~Taken(t, k)
      /\ i - 1 - c > 0 => Taken(t, i - 2 - c)
      /\ \A j \in Nat : j + n <= i - 1 => ~Fits(t, n, j)
  BY <1>1, HeapAssumption DEF Searching
<1>4. CASE Taken(t, i - 1)
  <2>1. r.count = 0 /\ r.start = -1
    BY <1>1, <1>2, <1>3, <1>4 DEF ScanTurn
  <2>2. ASSUME NEW j \in Nat, j + n <= i PROVE ~Fits(t, n, j)
    <3>1. CASE n > 0 /\ j + n = i
      <4>1. i - 1 \in j .. (j + n - 1)
        BY <1>3, <3>1
      <4> QED BY <1>4, <4>1 DEF Fits
    <3>2. CASE n = 0
      BY <3>2 DEF Fits
    <3>3. CASE j + n <= i - 1
      BY <1>3, <3>3
    <3> QED BY <1>3, <2>2, <3>1, <3>2, <3>3
  <2> QED BY <1>2, <1>3, <1>4, <2>1, <2>2 DEF Searching
<1>5. CASE ~Taken(t, i - 1)
  <2>1. r.count = c + 1 /\ r.start = i - 1 - c
    BY <1>1, <1>2, <1>3, <1>5 DEF ScanTurn
  <2>2. \A k \in (i - 1 - c) .. (i - 1) : ~Taken(t, k)
    BY <1>3, <1>5
  <2>3. CASE n = c + 1
    <3>1. i - 1 - c \in Table
      BY <1>3 DEF Table
    <3>2. Fits(t, n, i - 1 - c)
      <4>1. i - 1 - c + n = i
        BY <1>3, <2>3
      <4> QED BY <1>3, <2>2, <2>3, <4>1 DEF Fits
    <3>3. ASSUME NEW j \in 0 .. (i - 1 - c - 1) PROVE ~Fits(t, n, j)
      BY <1>3, <2>3
    <3> QED BY <1>2, <2>1, <2>3, <3>1, <3>2, <3>3 DEF Found, FirstFit
  <2>4. CASE n /= c + 1
    <3>1. ASSUME NEW j \in Nat, j + n <= i PROVE ~Fits(t, n, j)
      <4>1. CASE n > 0 /\ j + n = i
        <5>1. c + 1 < n /\ i - 1 - c > 0 /\ i - 2 - c \in j .. (j + n - 1)
          BY <1>3, <2>4, <4>1
        <5> QED BY <1>3, <5>1 DEF Fits
      <4>2. CASE n = 0
        BY <4>2 DEF Fits
      <4>3. CASE j + n <= i - 1
        BY <1>3, <4>3
      <4> QED BY <1>3, <3>1, <4>1, <4>2, <4>3
    <3>2. n > 0 => c + 1 < n
      BY <1>3, <2>4
    <3>3. /\ i - r.count = i - 1 - c /\ i - r.count - 1 = i - 2 - c
          /\ r.count \in 0 .. i /\ r.count /= 0
      BY <1>3, <2>1
    <3> QED BY <1>2, <1>3, <2>1, <2>2, <3>1, <3>2, <3>3 DEF Searching
  <2> QED BY <2>3, <2>4
<1> QED BY <1>4, <1>5

\* There is one first fit, and one run of free blocks at the end of the table.
LEMMA SearchUnique ==
  ASSUME NEW t, NEW n \in Nat, NEW i \in Table, NEW j \in Table
  PROVE  /\ FirstFit(t, n, i) /\ FirstFit(t, n, j) => i = j
         /\ TrailingRun(t, i) /\ TrailingRun(t, j) => i = j
<1>1. Total \in Nat /\ i \in Nat /\ j \in Nat /\ i <= Total - 1 /\ j <= Total - 1
  BY HeapAssumption DEF Table
<1>2. i = j \/ i \in 0 .. (j - 1) \/ j \in 0 .. (i - 1)
  BY <1>1
<1>3. i \in 0 .. (j - 1) => j > 0 /\ j - 1 \in i .. (Total - 1)
  BY <1>1
<1>4. j \in 0 .. (i - 1) => i > 0 /\ i - 1 \in j .. (Total - 1)
  BY <1>1
<1> QED BY <1>2, <1>3, <1>4 DEF FirstFit, TrailingRun

\* The search described by its result finds what the loop finds, in any table.
LEMMA heap_get_start_blockIsLoop ==
  ASSUME NEW t, NEW n \in Nat
  PROVE  heap_get_start_block(t, n) = ScanLoop(t, n)
<1> DEFINE V == [count : Nat, start : Int]
<1>1. Total \in Nat /\ Total > 0 /\ 0 \in 0 .. Total /\ Total \in 0 .. Total
  BY HeapAssumption
<1>2. PICK g \in [0 .. Total -> V] :
        /\ g[0] = [count |-> 0, start |-> -1]
        /\ \A i \in 1 .. Total : g[i] = ScanTurn(t, n, i, g[i - 1])
        /\ ScanLoop(t, n) = IF g[Total].start = -1 THEN -ENOMEM ELSE g[Total].start
  BY ScanLoopTurns
<1> DEFINE T == {i \in 0 .. Total : Searching(t, n, i, g[i]) \/ Found(t, n, g[i])}
<1>3. 0 \in T
  BY <1>1, <1>2 DEF Searching, Fits
<1>4. ASSUME NEW i \in 1 .. Total, i - 1 \in T PROVE i \in T
  <2>1. i - 1 \in 0 .. Total /\ i \in 0 .. Total
    BY <1>1
  <2>2. PICK s \in V : s = g[i - 1]
    BY <1>2, <2>1
  <2>3. g[i] = ScanTurn(t, n, i, s)
    BY <1>2, <2>2
  <2>4. CASE Searching(t, n, i - 1, s)
    BY <2>1, <2>3, <2>4, SearchTurn
  <2>5. CASE Found(t, n, s)
    <3>1. g[i] = s
      BY <2>3, <2>5 DEF ScanTurn, Found
    <3> QED BY <2>1, <2>5, <3>1
  <2> QED BY <1>4, <2>2, <2>4, <2>5
<1>5. Total \in T
  <2>1. \A i \in 1 .. Total : i - 1 \in T => i \in T
    BY <1>4
  <2>2. \A i \in 0 .. Total : i \in T
    <3> HIDE DEF T
    <3> QED BY <1>1, <1>3, <2>1, LoopInduction
  <2> QED BY <1>1, <2>2
<1>6. PICK s \in V : s = g[Total]
  BY <1>1, <1>2
<1>7. CASE Found(t, n, s)
  <2>1. s.start \in Table /\ FirstFit(t, n, s.start) /\ s.start /= -1
    BY <1>7, HeapAssumption DEF Found, Table
  <2>2. (CHOOSE i \in Table : FirstFit(t, n, i)) = s.start
    BY <2>1, SearchUnique
  <2>3. heap_get_start_block(t, n) = s.start
    BY <2>1, <2>2 DEF heap_get_start_block
  <2> QED BY <1>2, <1>6, <2>1, <2>3
<1>8. CASE Searching(t, n, Total, s)
  <2>1. PICK c \in Nat : c = s.count
    OBVIOUS
  <2>2. /\ c <= Total /\ s.start = IF c = 0 THEN -1 ELSE Total - c
        /\ \A k \in (Total - c) .. (Total - 1) : ~Taken(t, k)
        /\ Total - c > 0 => Taken(t, Total - c - 1)
        /\ \A j \in Nat : j + n <= Total => ~Fits(t, n, j)
    BY <1>1, <1>8, <2>1 DEF Searching
  <2>3. ~(\E i \in Table : FirstFit(t, n, i))
    <3> SUFFICES ASSUME NEW i \in Table, Fits(t, n, i) PROVE FALSE
      BY DEF FirstFit
    <3>1. i \in Nat /\ i + n <= Total
      BY <1>1 DEF Table, Fits
    <3> QED BY <2>2, <3>1
  <2>4. CASE c = 0
    <3>1. ASSUME NEW i \in Table PROVE ~TrailingRun(t, i)
      <4>1. Total - 1 \in i .. (Total - 1) /\ Taken(t, Total - 1)
        BY <1>1, <2>2, <2>4 DEF Table
      <4> QED BY <4>1 DEF TrailingRun
    <3> QED BY <1>2, <1>6, <2>2, <2>3, <2>4, <3>1 DEF heap_get_start_block
  <2>5. CASE c /= 0
    <3>1. PICK b \in Table : b = Total - c
      BY <1>1, <2>2, <2>5 DEF Table
    <3>2. TrailingRun(t, b) /\ b /= -1
      BY <1>1, <2>2, <3>1 DEF TrailingRun, Table
    <3>3. (CHOOSE i \in Table : TrailingRun(t, i)) = b
      BY <3>2, SearchUnique
    <3>4. heap_get_start_block(t, n) = b
      BY <2>3, <3>2, <3>3 DEF heap_get_start_block
    <3> QED BY <1>2, <1>6, <2>2, <2>5, <3>1, <3>2, <3>4
  <2> QED BY <2>4, <2>5
<1> QED BY <1>5, <1>6, <1>7, <1>8

\* The loop of heap_get_start_block finds the first run of free blocks that fits,
\* and otherwise returns the free run at the end of the table: for every size of
\* the table, every request, 0 blocks included, and whatever the table holds.
THEOREM HeapScanIsLoop == Spec => []ScanIsLoop
<1>1. ScanIsLoop
  BY heap_get_start_blockIsLoop, HeapAssumption DEF ScanIsLoop
<1> QED BY <1>1, PTL
============================================================================
