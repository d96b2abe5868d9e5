------------------------ MODULE ProcessMemoryProofs ------------------------
(***************************************************************************)
(* Proofs about the memory of processes: for every size of the heap, every  *)
(* set of program files and any number of processes and allocations.        *)
(***************************************************************************)
EXTENDS ProcessMemory, NaturalNumbers

-----------------------------------------------------------------------------
(* The heap. *)

\* A file takes at least one block.
LEMMA BlocksOfFileType ==
  ASSUME NEW file \in Files
  PROVE  BlocksOfFile(file) \in Nat \ {0}
<1>1. PageSize \in Nat \ {0} /\ file.size \in Nat \ {0}
  BY ElfFileAssumption DEF Files
<1>2. PICK a \in Nat : a = file.size + PageSize - 1 /\ a >= PageSize
  BY <1>1
<1>3. PageSize * 1 <= a /\ a \in Int /\ 1 \in Int
  BY <1>1, <1>2
<1>4. 1 <= a \div PageSize
  BY <1>1, <1>3, QuotientAtLeast, Zenon
<1>5. a \div PageSize \in Int
  BY <1>1, <1>3
<1> QED BY <1>2, <1>4, <1>5 DEF BlocksOfFile

\* What kzalloc hands out is free and lies in the heap.
LEMMA kzallocFits ==
  ASSUME NEW regions, NEW n, kzalloc(regions, n) /= NoPtr
  PROVE  kzalloc(regions, n) \in Addresses /\ Fits(regions, n, kzalloc(regions, n))
<1>1. PICK T : T = {a \in Addresses : Fits(regions, n, a)}
  OBVIOUS
<1>2. kzalloc(regions, n) = IF T = {} THEN NoPtr ELSE CHOOSE a \in T : \A b \in T : a <= b
  BY <1>1 DEF kzalloc
<1>3. T /= {} /\ T \subseteq Nat
  BY <1>1, <1>2, ProcessMemoryAssumption DEF Addresses
<1>4. \E a \in T : \A b \in T : a <= b
  BY <1>3, LeastNatural
<1>5. kzalloc(regions, n) \in T
  BY <1>2, <1>3, <1>4
<1> QED BY <1>1, <1>5

\* Regions that share no block are told apart by their addresses.
LEMMA PointersUnique ==
  ASSUME NEW regions, regions \subseteq Regions, RegionsApart(regions),
         NEW r \in regions, NEW s \in regions, r.ptr = s.ptr
  PROVE  r = s
<1>1. r.ptr \in Int /\ r.blocks \in Nat \ {0} /\ s.blocks \in Nat \ {0}
  BY DEF Regions, Addresses
<1>2. r.ptr \in Heap!BlocksOf(r) /\ r.ptr \in Heap!BlocksOf(s)
  BY <1>1 DEF Heap!BlocksOf
<1> QED BY <1>2 DEF RegionsApart

\* A region that is handed out is apart from those in use.
LEMMA kzallocKeepsApart ==
  ASSUME NEW regions, regions \subseteq Regions, RegionsApart(regions),
         NEW n \in Nat \ {0}, NEW a, a = kzalloc(regions, n), a /= NoPtr,
         NEW o \in Slots \cup {Lost}
  PROVE  /\ a \in Addresses
         /\ Region(a, n, o) \in Regions
         /\ a + n <= Total + 1
         /\ RegionsApart(regions \cup {Region(a, n, o)})
         /\ Region(a, n, o) \notin regions
         /\ \A r \in regions : r.ptr /= a
<1> DEFINE g == Region(a, n, o)
<1>1. a \in Addresses /\ Fits(regions, n, a)
  BY kzallocFits
<1>2. g \in Regions /\ g.ptr = a /\ g.blocks = n
  BY <1>1 DEF Region, Regions
<1>3. Heap!BlocksOf(g) = a .. (a + n - 1) /\ a \in Heap!BlocksOf(g)
  BY <1>1, <1>2 DEF Heap!BlocksOf, Addresses
<1>4. \A r \in regions : Heap!BlocksOf(r) \cap Heap!BlocksOf(g) = {}
  <2> SUFFICES ASSUME NEW r \in regions PROVE Heap!BlocksOf(r) \cap Heap!BlocksOf(g) = {}
    OBVIOUS
  <2>1. r.ptr \in Int /\ r.blocks \in Int /\ a \in Int /\ n \in Int
    BY <1>1 DEF Regions, Addresses
  <2>2. r.ptr + r.blocks <= a \/ a + n <= r.ptr
    BY <1>1 DEF Fits
  <2>3. Heap!BlocksOf(r) = r.ptr .. (r.ptr + r.blocks - 1)
    BY DEF Heap!BlocksOf
  <2> HIDE DEF g
  <2> QED BY <1>3, <2>1, <2>2, <2>3
<1>5. \A r \in regions : r.ptr \in Heap!BlocksOf(r)
  BY DEF Heap!BlocksOf, Regions, Addresses
<1>6. \A r \in regions : r.ptr /= a
  BY <1>3, <1>4, <1>5
<1>7. g \notin regions
  BY <1>2, <1>6
<1> HIDE DEF g
<1>8. RegionsApart(regions \cup {g})
  BY <1>4 DEF RegionsApart
<1>9. a + n <= Total + 1
  BY <1>1, ProcessMemoryAssumption DEF Fits, Addresses
<1> QED BY <1>1, <1>2, <1>6, <1>7, <1>8, <1>9 DEF g
-----------------------------------------------------------------------------
(* Page directories. *)

Directories == [VirtualPages -> Entries]

\* The pages that can be written to lie in P.
WritesWithin(dir, P) ==
  \A v \in VirtualPages : dir[v].right = "write" => dir[v].page \in P

LEMMA VirtualPagesAreNumbers == VirtualPages \subseteq Int
  BY ProcessMemoryAssumption DEF VirtualPages, Addresses

LEMMA create_new_page_directoryType ==
  create_new_page_directory \in Directories /\ WritesWithin(create_new_page_directory, {})
  BY VirtualPagesAreNumbers
     DEF create_new_page_directory, Directories, Entries, Entry, WritesWithin

LEMMA paging_map_toType ==
  ASSUME NEW dir \in Directories, NEW virt \in Int, NEW phys \in Int, NEW n \in Int,
         NEW right \in {"none", "read", "write"}
  PROVE  paging_map_to(dir, virt, phys, n, right) \in Directories
<1>1. ASSUME NEW v \in VirtualPages
      PROVE  (IF v \in virt .. (virt + n - 1) THEN Entry(phys + v - virt, right) ELSE dir[v])
               \in Entries
  <2>1. phys + v - virt \in Int
    BY VirtualPagesAreNumbers
  <2>2. Entry(phys + v - virt, right) \in Entries
    BY <2>1 DEF Entry, Entries
  <2>3. dir[v] \in Entries
    BY DEF Directories
  <2> QED BY <2>2, <2>3
<1> QED BY <1>1 DEF paging_map_to, Directories

LEMMA paging_map_toWithin ==
  ASSUME NEW dir, NEW virt \in Int, NEW phys \in Int, NEW n \in Int, NEW right, NEW P,
         WritesWithin(dir, P),
         right = "write" => phys .. (phys + n - 1) \subseteq P
  PROVE  WritesWithin(paging_map_to(dir, virt, phys, n, right), P)
<1> SUFFICES ASSUME NEW v \in VirtualPages,
                    paging_map_to(dir, virt, phys, n, right)[v].right = "write"
             PROVE  paging_map_to(dir, virt, phys, n, right)[v].page \in P
  BY DEF WritesWithin
<1>1. CASE v \in virt .. (virt + n - 1)
  <2>1. paging_map_to(dir, virt, phys, n, right)[v] = [page |-> phys + v - virt, right |-> right]
    BY <1>1 DEF paging_map_to, Entry
  <2>2. phys + v - virt \in phys .. (phys + n - 1)
    BY <1>1
  <2> QED BY <2>1, <2>2
<1>2. CASE v \notin virt .. (virt + n - 1)
  BY <1>2 DEF paging_map_to, WritesWithin
<1> QED BY <1>1, <1>2

LEMMA PagesOfWord == WordSize \div PageSize \in Nat \ {0}
<1>1. PageSize \in Nat \ {0} /\ WordSize \in Nat \ {0} /\ WordSize % PageSize = 0
  BY ElfFileAssumption
<1>2. PICK q \in Int : WordSize = PageSize * q + 0 /\ q = WordSize \div PageSize
  <2>1. /\ WordSize \div PageSize \in Int
        /\ WordSize = PageSize * (WordSize \div PageSize) + (WordSize % PageSize)
    BY <1>1, QuotientAndRemainder
  <2> QED BY <1>1, <2>1
<1>3. CASE q <= 0
  <2>1. PageSize * q <= 0
    BY <1>1, <1>3
  <2> QED BY <1>1, <1>2, <2>1
<1> QED BY <1>2, <1>3

LEMMA SegmentPagesAreNumbers ==
  ASSUME NEW s \in Segments, NEW image \in Nat
  PROVE  /\ paging_align_to_lower_page(s.vaddr) \in Int
         /\ FirstPage(image, s) \in Int
         /\ PageCount(image, s) \in Int
<1>1. /\ PageSize \in Nat \ {0} /\ WordSize \in Nat \ {0}
      /\ s.vaddr \in Int /\ s.offset \in Nat /\ s.memsz \in Nat
  BY ElfFileAssumption DEF Segments
<1>2. PICK w \in Nat \ {0} : w = WordSize \div PageSize
  BY PagesOfWord
<1>3. FirstPage(image, s) \in Int /\ paging_align_to_lower_page(s.vaddr) \in Int
  <2>1. PICK c \in Int : c = image * PageSize + s.offset
    BY <1>1
  <2>2. PICK d \in Int : d = c % WordSize
    BY <1>1
  <2>3. d \div PageSize \in Int /\ s.vaddr \div PageSize \in Int
    BY <1>1
  <2> QED BY <2>1, <2>2, <2>3 DEF FirstPage, paging_align_to_lower_page
<1>4. PICK y \in Int : y = (image * PageSize + s.offset + s.memsz) % WordSize
  <2>1. PICK x \in Int : x = image * PageSize + s.offset + s.memsz
    BY <1>1
  <2>2. x % WordSize \in Int
    BY <1>1
  <2> QED BY <2>1, <2>2
<1>5. PICK z \in Int : z = (y + PageSize - 1) \div PageSize
  BY <1>1
<1>6. z % w \in Int
  OBVIOUS
<1> QED BY <1>2, <1>3, <1>4, <1>5, <1>6 DEF PageCount, paging_align_address

\* The pages of a segment that lies in its file are pages of the image.
LEMMA SegmentInImage ==
  ASSUME NEW file \in Files, NEW image \in Nat, NEW i \in DOMAIN file.segments,
         SegmentsInFile(file), image + BlocksOfFile(file) <= Total + 1
  PROVE  LET s == file.segments[i]
         IN  FirstPage(image, s) .. (FirstPage(image, s) + PageCount(image, s) - 1)
               \subseteq image .. (image + BlocksOfFile(file) - 1)
<1>s. PICK s \in Segments : s = file.segments[i]
  BY DEF Files
<1>b. PICK b \in Nat : b = BlocksOfFile(file)
  BY BlocksOfFileType
<1>1. /\ PageSize \in Nat \ {0} /\ WordSize \in Nat \ {0} /\ WordSize % PageSize = 0
      /\ s.offset \in Nat /\ s.memsz \in Nat
  BY ElfFileAssumption DEF Segments
<1>2. s.offset + s.memsz <= b * PageSize
  BY <1>s, <1>b DEF SegmentsInFile
<1>3. PICK x \in Nat : x = image * PageSize + s.offset + s.memsz
  BY <1>1
<1>4. PICK y \in Nat : y = x % WordSize /\ y <= x
  BY <1>1, <1>3, RemainderAtMost
<1>5. y + PageSize - 1 < PageSize * (image + b) + PageSize
  <2>1. PICK m \in Nat, k \in Nat : m = image * PageSize /\ k = b * PageSize
    <3>1. image * PageSize \in Nat
      BY <1>1
    <3>2. b * PageSize \in Nat
      BY <1>1, <1>b
    <3> QED BY <3>1, <3>2
  <2>2. PageSize * (image + b) = m + k
    BY <1>1, <1>b, <2>1
  <2>3. x = m + s.offset + s.memsz /\ s.offset + s.memsz <= k
    BY <1>2, <1>3, <2>1
  <2>4. y + PageSize - 1 < m + k + PageSize
    BY <1>1, <1>4, <2>1, <2>3
  <2> QED BY <2>2, <2>4
<1>6. PICK z \in Nat : z = (y + PageSize - 1) \div PageSize /\ z <= image + b
  <2>1. PICK c \in Int, e \in Int : c = y + PageSize - 1 /\ e = image + b
    BY <1>1, <1>4, <1>b
  <2>2. c < PageSize * e + PageSize
    BY <1>5, <2>1
  <2>3. c \div PageSize <= e
    BY <1>1, <2>2, QuotientAtMost, Zenon
  <2>4. PageSize * 0 <= c /\ 0 \in Int
    BY <1>1, <1>4, <2>1
  <2>5. 0 <= c \div PageSize
    BY <1>1, <2>4, QuotientAtLeast, Zenon
  <2>6. c \div PageSize \in Int
    BY <1>1, <2>1
  <2> QED BY <2>1, <2>3, <2>5, <2>6
<1>7. PICK w \in Nat \ {0} : w = WordSize \div PageSize
  BY PagesOfWord
<1>8. z % w \in Nat /\ z % w <= z
  BY RemainderAtMost
<1>9. FirstPage(image, s) \in Int /\ image <= FirstPage(image, s)
  <2>1. PICK c \in Int : c = image * PageSize + s.offset
    BY <1>1
  <2>2. PageSize * image <= c /\ image \in Int
    BY <1>1, <2>1
  <2>3. image <= c \div PageSize
    BY <1>1, <2>2, QuotientAtLeast, Zenon
  <2>4. c \div PageSize \in Int
    BY <1>1
  <2>5. c \in 0 .. (WordSize - 1)
    <3>1. PICK m \in Nat, k \in Nat : m = image * PageSize /\ k = b * PageSize
      <4>1. image * PageSize \in Nat
        BY <1>1
      <4>2. b * PageSize \in Nat
        BY <1>1, <1>b
      <4> QED BY <4>1, <4>2
    <3>2. PICK e \in Nat : e = Total + 1 - (image + b)
      BY <1>b, ProcessMemoryAssumption
    <3>3. Total + 1 = image + b + e /\ e * PageSize \in Nat
      BY <1>1, <1>b, <3>2, ProcessMemoryAssumption
    <3>4. (Total + 1) * PageSize = m + k + e * PageSize
      BY <1>1, <1>b, <3>1, <3>3
    <3>5. m + k < WordSize
      BY <1>1, <3>1, <3>3, <3>4, ProcessMemoryAssumption
    <3> QED BY <1>1, <1>2, <2>1, <3>1, <3>5
  <2>6. c % WordSize = c
    <3>1. c = WordSize * 0 + c /\ 0 \in Int
      BY <1>1
    <3> QED BY <1>1, <2>5, <3>1, RemainderUnique
  <2> QED BY <2>1, <2>3, <2>4, <2>6 DEF FirstPage, paging_align_to_lower_page
<1>10. PageCount(image, s) = (z % w) - FirstPage(image, s)
  BY <1>3, <1>4, <1>6, <1>7 DEF PageCount, paging_align_address
<1>11. PICK f \in Int : f = FirstPage(image, s) /\ image <= f
  BY <1>9
<1>12. PICK t \in Nat : t = z % w /\ t <= image + b
  BY <1>6, <1>8, <1>b
<1>13. f + (t - f) - 1 <= image + b - 1
  BY <1>11, <1>12, <1>b
<1>14. f .. (f + (t - f) - 1) \subseteq image .. (image + b - 1)
  BY <1>11, <1>12, <1>13, <1>b
<1> QED BY <1>s, <1>b, <1>10, <1>11, <1>12, <1>14

\* The turns of the loop of process_map_elf: the directory before the first
\* segment, and the one each segment leaves behind.
MapsSegments(g, dir, file, image) ==
  /\ process_map_elf(dir, file, image) = g[Len(file.segments)]
  /\ g[0] = dir
  /\ \A i \in 1 .. Len(file.segments) :
       LET s == file.segments[i]
       IN  g[i] = paging_map_to(g[i - 1], paging_align_to_lower_page(s.vaddr),
                    FirstPage(image, s), PageCount(image, s),
                    IF s.writable THEN "write" ELSE "read")

LEMMA process_map_elfLoop ==
  ASSUME NEW dir, NEW file, NEW image, Len(file.segments) \in Nat
  PROVE  \E g : MapsSegments(g, dir, file, image)
<1> DEFINE Step(i, d) == LET s == file.segments[i]
                         IN  paging_map_to(d, paging_align_to_lower_page(s.vaddr),
                               FirstPage(image, s), PageCount(image, s),
                               IF s.writable THEN "write" ELSE "read")
           N == Len(file.segments)
           Loop(n, g) == g = [i \in 0 .. n |-> IF i = 0 THEN dir ELSE Step(i, g[i - 1])]
           T == {n \in Nat : \E g : Loop(n, g)}
           m == CHOOSE g : Loop(N, g)
<1>1. process_map_elf(dir, file, image) = m[N]
  BY DEF process_map_elf
<1>2. 0 \in T
  <2> HIDE DEF Step
  <2>1. Loop(0, [i \in 0 .. 0 |-> dir])
    OBVIOUS
  <2> QED BY <2>1
<1>3. ASSUME NEW n \in Nat, n \in T PROVE n + 1 \in T
  <2> HIDE DEF Step
  <2>1. PICK g : Loop(n, g)
    BY <1>3
  <2> DEFINE h == [i \in 0 .. (n + 1) |-> IF i = n + 1 THEN Step(n + 1, g[n]) ELSE g[i]]
  <2>2. ASSUME NEW i \in 0 .. (n + 1)
        PROVE  h[i] = IF i = 0 THEN dir ELSE Step(i, h[i - 1])
    <3>1. CASE i = 0
      BY <2>1, <3>1
    <3>2. CASE i = n + 1
      BY <3>2
    <3>3. CASE i \in 1 .. n
      <4>1. i - 1 \in 0 .. (n + 1) /\ i - 1 /= n + 1 /\ i \in 0 .. n /\ i /= 0 /\ i /= n + 1
        BY <3>3
      <4>2. h[i] = g[i] /\ h[i - 1] = g[i - 1]
        BY <4>1
      <4>3. g[i] = Step(i, g[i - 1])
        BY <2>1, <4>1
      <4> QED BY <4>1, <4>2, <4>3
    <3> QED BY <3>1, <3>2, <3>3
  <2>3. Loop(n + 1, h)
    BY <2>2
  <2> HIDE DEF h, Loop
  <2> QED BY <2>3
<1>4. N \in T
  <2> HIDE DEF T, N, Loop, Step
  <2>1. \A n \in Nat : n \in T
    BY <1>2, <1>3, SetInduction
  <2> QED BY <2>1 DEF N
<1>5. Loop(N, m)
  <2>1. \E g : Loop(N, g)
    BY <1>4
  <2> HIDE DEF Loop, N, T
  <2> QED BY <2>1
<1>6. m[0] = dir /\ \A i \in 1 .. N : m[i] = Step(i, m[i - 1])
  <2> HIDE DEF Step, m, N
  <2>1. N \in Nat /\ m = [i \in 0 .. N |-> IF i = 0 THEN dir ELSE Step(i, m[i - 1])]
    BY <1>5 DEF N
  <2>2. \A i \in 0 .. N : m[i] = IF i = 0 THEN dir ELSE Step(i, m[i - 1])
    BY <2>1
  <2>3. \A i \in 1 .. N : i \in 0 .. N /\ i /= 0
    BY <2>1
  <2> QED BY <2>1, <2>2, <2>3
<1> HIDE DEF m
<1>7. MapsSegments(m, dir, file, image)
  BY <1>1, <1>6 DEF MapsSegments
<1> QED BY <1>7

\* process_map_elf writes to the image only, when the segments lie in the file.
LEMMA process_map_elfWithin ==
  ASSUME NEW dir \in Directories, NEW file \in Files, NEW image \in Nat, WritesWithin(dir, {}),
         image + BlocksOfFile(file) <= Total + 1
  PROVE  /\ process_map_elf(dir, file, image) \in Directories
         /\ SegmentsInFile(file) =>
              WritesWithin(process_map_elf(dir, file, image),
                           image .. (image + BlocksOfFile(file) - 1))
<1> DEFINE N == Len(file.segments)
           P == image .. (image + BlocksOfFile(file) - 1)
           Good(d) == d \in Directories /\ (SegmentsInFile(file) => WritesWithin(d, P))
<1>1. file.segments \in Seq(Segments) /\ N \in Nat
  BY DEF Files
<1>2. PICK g : MapsSegments(g, dir, file, image)
  BY <1>1, process_map_elfLoop
<1> DEFINE T == {n \in Nat : n <= N => Good(g[n])}
<1>3. 0 \in T
  BY <1>2 DEF WritesWithin, MapsSegments
<1>4. ASSUME NEW n \in Nat, n \in T PROVE n + 1 \in T
  <2> SUFFICES ASSUME n + 1 <= N PROVE Good(g[n + 1])
    OBVIOUS
  <2>1. Good(g[n]) /\ n + 1 \in 1 .. N /\ (n + 1) - 1 = n
    BY <1>1, <1>4
  <2>2. PICK s \in Segments : s = file.segments[n + 1]
    BY <1>1, <2>1
  <2>3. PICK v \in Int, f \in Int, c \in Int, right \in {"none", "read", "write"} :
          /\ v = paging_align_to_lower_page(s.vaddr)
          /\ f = FirstPage(image, s) /\ c = PageCount(image, s)
          /\ right = IF s.writable THEN "write" ELSE "read"
    BY SegmentPagesAreNumbers
  <2>4. g[n + 1] = paging_map_to(g[n], v, f, c, right)
    BY <1>2, <2>1, <2>2, <2>3 DEF MapsSegments
  <2>5. g[n + 1] \in Directories
    BY <2>1, <2>4, paging_map_toType
  <2>6. ASSUME SegmentsInFile(file) PROVE WritesWithin(g[n + 1], P)
    <3>1. n + 1 \in DOMAIN file.segments
      BY <1>1, <2>1
    <3>2. f .. (f + c - 1) \subseteq P
      BY <2>2, <2>3, <2>6, <3>1, SegmentInImage
    <3> HIDE DEF P
    <3> QED BY <2>1, <2>4, <2>6, <3>2, paging_map_toWithin
  <2> QED BY <2>5, <2>6
<1>5. \A n \in Nat : n \in T
  <2> HIDE DEF T
  <2> QED BY <1>3, <1>4, SetInduction
<1>6. Good(g[N])
  <2> HIDE DEF Good, N
  <2> QED BY <1>1, <1>5
<1> QED BY <1>2, <1>6 DEF MapsSegments

\* process_map_memory: what a new process can write to.
LEMMA process_map_memoryWithin ==
  ASSUME NEW file \in Files, NEW image \in Nat, NEW stack \in Nat,
         image + BlocksOfFile(file) <= Total + 1
  PROVE  /\ process_map_memory(file, image, stack) \in Directories
         /\ (elf_validate_loaded(file) => SegmentsInFile(file)) =>
              WritesWithin(process_map_memory(file, image, stack),
                (image .. (image + BlocksOfFile(file) - 1)) \cup (stack .. (stack + StackBlocks - 1)))
<1> DEFINE I == image .. (image + BlocksOfFile(file) - 1)
           S == stack .. (stack + StackBlocks - 1)
           safe == elf_validate_loaded(file) => SegmentsInFile(file)
<1>1. create_new_page_directory \in Directories /\ WritesWithin(create_new_page_directory, {})
  BY create_new_page_directoryType
<1>2. StackPage \in Int /\ StackBlocks \in Int /\ ProgramPage \in Int /\ BlocksOfFile(file) \in Int
  BY ProcessMemoryAssumption, BlocksOfFileType
<1>3. PICK d \in Directories :
        /\ safe => WritesWithin(d, I)
        /\ process_map_memory(file, image, stack) =
             paging_map_to(d, StackPage, stack, StackBlocks, "write")
  <2>1. CASE elf_validate_loaded(file)
    BY <1>1, <2>1, process_map_elfWithin DEF process_map_memory
  <2>2. CASE ~elf_validate_loaded(file)
    <3> DEFINE d == paging_map_to(create_new_page_directory, ProgramPage, image,
                                  BlocksOfFile(file), "write")
    <3>1. d \in Directories
      BY <1>1, <1>2, paging_map_toType
    <3>2. WritesWithin(create_new_page_directory, I)
      BY <1>1 DEF WritesWithin
    <3>3. WritesWithin(d, I)
      <4> HIDE DEF I
      <4>1. image .. (image + BlocksOfFile(file) - 1) \subseteq I
        BY DEF I
      <4> QED BY <1>2, <3>2, <4>1, paging_map_toWithin
    <3>4. process_map_memory(file, image, stack) =
            paging_map_to(d, StackPage, stack, StackBlocks, "write")
      BY <2>2 DEF process_map_memory, process_map_binary
    <3> HIDE DEF d
    <3> QED BY <3>1, <3>3, <3>4
  <2> QED BY <2>1, <2>2
<1>4. process_map_memory(file, image, stack) \in Directories
  BY <1>2, <1>3, paging_map_toType
<1>5. ASSUME safe PROVE WritesWithin(process_map_memory(file, image, stack), I \cup S)
  <2>1. WritesWithin(d, I \cup S)
    BY <1>3, <1>5 DEF WritesWithin
  <2>2. stack .. (stack + StackBlocks - 1) \subseteq I \cup S
    OBVIOUS
  <2> HIDE DEF I, S
  <2> QED BY <1>2, <1>3, <2>1, <2>2, paging_map_toWithin
<1> QED BY <1>4, <1>5
-----------------------------------------------------------------------------
(* The steps. *)

\* The program of a process maps nothing but its file.
Safe(file) == elf_validate_loaded(file) => SegmentsInFile(file)

\* What the invariant says of a process that is loaded.
LEMMA LoadedProcess ==
  ASSUME ProcessMemoryInv, NEW p \in Slots, Loaded(p)
  PROVE  /\ processes[p] \in ProcessRecords
         /\ HoldsRegions(p)
         /\ Safe(processes[p].file) => WritesHeld(p)
  BY DEF ProcessMemoryInv, TypeOK, Loaded, Safe

\* A process that is not loaded owns nothing.
LEMMA UnloadedOwnsNothing ==
  ASSUME ProcessMemoryInv, NEW p \in Slots, ~Loaded(p), NEW r \in live
  PROVE  r.owner /= p
  BY DEF ProcessMemoryInv, RegionsAreReferenced, References

LEMMA LostIsNoSlot == Lost \notin Slots
  BY ProcessMemoryAssumption DEF Lost, Slots

\* A failed load leaves the processes alone and adds what nobody points to.
LEMMA LossPreservesInv ==
  ASSUME ProcessMemoryInv, UNCHANGED processes, undefined' \in BOOLEAN,
         live \subseteq live', live' \subseteq Regions, RegionsApart(live'),
         \A r \in live' \ live : r.owner = Lost
  PROVE  ProcessMemoryInv'
<1>1. TypeOK'
  BY DEF ProcessMemoryInv, TypeOK
<1>2. \A p \in Slots : Loaded(p)' = Loaded(p) /\ References(p)' = References(p)
  BY DEF Loaded, References, AllocationsOf
<1>3. ASSUME NEW p \in Slots, Loaded(p)' PROVE HoldsRegions(p)'
  BY <1>2, <1>3, LoadedProcess DEF HoldsRegions
<1>4. ASSUME NEW p \in Slots, Loaded(p)', Safe(processes[p].file)' PROVE WritesHeld(p)'
  BY <1>2, <1>4, LoadedProcess DEF WritesHeld, Safe
<1>5. RegionsAreReferenced'
  <2>1. ASSUME NEW p \in Slots
        PROVE  {s \in live' : s.owner = p} = {s \in live : s.owner = p}
    BY LostIsNoSlot
  <2> QED BY <1>2, <2>1 DEF ProcessMemoryInv, RegionsAreReferenced
<1>6. AllocationsDiffer'
  BY <1>2 DEF ProcessMemoryInv, AllocationsDiffer
<1> QED BY <1>1, <1>3, <1>4, <1>5, <1>6 DEF ProcessMemoryInv, Safe

\* Regions a load has taken so far, on top of those in use.
Grown(regions) == live \subseteq regions /\ regions \subseteq Regions /\ RegionsApart(regions)

\* What a failed load has taken is lost, and nothing else.
LEMMA FailedLoad ==
  ASSUME NEW regions, Grown(regions),
         live' = live \cup {[r EXCEPT !.owner = Lost] : r \in regions \ live}
  PROVE  /\ live \subseteq live' /\ live' \subseteq Regions /\ RegionsApart(live')
         /\ \A r \in live' \ live : r.owner = Lost
<1>1. ASSUME NEW r \in regions
      PROVE  /\ [r EXCEPT !.owner = Lost] = [ptr |-> r.ptr, blocks |-> r.blocks, owner |-> Lost]
             /\ r.ptr \in Addresses /\ r.blocks \in Nat \ {0}
  <2>1. r \in [ptr : Addresses, blocks : Nat \ {0}, owner : Slots \cup {Lost}]
    BY DEF Grown, Regions
  <2> QED BY <2>1
<1>2. live' = live \cup {[ptr |-> r.ptr, blocks |-> r.blocks, owner |-> Lost] : r \in regions \ live}
  BY <1>1
<1>3. live \subseteq live' /\ \A r \in live' \ live : r.owner = Lost
  BY <1>2
<1>4. live' \subseteq Regions
  BY <1>1, <1>2 DEF Grown, Regions
<1>5. RegionsApart(live')
  <2> SUFFICES ASSUME NEW x \in live', NEW y \in live', x /= y
               PROVE  Heap!BlocksOf(x) \cap Heap!BlocksOf(y) = {}
    BY DEF RegionsApart
  <2>1. ASSUME NEW z \in live'
        PROVE  \E r \in regions : /\ r.ptr = z.ptr /\ r.blocks = z.blocks
                                  /\ z = r \/ (r \notin live /\ z.owner = Lost)
    BY <1>2 DEF Grown
  <2>2. PICK r \in regions : /\ r.ptr = x.ptr /\ r.blocks = x.blocks
                             /\ x = r \/ (r \notin live /\ x.owner = Lost)
    BY <2>1
  <2>3. PICK s \in regions : /\ s.ptr = y.ptr /\ s.blocks = y.blocks
                             /\ y = s \/ (s \notin live /\ y.owner = Lost)
    BY <2>1
  <2>4. r /= s
    <3>1. ASSUME r = s PROVE FALSE
      <4>1. x.ptr = y.ptr /\ x.blocks = y.blocks
        BY <2>2, <2>3, <3>1
      <4>2. CASE r \in live
        BY <2>2, <2>3, <3>1, <4>2
      <4>3. CASE r \notin live
        <5>1. ASSUME NEW z \in live', z.ptr = r.ptr PROVE z.owner = Lost
          <6>1. z \notin live
            <7>1. ASSUME z \in live PROVE z = r
              BY <5>1, <7>1, PointersUnique DEF Grown
            <7> QED BY <4>3, <7>1
          <6> QED BY <1>3, <6>1
        <5>2. x.owner = Lost /\ y.owner = Lost
          BY <2>2, <2>3, <3>1, <5>1
        <5>3. x \in Regions /\ y \in Regions
          BY <1>4
        <5> QED BY <4>1, <5>2, <5>3 DEF Regions
      <4> QED BY <4>2, <4>3
    <3> QED BY <3>1
  <2>5. Heap!BlocksOf(r) \cap Heap!BlocksOf(s) = {}
    BY <2>4 DEF Grown, RegionsApart
  <2> QED BY <2>2, <2>3, <2>5 DEF Heap!BlocksOf
<1> QED BY <1>3, <1>4, <1>5

\* One more region.
LEMMA GrownTakes ==
  ASSUME NEW regions, Grown(regions), NEW n \in Nat \ {0}, NEW a, a = kzalloc(regions, n),
         a /= NoPtr, NEW o \in Slots \cup {Lost}
  PROVE  /\ a \in Addresses /\ a + n <= Total + 1
         /\ Grown(regions \cup {Region(a, n, o)})
         /\ \A r \in regions : r.ptr /= a
<1>1. regions \subseteq Regions /\ RegionsApart(regions) /\ live \subseteq regions
  BY DEF Grown
<1>2. /\ a \in Addresses /\ a + n <= Total + 1 /\ Region(a, n, o) \in Regions
      /\ RegionsApart(regions \cup {Region(a, n, o)})
      /\ \A r \in regions : r.ptr /= a
  BY <1>1, kzallocKeepsApart
<1> QED BY <1>1, <1>2 DEF Grown

\* What a load that succeeds takes for the process: five regions, or four when the
\* file is a plain binary.
Taken(p, file, process, elf_file, image, stack, task) ==
  {Region(process, ProcessBlocks, p), Region(image, BlocksOfFile(file), p),
   Region(stack, StackBlocks, p), Region(task, TaskBlocks, p)}
    \cup (IF elf_file = NoPtr THEN {} ELSE {Region(elf_file, ElfFileBlocks, p)})

\* A load that succeeds: none of the regions was in use, and what else is taken
\* is lost.
LoadsTo(p, file, process, elf_file, image, stack, task) ==
  /\ process \notin {elf_file, image, stack, task} /\ elf_file \notin {image, stack, task}
  /\ image \notin {stack, task} /\ stack /= task
  /\ image + BlocksOfFile(file) <= Total + 1
  /\ Grown(live')
  /\ Taken(p, file, process, elf_file, image, stack, task) \subseteq live'
  /\ \A r \in live' \ live :
       r \in Taken(p, file, process, elf_file, image, stack, task) \/ r.owner = Lost
  /\ processes' = [processes EXCEPT ![p] =
       [process |-> process, file |-> file, elf_file |-> elf_file, image |-> image,
        stack |-> stack, task |-> task, directory |-> process_map_memory(file, image, stack),
        allocations |-> [i \in Indices |-> NoAllocation]]]
  /\ UNCHANGED undefined

Loads(p, file) ==
  \E process \in Addresses, elf_file \in Addresses \cup {NoPtr}, image \in Addresses,
     stack \in Addresses, task \in Addresses :
    LoadsTo(p, file, process, elf_file, image, stack, task)

\* One that fails, or that uses a null pointer.
LoadFails ==
  /\ UNCHANGED processes /\ undefined' \in BOOLEAN
  /\ live \subseteq live' /\ live' \subseteq Regions /\ RegionsApart(live')
  /\ \A r \in live' \ live : r.owner = Lost

LEMMA process_loadOutcome ==
  ASSUME ProcessMemoryInv, NEW p \in Slots, NEW file \in Images, process_load(p, file)
  PROVE  Loads(p, file) \/ LoadFails
<1> DEFINE elf == elf_validate_loaded(file)
           keeper == IF elf THEN p ELSE Lost
           blocks == BlocksOfFile(file)
           process == kzalloc(live, ProcessBlocks)
           with_process == live \cup {Region(process, ProcessBlocks, p)}
           elf_file == kzalloc(with_process, ElfFileBlocks)
           with_elf_file == with_process \cup {Region(elf_file, ElfFileBlocks, keeper)}
           memory == kzalloc(with_elf_file, blocks)
           with_memory == with_elf_file \cup {Region(memory, blocks, keeper)}
           image == IF elf THEN memory ELSE kzalloc(with_memory, blocks)
           with_image == with_memory \cup {Region(image, blocks, p)}
           stack == kzalloc(with_image, StackBlocks)
           with_stack == with_image \cup {Region(stack, StackBlocks, p)}
           task == kzalloc(with_stack, TaskBlocks)
           with_task == with_stack \cup {Region(task, TaskBlocks, p)}
           held == IF elf THEN elf_file ELSE NoPtr
           Fails(regions) ==
             /\ live' = live \cup {[r EXCEPT !.owner = Lost] : r \in regions \ live}
             /\ UNCHANGED <<processes, undefined>>
           Misused == undefined' = TRUE /\ UNCHANGED <<live, processes>>
           Succeeds ==
             /\ live' = with_task
             /\ processes' = [processes EXCEPT ![p] =
                  [process |-> process, file |-> file, elf_file |-> held, image |-> image,
                   stack |-> stack, task |-> task,
                   directory |-> process_map_memory(file, image, stack),
                   allocations |-> [i \in Indices |-> NoAllocation]]]
             /\ UNCHANGED undefined
<1>0. \/ Misused
      \/ process /= NoPtr /\ Fails(with_process)
      \/ process /= NoPtr /\ elf_file /= NoPtr /\ Fails(with_elf_file)
      \/ process /= NoPtr /\ elf_file /= NoPtr /\ memory /= NoPtr /\ Fails(with_memory)
      \/ /\ process /= NoPtr /\ elf_file /= NoPtr /\ memory /= NoPtr /\ image /= NoPtr
         /\ Fails(with_image)
      \/ /\ process /= NoPtr /\ elf_file /= NoPtr /\ memory /= NoPtr /\ image /= NoPtr
         /\ stack /= NoPtr
         /\ Fails(with_stack) \/ (task /= NoPtr /\ Succeeds)
  BY DEF process_load
<1>1. /\ Grown(live) /\ undefined \in BOOLEAN /\ elf \in BOOLEAN
      /\ ProcessBlocks \in Nat \ {0} /\ ElfFileBlocks \in Nat \ {0}
      /\ StackBlocks \in Nat \ {0} /\ TaskBlocks \in Nat \ {0}
      /\ blocks \in Nat \ {0}
      /\ p \in Slots \cup {Lost} /\ keeper \in Slots \cup {Lost}
  BY ProcessMemoryAssumption, BlocksOfFileType
     DEF Grown, ProcessMemoryInv, TypeOK, elf_validate_loaded
<1> HIDE DEF Fails, Misused, Succeeds, process, elf_file, memory, image, stack, task, blocks, elf
<1>2. Misused => LoadFails
  BY <1>1 DEF LoadFails, Grown, Misused
<1>3. ASSUME NEW regions, Grown(regions), Fails(regions) PROVE LoadFails
  BY <1>1, <1>3, FailedLoad DEF LoadFails, Fails
<1>4. process /= NoPtr => process \in Addresses /\ Grown(with_process)
  BY <1>1, GrownTakes DEF process
<1>5. ASSUME process /= NoPtr, elf_file /= NoPtr
      PROVE  /\ elf_file \in Addresses /\ Grown(with_elf_file)
             /\ \A r \in with_process : r.ptr /= elf_file
  <2> HIDE DEF with_process, keeper
  <2> QED BY <1>1, <1>4, <1>5, GrownTakes DEF elf_file
<1>6. ASSUME process /= NoPtr, elf_file /= NoPtr, memory /= NoPtr
      PROVE  /\ Grown(with_memory)
             /\ image /= NoPtr =>
                  /\ image \in Addresses /\ image + blocks <= Total + 1 /\ Grown(with_image)
                  /\ \A r \in with_elf_file : r.ptr /= image
                  /\ \A r \in with_image \ with_elf_file :
                       r = Region(image, blocks, p) \/ r.owner = Lost
  <2>0. PICK e \in BOOLEAN, n \in Nat \ {0} : e = elf /\ n = blocks
    BY <1>1
  <2>1. PICK before, k, m, wm, im, wi :
          /\ before = with_elf_file /\ k = keeper /\ m = memory /\ wm = with_memory
          /\ im = image /\ wi = with_image
    OBVIOUS
  <2>2. /\ Grown(before) /\ k = (IF e THEN p ELSE Lost)
        /\ m = kzalloc(before, n) /\ m /= NoPtr
        /\ wm = before \cup {Region(m, n, k)}
        /\ im = (IF e THEN m ELSE kzalloc(wm, n))
        /\ wi = wm \cup {Region(im, n, p)}
    BY <1>5, <1>6, <2>0, <2>1 DEF memory, image
  <2>3. /\ Grown(wm)
        /\ im /= NoPtr =>
             /\ im \in Addresses /\ im + n <= Total + 1 /\ Grown(wi)
             /\ \A r \in before : r.ptr /= im
             /\ \A r \in wi \ before : r = Region(im, n, p) \/ r.owner = Lost
    <3> HIDE DEF with_elf_file, with_memory, with_image, keeper
    <3>1. k \in Slots \cup {Lost} /\ p \in Slots \cup {Lost}
      BY <2>2
    <3>2. /\ m \in Addresses /\ m + n <= Total + 1 /\ Grown(wm)
          /\ \A r \in before : r.ptr /= m
      BY <2>2, <3>1, GrownTakes
    <3>3. CASE e
      BY <2>2, <3>2, <3>3
    <3>4. CASE ~e
      <4>1. im /= NoPtr => /\ im \in Addresses /\ im + n <= Total + 1 /\ Grown(wi)
                           /\ \A r \in wm : r.ptr /= im
        BY <2>2, <3>1, <3>2, <3>4, GrownTakes
      <4>2. Region(m, n, k).owner = Lost
        BY <2>2, <3>4 DEF Region
      <4>3. \A r \in wi \ before : r = Region(im, n, p) \/ r.owner = Lost
        BY <2>2, <4>2
      <4> QED BY <2>2, <3>2, <4>1, <4>3
    <3> QED BY <3>3, <3>4
  <2> HIDE DEF with_elf_file, with_memory, with_image, keeper
  <2> QED BY <2>0, <2>1, <2>3
<1>7. ASSUME process /= NoPtr, elf_file /= NoPtr, memory /= NoPtr, image /= NoPtr, stack /= NoPtr
      PROVE  /\ stack \in Addresses /\ Grown(with_stack)
             /\ \A r \in with_image : r.ptr /= stack
  <2> HIDE DEF with_image
  <2> QED BY <1>1, <1>6, <1>7, GrownTakes DEF stack
<1>8. ASSUME process /= NoPtr, elf_file /= NoPtr, memory /= NoPtr, image /= NoPtr, stack /= NoPtr,
             task /= NoPtr, Succeeds
      PROVE  Loads(p, file)
  <2>1. /\ task \in Addresses /\ Grown(with_task) /\ \A r \in with_stack : r.ptr /= task
    <3> HIDE DEF with_stack
    <3> QED BY <1>1, <1>7, <1>8, GrownTakes DEF task
  <2>2. \A a, n, o : Region(a, n, o).ptr = a /\ Region(a, n, o).owner = o
    BY DEF Region
  <2>3. /\ Region(process, ProcessBlocks, p) \in with_process
        /\ with_process \subseteq with_elf_file
        /\ Region(elf_file, ElfFileBlocks, keeper) \in with_elf_file
        /\ with_elf_file \subseteq with_image /\ Region(image, blocks, p) \in with_image
        /\ with_image \subseteq with_stack /\ Region(stack, StackBlocks, p) \in with_stack
        /\ with_stack \subseteq with_task /\ Region(task, TaskBlocks, p) \in with_task
    OBVIOUS
  <2>4. PICK h \in Addresses \cup {NoPtr} : h = held /\ h \in {elf_file, NoPtr}
    BY <1>5, <1>8
  <2>5. NoPtr \notin Addresses
    BY DEF NoPtr, Addresses
  <2>6. /\ process \notin {elf_file, image, stack, task} /\ elf_file \notin {image, stack, task}
        /\ image \notin {stack, task} /\ stack /= task
    <3> HIDE DEF with_process, with_elf_file, with_image, with_stack, with_task, keeper
    <3> QED BY <1>5, <1>6, <1>7, <1>8, <2>1, <2>2, <2>3
  <2>7. /\ process \notin {h, image, stack, task} /\ h \notin {image, stack, task}
    BY <1>4, <1>6, <1>7, <1>8, <2>1, <2>4, <2>5, <2>6
  <2> DEFINE taken == Taken(p, file, process, h, image, stack, task)
  <2>8. taken = {Region(process, ProcessBlocks, p), Region(image, blocks, p),
                 Region(stack, StackBlocks, p), Region(task, TaskBlocks, p)}
                  \cup (IF h = NoPtr THEN {} ELSE {Region(elf_file, ElfFileBlocks, p)})
    BY <2>4 DEF Taken, blocks
  <2>9. h /= NoPtr => keeper = p
    BY <2>4
  <2>10. h = NoPtr => Region(elf_file, ElfFileBlocks, keeper).owner = Lost
    BY <1>5, <1>8, <2>2, <2>4, <2>5
  <2>11. live' = with_task
    BY <1>8 DEF Succeeds
  <2>12. taken \subseteq live'
    <3> HIDE DEF taken, with_process, with_elf_file, with_image, with_stack, with_task, keeper, held
    <3> QED BY <2>3, <2>8, <2>9, <2>11
  <2>13. ASSUME NEW r \in live' \ live PROVE r \in taken \/ r.owner = Lost
    <3>1. \/ r \in with_image \ with_elf_file
          \/ r \in {Region(process, ProcessBlocks, p), Region(elf_file, ElfFileBlocks, keeper),
                    Region(stack, StackBlocks, p), Region(task, TaskBlocks, p)}
      BY <2>11
    <3> HIDE DEF taken, with_process, with_elf_file, with_image, with_stack, with_task, keeper, held
    <3> QED BY <1>6, <1>8, <2>8, <2>9, <2>10, <3>1
  <2>14. image + BlocksOfFile(file) <= Total + 1
    BY <1>6, <1>8 DEF blocks
  <2>15. LoadsTo(p, file, process, h, image, stack, task)
    <3> HIDE DEF with_process, with_elf_file, with_image, with_stack, keeper, held
    <3>1. /\ processes' = [processes EXCEPT ![p] =
               [process |-> process, file |-> file, elf_file |-> h, image |-> image,
                stack |-> stack, task |-> task,
                directory |-> process_map_memory(file, image, stack),
                allocations |-> [i \in Indices |-> NoAllocation]]]
          /\ UNCHANGED undefined
      BY <1>8, <2>4 DEF Succeeds
    <3> HIDE DEF with_task
    <3> QED BY <2>1, <2>6, <2>7, <2>11, <2>12, <2>13, <2>14, <3>1 DEF LoadsTo
  <2> HIDE DEF with_process, with_elf_file, with_image, with_stack, with_task, keeper, held
  <2> QED BY <1>4, <1>6, <1>7, <1>8, <2>1, <2>4, <2>15 DEF Loads
<1> HIDE DEF with_process, with_elf_file, with_memory, with_image, with_stack, with_task, keeper, held
<1> QED BY <1>0, <1>2, <1>3, <1>4, <1>5, <1>6, <1>7, <1>8

\* The invariant, process by process.
OwnAllocationsDiffer(q) ==
  \A i, j \in Indices :
    (i /= j /\ processes[q].allocations[i].ptr = processes[q].allocations[j].ptr)
      => processes[q].allocations[i] = NoAllocation

ProcessOK(q) ==
  /\ Loaded(q) => HoldsRegions(q) /\ OwnAllocationsDiffer(q)
  /\ Loaded(q) /\ Safe(processes[q].file) => WritesHeld(q)
  /\ {r.ptr : r \in {s \in live : s.owner = q}} = References(q)

LEMMA InvByProcess ==
  ProcessMemoryInv <=> TypeOK /\ RegionsApart(live) /\ \A q \in Slots : ProcessOK(q)
  BY DEF ProcessMemoryInv, ProcessOK, OwnAllocationsDiffer, RegionsAreReferenced,
         AllocationsDiffer, Safe

\* A step that changes neither a process nor what it owns.
LEMMA OtherProcessOK ==
  ASSUME NEW q \in Slots, ProcessOK(q), processes'[q] = processes[q],
         {s \in live' : s.owner = q} = {s \in live : s.owner = q}
  PROVE  ProcessOK(q)'
<1>1. Loaded(q)' = Loaded(q) /\ References(q)' = References(q)
  BY DEF Loaded, References, AllocationsOf
<1>2. ASSUME Loaded(q)' PROVE HoldsRegions(q)' /\ OwnAllocationsDiffer(q)'
  <2>1. HoldsRegions(q) /\ OwnAllocationsDiffer(q)
    BY <1>1, <1>2 DEF ProcessOK
  <2>2. \A a, n : Region(a, n, q) \in live => Region(a, n, q) \in live'
    BY DEF Region
  <2>3. HoldsRegions(q)'
    BY <2>1, <2>2 DEF HoldsRegions
  <2> QED BY <2>1, <2>3 DEF OwnAllocationsDiffer
<1>3. ASSUME Loaded(q)', Safe(processes[q].file)' PROVE WritesHeld(q)'
  BY <1>1, <1>3 DEF ProcessOK, WritesHeld, Safe
<1>4. {r.ptr : r \in {s \in live : s.owner = q}}' = References(q)'
  BY <1>1 DEF ProcessOK
<1> QED BY <1>2, <1>3, <1>4 DEF ProcessOK

\* A step for one process, which leaves the others and what they own alone.
LEMMA StepOfProcess ==
  ASSUME ProcessMemoryInv, NEW p \in Slots, TypeOK', RegionsApart(live)', ProcessOK(p)',
         \A q \in Slots \ {p} : processes'[q] = processes[q],
         \A r \in (live \ live') \cup (live' \ live) : r.owner \in {p, Lost}
  PROVE  ProcessMemoryInv'
<1>1. ASSUME NEW q \in Slots, q /= p PROVE ProcessOK(q)'
  <2>1. ProcessOK(q) /\ processes'[q] = processes[q]
    BY <1>1, InvByProcess
  <2>2. {s \in live' : s.owner = q} = {s \in live : s.owner = q}
    BY <1>1, LostIsNoSlot
  <2> QED BY <2>1, <2>2, OtherProcessOK
<1>2. \A q \in Slots : ProcessOK(q)'
  BY <1>1
<1> QED BY <1>2 DEF ProcessMemoryInv, ProcessOK, OwnAllocationsDiffer, RegionsAreReferenced,
                    AllocationsDiffer, Safe

\* process_load, when it succeeds.
LEMMA LoadsPreservesInv ==
  ASSUME ProcessMemoryInv, NEW p \in Slots, ~Loaded(p), NEW file \in Images, Loads(p, file)
  PROVE  ProcessMemoryInv'
<1>1. PICK process \in Addresses, elf_file \in Addresses \cup {NoPtr}, image \in Addresses,
           stack \in Addresses, task \in Addresses :
        LoadsTo(p, file, process, elf_file, image, stack, task)
  BY DEF Loads
<1> DEFINE taken == Taken(p, file, process, elf_file, image, stack, task)
           dir == process_map_memory(file, image, stack)
<1>2. TypeOK /\ processes \in [Slots -> ProcessRecords \cup {Unloaded}] /\ undefined \in BOOLEAN
  BY DEF ProcessMemoryInv, TypeOK
<1>3. file \in Files /\ image \in Nat /\ stack \in Nat /\ image + BlocksOfFile(file) <= Total + 1
  BY <1>1, ProcessMemoryAssumption DEF Addresses, LoadsTo
<1>4. /\ dir \in Directories
      /\ Safe(file) => WritesWithin(dir, (image .. (image + BlocksOfFile(file) - 1))
                                           \cup (stack .. (stack + StackBlocks - 1)))
  BY <1>3, process_map_memoryWithin DEF Safe
<1> HIDE DEF dir
<1>5. PICK own \in ProcessRecords :
        own = [process |-> process, file |-> file, elf_file |-> elf_file, image |-> image,
               stack |-> stack, task |-> task, directory |-> dir,
               allocations |-> [i \in Indices |-> NoAllocation]]
  <2>1. [i \in Indices |-> NoAllocation] \in [Indices -> Allocations]
    BY DEF NoAllocation, Allocations
  <2> QED BY <1>4, <2>1 DEF ProcessRecords, Directories
<1>6. processes' = [processes EXCEPT ![p] = own] /\ processes'[p] = own
  BY <1>1, <1>2, <1>5 DEF dir, LoadsTo
<1>7. TypeOK'
  BY <1>1, <1>2, <1>6 DEF TypeOK, Grown, LoadsTo
<1>8. /\ own.process = process /\ own.file = file /\ own.elf_file = elf_file
      /\ own.image = image /\ own.stack = stack
      /\ own.task = task /\ own.directory = dir
      /\ \A i \in Indices : own.allocations[i] = NoAllocation
  BY <1>5
<1>9. Loaded(p)'
  <2>1. own.image /= NoPtr
    BY <1>8 DEF Addresses, NoPtr
  <2> QED BY <1>6, <2>1 DEF Loaded, Unloaded
<1>10. HoldsRegions(p)' /\ OwnAllocationsDiffer(p)'
  <2>1. taken \subseteq live'
    BY <1>1 DEF LoadsTo
  <2>2. /\ process \notin {elf_file, image, stack, task} /\ elf_file \notin {image, stack, task}
        /\ image \notin {stack, task} /\ stack /= task
    BY <1>1 DEF LoadsTo
  <2> QED BY <1>6, <1>8, <2>1, <2>2 DEF HoldsRegions, OwnAllocationsDiffer, Taken
<1>11. ASSUME Safe(file) PROVE WritesHeld(p)'
  <2>1. \A v \in VirtualPages : own.directory[v].right = "write" =>
          \/ own.directory[v].page \in own.image .. (own.image + BlocksOfFile(own.file) - 1)
          \/ own.directory[v].page \in own.stack .. (own.stack + StackBlocks - 1)
    BY <1>4, <1>8, <1>11 DEF WritesWithin
  <2> QED BY <1>6, <2>1 DEF WritesHeld
<1>12. {s \in live' : s.owner = p} = taken
  <2>1. \A r \in live : r.owner /= p
    BY UnloadedOwnsNothing
  <2>2. \A r \in taken : r.owner = p
    BY DEF Region, Taken
  <2>3. taken \subseteq live' /\ \A r \in live' \ live : r \in taken \/ r.owner = Lost
    BY <1>1 DEF LoadsTo
  <2> HIDE DEF taken
  <2> QED BY <2>1, <2>2, <2>3, LostIsNoSlot
<1>13. {r.ptr : r \in {s \in live : s.owner = p}}' = References(p)'
  <2>1. {r.ptr : r \in taken} = {process, elf_file, image, stack, task} \ {NoPtr}
    <3>1. \A o, n : Region(o, n, p).ptr = o
      BY DEF Region
    <3>2. process /= NoPtr /\ image /= NoPtr /\ stack /= NoPtr /\ task /= NoPtr
      BY DEF Addresses, NoPtr
    <3>3. CASE elf_file = NoPtr
      BY <3>1, <3>2, <3>3 DEF Taken
    <3>4. CASE elf_file /= NoPtr
      BY <3>1, <3>2, <3>4 DEF Taken
    <3> QED BY <3>3, <3>4
  <2>2. AllocationsOf(p)' = {}
    BY <1>6, <1>8 DEF AllocationsOf, NoAllocation
  <2>3. References(p)' = {process, elf_file, image, stack, task} \ {NoPtr}
    BY <1>6, <1>8, <1>9, <2>2 DEF References, Structures
  <2> QED BY <1>12, <2>1, <2>3
<1>14. ProcessOK(p)'
  BY <1>6, <1>8, <1>10, <1>11, <1>13 DEF ProcessOK
<1>15. \A q \in Slots \ {p} : processes'[q] = processes[q]
  BY <1>2, <1>6
<1>16. \A r \in (live \ live') \cup (live' \ live) : r.owner \in {p, Lost}
  <2>1. \A r \in taken : r.owner = p
    BY DEF Region, Taken
  <2>2. live \subseteq live' /\ \A r \in live' \ live : r \in taken \/ r.owner = Lost
    BY <1>1 DEF LoadsTo, Grown
  <2> QED BY <2>1, <2>2
<1>17. RegionsApart(live)'
  BY <1>1 DEF Grown, LoadsTo
<1> QED BY <1>7, <1>14, <1>15, <1>16, <1>17, StepOfProcess

\* The record of a process, one field at a time.
LEMMA RecordFields ==
  ASSUME NEW own \in ProcessRecords
  PROVE  /\ own.process \in Addresses /\ own.file \in Images
         /\ own.elf_file \in Addresses \cup {NoPtr} /\ own.image \in Addresses
         /\ own.stack \in Addresses /\ own.task \in Addresses
         /\ own.directory \in Directories /\ own.allocations \in [Indices -> Allocations]
  BY DEF ProcessRecords, Directories

\* An entry of the table of allocations with the null pointer is free.
LEMMA FreeEntry ==
  ASSUME ProcessMemoryInv, NEW p \in Slots, Loaded(p), NEW i \in Indices,
         processes[p].allocations[i].ptr = NoPtr
  PROVE  processes[p].allocations[i] = NoAllocation
<1>1. HoldsRegions(p) /\ live \subseteq Regions
  BY LoadedProcess DEF ProcessMemoryInv, TypeOK
<1>2. Region(NoPtr, processes[p].allocations[i].blocks, p) \notin live
  BY <1>1 DEF Region, Regions, NoPtr, Addresses
<1> QED BY <1>1, <1>2 DEF HoldsRegions

\* One entry of the table of allocations is replaced.
LEMMA TableUpdated ==
  ASSUME NEW old \in [Indices -> Allocations], NEW i \in Indices, NEW entry \in Allocations
  PROVE  \E table \in [Indices -> Allocations] :
           /\ table = [old EXCEPT ![i] = entry]
           /\ table[i] = entry /\ \A j \in Indices \ {i} : table[j] = old[j]
<1>1. PICK table : table = [old EXCEPT ![i] = entry]
  OBVIOUS
<1>2. table \in [Indices -> Allocations]
  BY <1>1
<1>3. table[i] = entry /\ \A j \in Indices \ {i} : table[j] = old[j]
  BY <1>1
<1> QED BY <1>1, <1>2, <1>3

\* process_malloc.
LEMMA process_mallocPreservesInv ==
  ASSUME ProcessMemoryInv, NEW p \in Slots, Loaded(p), NEW n \in Sizes, process_malloc(p, n)
  PROVE  ProcessMemoryInv'
<1> DEFINE a == kzalloc(live, n)
<1>1. CASE UNCHANGED vars
  BY <1>1, LossPreservesInv DEF vars, ProcessMemoryInv, TypeOK
<1>2. CASE ~UNCHANGED vars
  <2>1. PICK i \in process_find_free_allocation_index(p) :
          /\ a /= NoPtr
          /\ live' = live \cup {Region(a, n, p)}
          /\ processes' = [processes EXCEPT
               ![p].directory = paging_map_to(@, a, a, n, "write"),
               ![p].allocations[i] = [ptr |-> a, blocks |-> n]]
          /\ UNCHANGED undefined
    BY <1>2 DEF process_malloc
  <2> HIDE DEF a
  <2>2. PICK own \in ProcessRecords : own = processes[p]
    BY LoadedProcess
  <2>3. i \in Indices /\ own.allocations[i] = NoAllocation
    BY <2>2, FreeEntry DEF process_find_free_allocation_index
  <2>4. PICK dir : dir = paging_map_to(own.directory, a, a, n, "write")
    OBVIOUS
  <2>5. PICK new : new = [own EXCEPT !.directory = dir,
                                     !.allocations = [own.allocations EXCEPT ![i] = [ptr |-> a, blocks |-> n]]]
    OBVIOUS
  <2>6. processes' = [processes EXCEPT ![p] = new]
    BY <2>1, <2>2, <2>4, <2>5
  <2>7. /\ a \in Addresses /\ Grown(live \cup {Region(a, n, p)})
        /\ \A r \in live : r.ptr /= a
    <3>1. Grown(live) /\ n \in Nat \ {0} /\ p \in Slots \cup {Lost}
      BY ProcessMemoryAssumption DEF Grown, ProcessMemoryInv, TypeOK
    <3> QED BY <2>1, <3>1, GrownTakes DEF a
  <2>8. n \in Nat \ {0} /\ a \in Nat
    BY <2>7, ProcessMemoryAssumption DEF Addresses
  <2>9. /\ own.directory \in Directories /\ own.allocations \in [Indices -> Allocations]
        /\ own.image \in Addresses /\ own.file \in Images
    BY RecordFields
  <2>10. dir \in Directories
    <3>1. a \in Int /\ n \in Int
      BY <2>8
    <3> QED BY <2>4, <2>9, <3>1, paging_map_toType
  <2>11. PICK entry \in Allocations : entry = [ptr |-> a, blocks |-> n]
    BY <2>7, <2>8 DEF Allocations
  <2>12. PICK table \in [Indices -> Allocations] :
           /\ table = [own.allocations EXCEPT ![i] = entry]
           /\ table[i] = entry /\ \A j \in Indices \ {i} : table[j] = own.allocations[j]
    <3>1. PICK old \in [Indices -> Allocations] : old = own.allocations
      BY <2>9
    <3>2. PICK j \in Indices : j = i
      BY <2>3
    <3>3. \E table \in [Indices -> Allocations] :
            /\ table = [old EXCEPT ![j] = entry]
            /\ table[j] = entry /\ \A k \in Indices \ {j} : table[k] = old[k]
      BY TableUpdated
    <3> QED BY <3>1, <3>2, <3>3
  <2>13. new \in ProcessRecords
    BY <2>5, <2>10, <2>11, <2>12 DEF ProcessRecords, Directories
  <2>14. /\ new.process = own.process /\ new.file = own.file /\ new.elf_file = own.elf_file
         /\ new.image = own.image /\ new.stack = own.stack /\ new.task = own.task
         /\ new.directory = dir /\ new.allocations = table
         /\ Structures(new) = Structures(own)
    BY <2>5, <2>11, <2>12 DEF ProcessRecords, Structures
  <2>15. /\ processes \in [Slots -> ProcessRecords \cup {Unloaded}] /\ undefined \in BOOLEAN
         /\ processes'[p] = new
    BY <2>6 DEF ProcessMemoryInv, TypeOK
  <2>16. TypeOK'
    BY <2>1, <2>6, <2>7, <2>13, <2>15 DEF TypeOK, Grown
  <2>17. Loaded(p)'
    <3>1. new.image /= NoPtr
      BY <2>9, <2>14 DEF Addresses, NoPtr
    <3> QED BY <2>15, <3>1 DEF Loaded, Unloaded
  <2>18. HoldsRegions(p)
    BY LoadedProcess
  <2>19. HoldsRegions(p)'
    <3>1. Region(a, n, p) \in live' /\ live \subseteq live'
      BY <2>1
    <3>2. a \notin Structures(own)
      BY <2>2, <2>7, <2>18 DEF HoldsRegions, Structures, Region
    <3>3. ASSUME NEW j \in Indices
          PROVE  \/ table[j] = NoAllocation
                 \/ /\ Region(table[j].ptr, table[j].blocks, p) \in live'
                    /\ table[j].ptr \notin Structures(own)
      <4>1. CASE j = i
        BY <2>11, <2>12, <3>1, <3>2, <4>1
      <4>2. CASE j /= i
        BY <2>2, <2>12, <2>18, <3>1, <4>2 DEF HoldsRegions
      <4> QED BY <4>1, <4>2
    <3> QED BY <2>2, <2>14, <2>15, <2>18, <3>1, <3>3 DEF HoldsRegions
  <2>20. OwnAllocationsDiffer(p)'
    <3>1. ASSUME NEW j \in Indices \ {i} PROVE table[j].ptr /= a
      <4>1. table[j] = NoAllocation \/ Region(table[j].ptr, table[j].blocks, p) \in live
        BY <2>2, <2>12, <2>18 DEF HoldsRegions
      <4> QED BY <2>1, <2>7, <4>1 DEF Region, NoAllocation
    <3>2. ASSUME NEW j \in Indices, NEW k \in Indices, j /= k, table[j].ptr = table[k].ptr
          PROVE  table[j] = NoAllocation
      <4>1. j /= i /\ k /= i
        BY <2>11, <2>12, <3>1, <3>2
      <4>2. OwnAllocationsDiffer(p)
        BY InvByProcess DEF ProcessOK
      <4> QED BY <2>2, <2>12, <3>2, <4>1, <4>2 DEF OwnAllocationsDiffer
    <3> QED BY <2>14, <2>15, <3>2 DEF OwnAllocationsDiffer
  <2>21. ASSUME Safe(own.file) PROVE WritesHeld(p)'
    <3>1. ASSUME NEW v \in VirtualPages, dir[v].right = "write"
          PROVE  \/ dir[v].page \in own.image .. (own.image + BlocksOfFile(own.file) - 1)
                 \/ dir[v].page \in own.stack .. (own.stack + StackBlocks - 1)
                 \/ /\ dir[v].page = v
                    /\ \E j \in Indices : v \in table[j].ptr .. (table[j].ptr + table[j].blocks - 1)
      <4>1. CASE v \in a .. (a + n - 1)
        <5>1. v \in Int
          BY <4>1
        <5>2. dir[v].page = v
          BY <2>4, <2>8, <4>1, <5>1 DEF paging_map_to, Entry
        <5> QED BY <2>3, <2>11, <2>12, <4>1, <5>2
      <4>2. CASE v \notin a .. (a + n - 1)
        <5>1. dir[v] = own.directory[v]
          BY <2>4, <4>2 DEF paging_map_to
        <5>2. \/ dir[v].page \in own.image .. (own.image + BlocksOfFile(own.file) - 1)
              \/ dir[v].page \in own.stack .. (own.stack + StackBlocks - 1)
              \/ /\ dir[v].page = v
                 /\ \E j \in Indices : v \in own.allocations[j].ptr
                        .. (own.allocations[j].ptr + own.allocations[j].blocks - 1)
          BY <2>2, <2>21, <3>1, <5>1, LoadedProcess DEF WritesHeld
        <5>3. v \notin own.allocations[i].ptr .. (own.allocations[i].ptr + own.allocations[i].blocks - 1)
          BY <2>3 DEF NoAllocation, NoPtr
        <5> QED BY <2>12, <5>2, <5>3
      <4> QED BY <4>1, <4>2
    <3> QED BY <2>14, <2>15, <3>1 DEF WritesHeld
  <2>22. {r.ptr : r \in {s \in live : s.owner = p}}' = References(p)'
    <3>1. {r.ptr : r \in {s \in live : s.owner = p}} = References(p)
      BY DEF ProcessMemoryInv, RegionsAreReferenced
    <3>2. {s \in live' : s.owner = p} = {s \in live : s.owner = p} \cup {Region(a, n, p)}
      BY <2>1 DEF Region
    <3>3. {r.ptr : r \in {s \in live' : s.owner = p}} = References(p) \cup {a}
      <4>0. PICK x : x = Region(a, n, p)
        OBVIOUS
      <4>1. x = Region(a, n, p) /\ x.ptr = a
        BY <4>0 DEF Region
      <4>2. PICK S : S = {s \in live : s.owner = p}
        OBVIOUS
      <4>3. {r.ptr : r \in S \cup {x}} = {r.ptr : r \in S} \cup {a}
        BY <4>1
      <4> QED BY <3>1, <3>2, <4>1, <4>2, <4>3
    <3>4. {table[j].ptr : j \in Indices} \ {NoPtr}
            = ({own.allocations[j].ptr : j \in Indices} \ {NoPtr}) \cup {a}
      BY <2>1, <2>3, <2>11, <2>12 DEF NoAllocation
    <3>5. AllocationsOf(p)' = AllocationsOf(p) \cup {a}
      BY <2>2, <2>14, <2>15, <3>4 DEF AllocationsOf
    <3>6. References(p)' = References(p) \cup {a}
      BY <2>2, <2>14, <2>15, <2>17, <3>5 DEF References
    <3> QED BY <3>3, <3>6
  <2>23. ProcessOK(p)'
    BY <2>14, <2>15, <2>19, <2>20, <2>21, <2>22 DEF ProcessOK
  <2>24. /\ \A q \in Slots \ {p} : processes'[q] = processes[q]
         /\ \A r \in (live \ live') \cup (live' \ live) : r.owner \in {p, Lost}
         /\ RegionsApart(live)'
    BY <2>1, <2>6, <2>7, <2>15 DEF Region, Grown
  <2> QED BY <2>16, <2>23, <2>24, StepOfProcess
<1> QED BY <1>1, <1>2

\* What a step gives back belonged to the process the step is for.
ReleasesOwn ==
  \A r \in live \ live' : r.owner \in Slots /\ processes[r.owner]' /= processes[r.owner]

\* process_free: of the null pointer it does nothing.
LEMMA process_freePreservesInv ==
  ASSUME ProcessMemoryInv, NEW p \in Slots, Loaded(p), NEW a \in Addresses \cup {NoPtr},
         process_free(p, a)
  PROVE  ProcessMemoryInv' /\ ReleasesOwn
<1>1. PICK own \in ProcessRecords : own = processes[p]
  BY LoadedProcess
<1>2. PICK i \in Indices :
        /\ own.allocations[i].ptr = a
        /\ processes' = [processes EXCEPT
             ![p].directory = paging_map_to(@, a, a, own.allocations[i].blocks, "none"),
             ![p].allocations[i] = NoAllocation]
        /\ live' = kfree(live, a)
        /\ UNCHANGED undefined
  BY <1>1 DEF process_free, is_current_process_ptr
<1>3. /\ own.directory \in Directories /\ own.allocations \in [Indices -> Allocations]
      /\ own.image \in Addresses /\ own.file \in Images
  BY RecordFields
<1>4. PICK n \in Nat : n = own.allocations[i].blocks
  BY <1>3 DEF Allocations
<1>5. PICK dir : dir = paging_map_to(own.directory, a, a, n, "none")
  OBVIOUS
<1>6. PICK old \in [Indices -> Allocations] : old = own.allocations
  BY <1>3
<1>7. PICK table \in [Indices -> Allocations] :
        /\ table = [old EXCEPT ![i] = NoAllocation]
        /\ table[i] = NoAllocation /\ \A j \in Indices \ {i} : table[j] = old[j]
  <2>1. PICK none \in Allocations : none = NoAllocation
    BY DEF NoAllocation, Allocations
  <2>2. \E table \in [Indices -> Allocations] :
          /\ table = [old EXCEPT ![i] = none]
          /\ table[i] = none /\ \A j \in Indices \ {i} : table[j] = old[j]
    BY TableUpdated
  <2> QED BY <2>1, <2>2
<1>8. PICK new : new = [own EXCEPT !.directory = dir,
                                   !.allocations = [own.allocations EXCEPT ![i] = NoAllocation]]
  OBVIOUS
<1>9. processes' = [processes EXCEPT ![p] = new]
  BY <1>1, <1>2, <1>4, <1>5, <1>8
<1>10. a \in Int /\ a \in Nat /\ n \in Int
  BY ProcessMemoryAssumption DEF Addresses, NoPtr
<1>11. dir \in Directories
  BY <1>3, <1>5, <1>10, paging_map_toType
<1>12. new \in ProcessRecords
  BY <1>6, <1>7, <1>8, <1>11 DEF ProcessRecords, Directories
<1>13. /\ new.process = own.process /\ new.file = own.file /\ new.elf_file = own.elf_file
       /\ new.image = own.image /\ new.stack = own.stack /\ new.task = own.task
       /\ new.directory = dir /\ new.allocations = table
       /\ Structures(new) = Structures(own)
  BY <1>6, <1>7, <1>8 DEF ProcessRecords, Structures
<1>14. /\ processes \in [Slots -> ProcessRecords \cup {Unloaded}] /\ undefined \in BOOLEAN
       /\ live \subseteq Regions /\ RegionsApart(live)
       /\ processes'[p] = new
  BY <1>9 DEF ProcessMemoryInv, TypeOK
<1>15. live' = {r \in live : r.ptr /= a}
  BY <1>2 DEF kfree
<1>16. TypeOK'
  BY <1>2, <1>9, <1>12, <1>14, <1>15 DEF TypeOK
<1>17. Loaded(p)'
  <2>1. new.image /= NoPtr
    BY <1>3, <1>13 DEF Addresses, NoPtr
  <2> QED BY <1>14, <2>1 DEF Loaded, Unloaded
<1>18. HoldsRegions(p) /\ OwnAllocationsDiffer(p)
  BY InvByProcess DEF ProcessOK
<1>19. a = NoPtr => old[i] = NoAllocation
  BY <1>1, <1>2, <1>6, FreeEntry
<1>20. a /= NoPtr => /\ Region(a, n, p) \in live
                     /\ a \notin Structures(own)
  BY <1>1, <1>2, <1>4, <1>18 DEF HoldsRegions, NoAllocation
<1>21. a \notin Structures(own)
  BY <1>20 DEF Structures
<1>22. ASSUME NEW j \in Indices \ {i} PROVE old[j] = NoAllocation \/ old[j].ptr /= a
  BY <1>1, <1>2, <1>6, <1>18 DEF OwnAllocationsDiffer
<1>23. HoldsRegions(p)'
  <2>1. ASSUME NEW b, NEW m, b /= a, Region(b, m, p) \in live PROVE Region(b, m, p) \in live'
    BY <1>15, <2>1 DEF Region
  <2>2. ASSUME NEW j \in Indices
        PROVE  \/ table[j] = NoAllocation
               \/ /\ Region(table[j].ptr, table[j].blocks, p) \in live'
                  /\ table[j].ptr \notin Structures(own)
    <3>1. CASE j = i
      BY <1>7, <3>1
    <3>2. CASE j /= i
      <4>1. table[j] = old[j]
        BY <1>7, <3>2
      <4>2. old[j] = NoAllocation \/ (Region(old[j].ptr, old[j].blocks, p) \in live
              /\ old[j].ptr \notin Structures(own))
        BY <1>1, <1>6, <1>18 DEF HoldsRegions
      <4> QED BY <1>22, <2>1, <3>2, <4>1, <4>2
    <3> QED BY <3>1, <3>2
  <2>3. /\ a /= own.process /\ a /= own.image /\ a /= own.stack /\ a /= own.task
        /\ own.elf_file /= NoPtr => a /= own.elf_file
    BY <1>21, RecordFields DEF Structures, Addresses, NoPtr
  <2> QED BY <1>1, <1>13, <1>14, <1>18, <2>1, <2>2, <2>3 DEF HoldsRegions
<1>24. OwnAllocationsDiffer(p)'
  <2>1. ASSUME NEW j \in Indices, NEW k \in Indices, j /= k, table[j].ptr = table[k].ptr
        PROVE  table[j] = NoAllocation
    <3>1. CASE j = i
      BY <1>7, <3>1
    <3>2. CASE k = i
      <4>1. table[j] = old[j] /\ old[j].ptr = NoPtr
        BY <1>7, <2>1, <3>2 DEF NoAllocation
      <4> QED BY <1>1, <1>6, <4>1, FreeEntry
    <3>3. CASE j /= i /\ k /= i
      BY <1>1, <1>6, <1>7, <1>18, <2>1, <3>3 DEF OwnAllocationsDiffer
    <3> QED BY <3>1, <3>2, <3>3
  <2> QED BY <1>13, <1>14, <2>1 DEF OwnAllocationsDiffer
<1>25. ASSUME Safe(own.file) PROVE WritesHeld(p)'
  <2>1. ASSUME NEW v \in VirtualPages, dir[v].right = "write"
        PROVE  \/ dir[v].page \in own.image .. (own.image + BlocksOfFile(own.file) - 1)
               \/ dir[v].page \in own.stack .. (own.stack + StackBlocks - 1)
               \/ /\ dir[v].page = v
                  /\ \E j \in Indices : v \in table[j].ptr .. (table[j].ptr + table[j].blocks - 1)
    <3>1. v \notin a .. (a + n - 1) /\ dir[v] = own.directory[v]
      BY <1>5, <2>1 DEF paging_map_to, Entry
    <3>2. \/ dir[v].page \in own.image .. (own.image + BlocksOfFile(own.file) - 1)
          \/ dir[v].page \in own.stack .. (own.stack + StackBlocks - 1)
          \/ /\ dir[v].page = v
             /\ \E j \in Indices : v \in old[j].ptr .. (old[j].ptr + old[j].blocks - 1)
      BY <1>1, <1>6, <1>25, <2>1, <3>1, LoadedProcess DEF WritesHeld
    <3>3. v \notin old[i].ptr .. (old[i].ptr + old[i].blocks - 1)
      BY <1>2, <1>4, <1>6, <3>1
    <3> QED BY <1>7, <3>2, <3>3
  <2> QED BY <1>13, <1>14, <2>1 DEF WritesHeld
<1>26. {r.ptr : r \in {s \in live : s.owner = p}}' = References(p)'
  <2>1. {r.ptr : r \in {s \in live : s.owner = p}} = References(p)
    BY DEF ProcessMemoryInv, RegionsAreReferenced
  <2>2. {r.ptr : r \in {s \in live' : s.owner = p}} = References(p) \ {a}
    BY <1>15, <2>1
  <2>3. {table[j].ptr : j \in Indices} \ {NoPtr} = ({old[j].ptr : j \in Indices} \ {NoPtr}) \ {a}
    BY <1>2, <1>6, <1>7, <1>22 DEF NoAllocation
  <2>4. AllocationsOf(p)' = AllocationsOf(p) \ {a}
    <3>1. AllocationsOf(p) = {old[j].ptr : j \in Indices} \ {NoPtr}
      BY <1>1, <1>6 DEF AllocationsOf
    <3>2. AllocationsOf(p)' = {table[j].ptr : j \in Indices} \ {NoPtr}
      BY <1>13, <1>14 DEF AllocationsOf
    <3> QED BY <2>3, <3>1, <3>2
  <2>5. References(p)' = References(p) \ {a}
    BY <1>1, <1>13, <1>14, <1>17, <1>21, <2>4 DEF References
  <2> QED BY <2>2, <2>5
<1>27. ProcessOK(p)'
  BY <1>13, <1>14, <1>23, <1>24, <1>25, <1>26 DEF ProcessOK
<1>28. \A q \in Slots \ {p} : processes'[q] = processes[q]
  BY <1>9, <1>14
<1>29. RegionsApart(live)'
  BY <1>14, <1>15 DEF RegionsApart
<1>30. ASSUME NEW r \in live, r.ptr = a PROVE r.owner = p /\ a /= NoPtr
  <2>1. a /= NoPtr
    BY <1>14, <1>30 DEF Regions, Addresses, NoPtr
  <2>2. Region(a, n, p) \in live /\ Region(a, n, p).ptr = a /\ Region(a, n, p).owner = p
    BY <1>20, <2>1 DEF Region
  <2>3. r = Region(a, n, p)
    BY <1>14, <1>30, <2>2, PointersUnique
  <2> QED BY <2>1, <2>2, <2>3
<1>31. \A r \in (live \ live') \cup (live' \ live) : r.owner \in {p, Lost}
  BY <1>15, <1>30
<1>32. ProcessMemoryInv'
  BY <1>16, <1>27, <1>28, <1>29, <1>31, StepOfProcess
<1>33. ReleasesOwn
  <2>1. a /= NoPtr => new /= own
    BY <1>2, <1>6, <1>7, <1>13 DEF NoAllocation
  <2>2. \A r \in live \ live' : r.owner = p /\ a /= NoPtr
    BY <1>15, <1>30
  <2> QED BY <1>1, <1>14, <2>1, <2>2 DEF ReleasesOwn
<1> QED BY <1>32, <1>33

\* The heap with regions nobody points to on top of those in use: the buffer of
\* a string copy that failed.
WithLost(regions) == Grown(regions) /\ \A r \in regions \ live : r.owner = Lost

\* What process_terminate gives back is all that the process owns, but for the
\* process structure, which is lost.
LEMMA ReleasedRegions ==
  ASSUME ProcessMemoryInv, NEW p \in Slots, Loaded(p), NEW regions, WithLost(regions)
  PROVE  Released(regions, p) = {r \in regions : r.owner /= p}
                                  \cup {Region(processes[p].process, ProcessBlocks, Lost)}
<1>1. PICK own \in ProcessRecords : own = processes[p]
  BY LoadedProcess
<1>2. HoldsRegions(p) /\ {r.ptr : r \in {s \in live : s.owner = p}} = References(p)
  BY InvByProcess DEF ProcessOK
<1>3. live \subseteq regions /\ regions \subseteq Regions /\ RegionsApart(regions)
  BY DEF WithLost, Grown
<1>4. PICK gone : gone = AllocationsOf(p) \cup {own.image, own.elf_file, own.stack, own.task}
  OBVIOUS
<1>5. own.process \notin gone
  <2>1. own.process \notin AllocationsOf(p)
    <3>1. own.process /= NoPtr
      BY RecordFields DEF Addresses, NoPtr
    <3> QED BY <1>1, <1>2, <3>1 DEF AllocationsOf, HoldsRegions, NoAllocation, Structures
  <2> QED BY <1>1, <1>2, <1>4, <2>1 DEF HoldsRegions
<1>6. References(p) = (gone \cup {own.process}) \ {NoPtr} /\ NoPtr \notin Addresses
  BY <1>1, <1>4 DEF References, Structures, AllocationsOf, Addresses, NoPtr
<1>7. PICK x \in regions : x.ptr = own.process /\ x.owner = p
                           /\ x = Region(own.process, ProcessBlocks, p)
  BY <1>1, <1>2, <1>3 DEF HoldsRegions, Region
<1>8. ASSUME NEW r \in regions PROVE r.owner = p <=> r.ptr \in gone \/ r = x
  <2>1. ASSUME r.owner = p PROVE r.ptr \in gone \/ r = x
    <3>1. r \in live
      BY <2>1, LostIsNoSlot DEF WithLost
    <3>2. r.ptr \in gone \cup {own.process}
      BY <1>2, <1>6, <2>1, <3>1
    <3> QED BY <1>3, <1>7, <3>2, PointersUnique
  <2>2. ASSUME r.ptr \in gone PROVE r.owner = p
    <3>0. r.ptr \in References(p)
      BY <1>3, <1>6, <2>2 DEF Regions
    <3>1. PICK s \in live : s.owner = p /\ s.ptr = r.ptr
      BY <1>2, <3>0
    <3>2. r = s
      BY <1>3, <3>1, PointersUnique
    <3> QED BY <3>1, <3>2
  <2> QED BY <1>7, <2>1, <2>2
<1> DEFINE freed == {r \in regions : r.ptr \notin gone}
           lost == Region(own.process, ProcessBlocks, Lost)
<1>9. Released(regions, p) =
        {IF r.ptr = own.process THEN [r EXCEPT !.owner = Lost] ELSE r : r \in freed}
  BY <1>1, <1>4 DEF Released, elf_close
<1>10. [x EXCEPT !.owner = Lost] = lost
  BY <1>7 DEF Region
<1>11. x \in freed /\ x.ptr = own.process
  BY <1>5, <1>7
<1>12. ASSUME NEW r \in freed, r /= x PROVE r.ptr /= own.process /\ r.owner /= p
  <2>1. r \in regions /\ x \in regions /\ r.ptr \notin gone
    OBVIOUS
  <2>2. r.owner /= p
    BY <1>8, <1>12, <2>1
  <2>3. r.ptr /= own.process
    BY <1>3, <1>7, <1>12, <2>1, PointersUnique
  <2> QED BY <2>2, <2>3
<1>13. \A r \in regions : r.owner /= p => r \in freed /\ r /= x
  BY <1>8
<1>14. freed \subseteq regions
  OBVIOUS
<1> HIDE DEF freed, lost
<1>15. Released(regions, p) \subseteq {r \in regions : r.owner /= p} \cup {lost}
  <2> SUFFICES ASSUME NEW r \in freed
               PROVE  (IF r.ptr = own.process THEN [r EXCEPT !.owner = Lost] ELSE r)
                        \in {s \in regions : s.owner /= p} \cup {lost}
    BY <1>9
  <2> QED BY <1>10, <1>11, <1>12, <1>14
<1>16. {r \in regions : r.owner /= p} \cup {lost} \subseteq Released(regions, p)
  <2>1. lost \in Released(regions, p)
    BY <1>9, <1>10, <1>11
  <2>2. ASSUME NEW r \in regions, r.owner /= p PROVE r \in Released(regions, p)
    BY <1>9, <1>12, <1>13, <2>2
  <2> QED BY <2>1, <2>2
<1> QED BY <1>1, <1>15, <1>16 DEF lost

\* The end of a process: the system call, or the exception in a string copy.
LEMMA ReleasePreservesInv ==
  ASSUME ProcessMemoryInv, NEW p \in Slots, Loaded(p), NEW regions, WithLost(regions),
         live' = Released(regions, p), processes' = [processes EXCEPT ![p] = Unloaded],
         UNCHANGED undefined
  PROVE  ProcessMemoryInv' /\ ReleasesOwn
<1>1. live \subseteq regions /\ regions \subseteq Regions /\ RegionsApart(regions)
  BY DEF WithLost, Grown
<1>2. PICK own \in ProcessRecords : own = processes[p]
  BY LoadedProcess
<1>3. PICK x \in regions : x.ptr = own.process /\ x.owner = p /\ x.blocks = ProcessBlocks
  BY <1>1, <1>2, LoadedProcess DEF HoldsRegions, Region
<1>4. PICK y \in Regions : /\ y = Region(own.process, ProcessBlocks, Lost)
                           /\ y.ptr = x.ptr /\ y.blocks = x.blocks /\ y.owner = Lost
  <2>1. PICK y : y = Region(own.process, ProcessBlocks, Lost)
    OBVIOUS
  <2>2. own.process \in Addresses /\ ProcessBlocks \in Nat \ {0}
    BY RecordFields, ProcessMemoryAssumption
  <2>3. y \in Regions
    BY <2>1, <2>2 DEF Regions, Region
  <2>4. y.ptr = x.ptr /\ y.blocks = x.blocks /\ y.owner = Lost
    BY <1>3, <2>1 DEF Region
  <2> QED BY <2>1, <2>3, <2>4
<1>5. live' = {r \in regions : r.owner /= p} \cup {y}
  BY <1>2, <1>4, ReleasedRegions
<1>6. /\ processes \in [Slots -> ProcessRecords \cup {Unloaded}] /\ undefined \in BOOLEAN
      /\ processes'[p] = Unloaded
  BY DEF ProcessMemoryInv, TypeOK
<1>7. TypeOK'
  BY <1>1, <1>5, <1>6 DEF TypeOK
<1>8. RegionsApart(live)'
  <2> SUFFICES ASSUME NEW r \in live', NEW s \in live', r /= s
               PROVE  Heap!BlocksOf(r) \cap Heap!BlocksOf(s) = {}
    BY DEF RegionsApart
  <2>1. Heap!BlocksOf(y) = Heap!BlocksOf(x)
    BY <1>4 DEF Heap!BlocksOf
  <2>2. \A t \in regions : t.owner /= p => Heap!BlocksOf(t) \cap Heap!BlocksOf(x) = {}
    BY <1>1, <1>3 DEF RegionsApart
  <2> QED BY <1>1, <1>5, <2>1, <2>2 DEF RegionsApart
<1>9. ~Loaded(p)'
  BY <1>6 DEF Loaded
<1>10. {r.ptr : r \in {s \in live : s.owner = p}}' = References(p)'
  <2>1. \A r \in live' : r.owner /= p
    BY <1>4, <1>5, LostIsNoSlot
  <2>2. References(p)' = {}
    BY <1>9 DEF References
  <2> QED BY <2>1, <2>2
<1>11. ProcessOK(p)'
  BY <1>9, <1>10 DEF ProcessOK
<1>12. \A q \in Slots \ {p} : processes'[q] = processes[q]
  BY <1>6
<1>13. \A r \in (live \ live') \cup (live' \ live) : r.owner \in {p, Lost}
  BY <1>1, <1>4, <1>5 DEF WithLost
<1>14. ProcessMemoryInv'
  BY <1>7, <1>8, <1>11, <1>12, <1>13, StepOfProcess
<1>15. ReleasesOwn
  <2>1. \A r \in live \ live' : r.owner = p
    BY <1>1, <1>5
  <2> QED BY <1>6, <2>1 DEF ReleasesOwn, Loaded
<1> QED BY <1>14, <1>15

\* process_terminate.
LEMMA process_terminatePreservesInv ==
  ASSUME ProcessMemoryInv, NEW p \in Slots, Loaded(p), process_terminate(p)
  PROVE  ProcessMemoryInv' /\ ReleasesOwn
<1>1. WithLost(live)
  BY DEF WithLost, Grown, ProcessMemoryInv, TypeOK
<1> QED BY <1>1, ReleasePreservesInv DEF process_terminate

\* The entry of the buffer is set back: a string copy leaves the page directory
\* as it was.
LEMMA MappingUndone ==
  ASSUME NEW dir \in Directories, NEW a \in Addresses
  PROVE  [paging_map_to(dir, a, a, 1, "write") EXCEPT ![a] = dir[a]] = dir
<1>1. PICK mapped \in Directories : mapped = paging_map_to(dir, a, a, 1, "write")
  <2>1. a \in Int /\ 1 \in Int
    BY DEF Addresses
  <2> QED BY <2>1, paging_map_toType
<1>2. \A v \in VirtualPages : v /= a => mapped[v] = dir[v]
  BY <1>1, VirtualPagesAreNumbers DEF paging_map_to, Addresses
<1>3. a \in VirtualPages
  BY DEF VirtualPages
<1>4. [mapped EXCEPT ![a] = dir[a]] = dir
  BY <1>2, <1>3 DEF Directories
<1> QED BY <1>1, <1>4

LEMMA copy_string_from_taskOutcome ==
  ASSUME ProcessMemoryInv, NEW p \in Slots, Loaded(p), NEW v \in VirtualPages,
         copy_string_from_task(p, v)
  PROVE  \/ UNCHANGED vars
         \/ \E regions : /\ WithLost(regions) /\ live' = Released(regions, p)
                         /\ processes' = [processes EXCEPT ![p] = Unloaded]
                         /\ UNCHANGED undefined
<1>1. PICK own \in ProcessRecords : own = processes[p]
  BY LoadedProcess
<1>2. processes \in [Slots -> ProcessRecords \cup {Unloaded}] /\ Grown(live)
  BY DEF ProcessMemoryInv, TypeOK, Grown
<1>3. PICK tmp : tmp = kzalloc(live, 1)
  OBVIOUS
<1>4. PICK mapped : mapped = paging_map_to(own.directory, tmp, tmp, 1, "write")
  OBVIOUS
<1>5. \/ UNCHANGED vars
      \/ /\ tmp /= NoPtr
         /\ live' = Released(live \cup {Region(tmp, 1, Lost)}, p)
         /\ processes' = [processes EXCEPT ![p] = Unloaded]
         /\ UNCHANGED undefined
      \/ /\ tmp /= NoPtr
         /\ processes' = [processes EXCEPT
              ![p].directory = [mapped EXCEPT ![tmp] = own.directory[tmp]]]
         /\ UNCHANGED <<live, undefined>>
  BY <1>1, <1>3, <1>4 DEF copy_string_from_task
<1>6. ASSUME tmp /= NoPtr
      PROVE  tmp \in Addresses /\ WithLost(live \cup {Region(tmp, 1, Lost)})
  <2>1. 1 \in Nat \ {0} /\ Lost \in Slots \cup {Lost}
    OBVIOUS
  <2>2. tmp \in Addresses /\ Grown(live \cup {Region(tmp, 1, Lost)})
    BY <1>2, <1>3, <1>6, <2>1, GrownTakes
  <2> QED BY <2>2 DEF WithLost, Region
<1>7. ASSUME tmp \in Addresses,
             processes' = [processes EXCEPT
               ![p].directory = [mapped EXCEPT ![tmp] = own.directory[tmp]]]
      PROVE  UNCHANGED processes
  <2>1. [mapped EXCEPT ![tmp] = own.directory[tmp]] = own.directory
    BY <1>4, <1>7, RecordFields, MappingUndone
  <2>2. processes' = [processes EXCEPT ![p] = [own EXCEPT !.directory = own.directory]]
    BY <1>1, <1>7, <2>1
  <2>3. [own EXCEPT !.directory = own.directory] = own
    BY DEF ProcessRecords
  <2> QED BY <1>1, <1>2, <2>2, <2>3
<1> QED BY <1>5, <1>6, <1>7 DEF vars
-----------------------------------------------------------------------------
(* The theorems. *)

LEMMA InitEstablishesInv == Init => ProcessMemoryInv
<1> SUFFICES ASSUME Init PROVE ProcessMemoryInv
  OBVIOUS
<1>1. \A p \in Slots : ~Loaded(p) /\ References(p) = {}
  BY DEF Init, Loaded, References
<1> QED BY <1>1 DEF Init, ProcessMemoryInv, TypeOK, RegionsApart, RegionsAreReferenced, AllocationsDiffer

\* Every step keeps the invariant, one operation after the other.
LEMMA NextPreservesInv ==
  ASSUME ProcessMemoryInv, [Next]_vars
  PROVE  ProcessMemoryInv' /\ ReleasesOwn
<1>0. live \subseteq live' => ReleasesOwn
  BY DEF ReleasesOwn
<1>1. ASSUME UNCHANGED vars PROVE ProcessMemoryInv' /\ ReleasesOwn
  BY <1>0, <1>1, LossPreservesInv DEF vars, ProcessMemoryInv, TypeOK
<1>2. ASSUME NEW p \in process_get_free_slot, NEW file \in Images, process_load(p, file)
      PROVE  ProcessMemoryInv' /\ ReleasesOwn
  <2>1. p \in Slots /\ ~Loaded(p)
    BY DEF process_get_free_slot
  <2>2. Loads(p, file) \/ LoadFails
    BY <1>2, <2>1, process_loadOutcome
  <2>3. LoadFails => ProcessMemoryInv'
    BY LossPreservesInv DEF LoadFails
  <2>4. live \subseteq live'
    BY <2>2 DEF Loads, LoadsTo, LoadFails, Grown
  <2> QED BY <1>0, <2>1, <2>2, <2>3, <2>4, LoadsPreservesInv
<1>3. ASSUME NEW p \in Slots, NEW n \in Sizes, Loaded(p), process_malloc(p, n)
      PROVE  ProcessMemoryInv' /\ ReleasesOwn
  <2>1. live \subseteq live'
    BY <1>3 DEF process_malloc, vars
  <2> QED BY <1>0, <1>3, <2>1, process_mallocPreservesInv
<1>4. ASSUME NEW p \in Slots, NEW a \in Addresses \cup {NoPtr}, Loaded(p), process_free(p, a)
      PROVE  ProcessMemoryInv' /\ ReleasesOwn
  BY <1>4, process_freePreservesInv
<1>5. ASSUME NEW p \in Slots, Loaded(p), process_terminate(p) PROVE ProcessMemoryInv' /\ ReleasesOwn
  BY <1>5, process_terminatePreservesInv
<1>6. ASSUME NEW p \in Slots, NEW v \in VirtualPages, Loaded(p), copy_string_from_task(p, v)
      PROVE  ProcessMemoryInv' /\ ReleasesOwn
  BY <1>1, <1>6, copy_string_from_taskOutcome, ReleasePreservesInv
<1> QED BY <1>1, <1>2, <1>3, <1>4, <1>5, <1>6 DEF Next

\* The invariant of the memory of processes: regions in use share no block, a
\* loaded process holds its image, elf_file, stack, task, process structure and
\* allocations, and what it can write to is its image, its stack and its
\* allocations.
THEOREM ProcessMemoryInvariant == Spec => []ProcessMemoryInv
<1>1. Init => ProcessMemoryInv
  BY InitEstablishesInv
<1>2. ProcessMemoryInv /\ [Next]_vars => ProcessMemoryInv'
  BY NextPreservesInv
<1> QED BY <1>1, <1>2, PTL DEF Spec

\* A process whose program maps nothing but its file can write to no page but
\* its own, whatever was loaded, allocated, freed and ended before.
THEOREM ProcessMemoryWritesOnlyOwnPages == Spec => []WritesOnlyOwnPages
<1>1. ProcessMemoryInv => WritesOnlyOwnPages
  <2> SUFFICES ASSUME ProcessMemoryInv, NEW p \in Slots, Loaded(p), Safe(processes[p].file),
                      NEW w \in Writable(p)
               PROVE  \E r \in live : r.owner = p /\ w \in Heap!BlocksOf(r)
    BY DEF WritesOnlyOwnPages, OwnedPages, Safe
  <2>1. PICK own \in ProcessRecords : own = processes[p]
    BY LoadedProcess
  <2>2. HoldsRegions(p) /\ WritesHeld(p)
    BY LoadedProcess
  <2>3. PICK v \in VirtualPages : own.directory[v].right = "write" /\ own.directory[v].page = w
    BY <2>1 DEF Writable
  <2>4. \A b, m : LET r == Region(b, m, p)
                  IN  r.owner = p /\ Heap!BlocksOf(r) = b .. (b + m - 1)
    BY DEF Region, Heap!BlocksOf
  <2>5. CASE w \in own.image .. (own.image + BlocksOfFile(own.file) - 1)
    BY <2>1, <2>2, <2>4, <2>5 DEF HoldsRegions
  <2>6. CASE w \in own.stack .. (own.stack + StackBlocks - 1)
    BY <2>1, <2>2, <2>4, <2>6 DEF HoldsRegions
  <2>7. CASE \E i \in Indices :
               w \in own.allocations[i].ptr .. (own.allocations[i].ptr + own.allocations[i].blocks - 1)
    <3>1. PICK i \in Indices :
               w \in own.allocations[i].ptr .. (own.allocations[i].ptr + own.allocations[i].blocks - 1)
      BY <2>7
    <3>2. own.allocations[i] /= NoAllocation
      BY <3>1 DEF NoAllocation, NoPtr
    <3>3. Region(own.allocations[i].ptr, own.allocations[i].blocks, p) \in live
      BY <2>1, <2>2, <3>2 DEF HoldsRegions
    <3> QED BY <2>4, <3>1, <3>3
  <2> QED BY <2>1, <2>2, <2>3, <2>5, <2>6, <2>7 DEF WritesHeld
<1> QED BY <1>1, ProcessMemoryInvariant, PTL

\* The regions taken for a process (its structure, the elf_file of an ELF program,
\* the image, the stack, the task and the allocations) are those it points to: none
\* is lost while it runs, none but its structure stays behind when it ends, and
\* every pointer it will free is one of a region in use.
THEOREM ProcessMemoryRegionsAreReferenced == Spec => []RegionsAreReferenced
<1>1. ProcessMemoryInv => RegionsAreReferenced
  BY DEF ProcessMemoryInv
<1> QED BY <1>1, ProcessMemoryInvariant, PTL

\* Two entries of a table of allocations never name the same region: none is
\* freed twice.
THEOREM ProcessMemoryAllocationsDiffer == Spec => []AllocationsDiffer
<1>1. ProcessMemoryInv => AllocationsDiffer
  BY DEF ProcessMemoryInv
<1> QED BY <1>1, ProcessMemoryInvariant, PTL

\* A system call of one process releases no region of another: what leaves the
\* heap belonged to the process the call was for.
THEOREM ProcessMemoryReleasesOnlyOwn == Spec => ReleasesOnlyOwn
<1> DEFINE A == \A r \in live \ live' : r.owner \in Slots /\ processes[r.owner]' /= processes[r.owner]
<1>1. ProcessMemoryInv /\ [Next]_vars => [A]_vars
  BY NextPreservesInv DEF ReleasesOwn
<1>2. [][A]_vars => ReleasesOnlyOwn
  BY DEF ReleasesOnlyOwn
<1> HIDE DEF A
<1>3. Spec => [][A]_vars
  BY <1>1, ProcessMemoryInvariant, PTL DEF Spec
<1> QED BY <1>2, <1>3
=============================================================================
