-------------------------- MODULE MCProcessMemory --------------------------
(* Programs on a heap that two processes can exhaust, two parts to a page:  *)
(* an ELF program with a segment of code, one of data and two empty ones; one *)
(* with data beyond the end of its file; one whose data ends beyond the last *)
(* address; and an ELF file with the wrong encoding, which is loaded as a    *)
(* plain binary.                                                            *)
EXTENDS ProcessMemory

Segment(offset, vaddr, memsz, writable) ==
  [offset |-> offset, vaddr |-> vaddr, memsz |-> memsz, writable |-> writable]

Elf(size, encoding, segments) ==
  [signature |-> TRUE, class |-> 1, encoding |-> encoding, phoff |-> 1,
   size |-> size, segments |-> segments]

Code == Segment(0, 28, 2, FALSE)
NoBytes == Segment(0, 0, 0, TRUE)
NoBytesWithinPage == Segment(1, 28, 0, TRUE)

MCImages ==
  {Elf(3, 1, <<Code, Segment(2, 30, 2, TRUE), NoBytes, NoBytesWithinPage>>),
   Elf(1, 1, <<Segment(0, 28, 4, TRUE)>>),
   Elf(2, 0, <<Code, Segment(1, 31, 61, TRUE)>>),
   Elf(2, 2, << >>)}
=============================================================================
