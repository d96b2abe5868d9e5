------------------------------ MODULE ElfFile ------------------------------
(***************************************************************************)
(* ELF files as the loader sees them (src/loader/formats/elfloader.c) and   *)
(* as process_map_elf maps them (src/task/process.c).                       *)
(*                                                                         *)
(* Addresses, offsets and sizes are counted in parts of a page.             *)
(***************************************************************************)
EXTENDS Integers, Sequences

CONSTANTS
  PageSize,    \* PAGE_SIZE, in parts
  WordSize     \* 2^32, in parts

ASSUME ElfFileAssumption ==
  /\ PageSize \in Nat \ {0}
  /\ WordSize \in Nat \ {0}
  /\ WordSize % PageSize = 0

\* A program header: where the segment lies in the file and in memory.
Segments == [offset : Nat, vaddr : Nat, memsz : Nat, writable : BOOLEAN]

Files ==
  [signature : BOOLEAN, class : 0 .. 2, encoding : 0 .. 2, phoff : Nat,
   size : Nat \ {0}, segments : Seq(Segments)]

\* 32 bits or not stated, and least significant byte first or not stated.
elf_valid_signature(file) == file.signature
elf_valid_class(file) == file.class \in {0, 1}
elf_valid_encoding(file) == file.encoding \in {0, 1}
elf_has_program_header(file) == file.phoff /= 0

\* elf_validate_loaded: the type and the entry point are not looked at.
elf_validate_loaded(file) ==
  /\ elf_valid_signature(file) /\ elf_valid_class(file)
  /\ elf_valid_encoding(file) /\ elf_has_program_header(file)

paging_align_to_lower_page(addr) == addr \div PageSize
paging_align_address(addr) == ((addr + PageSize - 1) \div PageSize) % (WordSize \div PageSize)

\* The pages of a segment of the file at page `memory', and how many there are:
\* fewer than none when the end wraps, which paging_map_to refuses.
FirstPage(memory, s) == paging_align_to_lower_page((memory * PageSize + s.offset) % WordSize)
PageCount(memory, s) ==
  paging_align_address((memory * PageSize + s.offset + s.memsz) % WordSize) - FirstPage(memory, s)

\* The blocks kzalloc takes for the file.
BlocksOfFile(file) == (file.size + PageSize - 1) \div PageSize

\* The pages of every segment, those of its zeroed data included, lie in the
\* file: so do the programs of the repository, which carry debugging sections
\* behind their data.  A segment without bytes is no exception: a page is mapped
\* for it when it starts within one.
SegmentsInFile(file) ==
  \A i \in DOMAIN file.segments :
    file.segments[i].offset + file.segments[i].memsz <= BlocksOfFile(file) * PageSize
=============================================================================
