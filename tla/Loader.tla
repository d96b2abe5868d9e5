------------------------------- MODULE Loader -------------------------------
(***************************************************************************)
(* Loading a program file (process_load_data in src/task/process.c, elf_load *)
(* in src/loader/formats/elfloader.c): the file is read as an ELF program   *)
(* and, if it is none, opened again and read as a binary.                   *)
(*                                                                         *)
(* The steps of a load are those between the calls to the file interface;   *)
(* the kernel runs one load at a time.  Between loads other parts of the    *)
(* kernel may use files and keep them open.                                 *)
(***************************************************************************)
EXTENDS Files

CONSTANT ElfFiles   \* the files that elf_validate_loaded accepts

ASSUME LoaderAssumption == ElfFiles \subseteq {path \in DOMAIN Tree : Tree[path] = "file"}

VARIABLES
  stage,    \* the next call of the load, or "idle"
  path,     \* the file being loaded
  fd,       \* the descriptor of the load
  outcome,  \* what the load has come to
  before    \* the table of descriptors when the load began

loadervars == <<file_descriptors, private, last, stage, path, fd, outcome, before>>

Init ==
  /\ FilesInit
  /\ stage = "idle"
  /\ path = <<>>
  /\ fd = 0
  /\ outcome = "none"
  /\ before = file_descriptors

\* The fopen of elf_load.  On failure control goes to exit_fn, with fd = 0.
ElfOpen(p) ==
  /\ stage = "idle"
  /\ fopen(p, "r")
  /\ path' = p
  /\ fd' = last'.fd
  /\ stage' = IF last'.ok THEN "elf_stat" ELSE "elf_close"
  /\ outcome' = IF last'.ok THEN "none" ELSE "error"
  /\ before' = file_descriptors

ElfStat ==
  /\ stage = "elf_stat"
  /\ fstat(fd)
  /\ stage' = IF last'.ok THEN "elf_read" ELSE "elf_close"
  /\ outcome' = IF last'.ok THEN "none" ELSE "error"
  /\ UNCHANGED <<path, fd, before>>

\* fread, and elf_process_loaded.  The file system may refuse the read.
ElfRead ==
  /\ stage = "elf_read"
  /\ fread(fd)
  /\ stage' = "elf_close"
  /\ outcome' \in IF ~last'.ok THEN {"error"}
                  ELSE {"error", IF path \in ElfFiles THEN "elf" ELSE "format"}
  /\ UNCHANGED <<path, fd, before>>

\* Mutant: a file with an error is not closed.
ElfCloseUnlessError ==
  /\ stage = "elf_close"
  /\ IF outcome = "error" THEN UNCHANGED filevars ELSE fclose(fd)
  /\ stage' = IF outcome = "format" THEN "bin_open" ELSE "idle"
  /\ UNCHANGED <<path, fd, outcome, before>>

\* Mutant: every error is followed by an attempt to read the file as a binary,
\* and the descriptor stays open for it.
ElfCloseAlwaysRetry ==
  /\ stage = "elf_close"
  /\ UNCHANGED filevars
  /\ stage' = IF outcome /= "elf" THEN "bin_open" ELSE "idle"
  /\ UNCHANGED <<path, fd, outcome, before>>

\* The fclose at exit_fn; process_load_data goes on when the format is wrong.
ElfClose ==
  /\ stage = "elf_close"
  /\ fclose(fd)
  /\ stage' = IF outcome = "format" THEN "bin_open" ELSE "idle"
  /\ UNCHANGED <<path, fd, outcome, before>>

BinOpen ==
  /\ stage = "bin_open"
  /\ fopen(path, "r")
  /\ fd' = last'.fd
  /\ stage' = IF last'.ok THEN "bin_stat" ELSE "bin_close"
  /\ outcome' = IF last'.ok THEN "none" ELSE "error"
  /\ UNCHANGED <<path, before>>

BinStat ==
  /\ stage = "bin_stat"
  /\ fstat(fd)
  /\ stage' = IF last'.ok THEN "bin_read" ELSE "bin_close"
  /\ outcome' = IF last'.ok THEN "none" ELSE "error"
  /\ UNCHANGED <<path, fd, before>>

\* The memory for the file may be missing, and the read may be refused.
BinRead ==
  /\ stage = "bin_read"
  /\ fread(fd)
  /\ stage' = "bin_close"
  /\ outcome' \in IF last'.ok THEN {"error", "binary"} ELSE {"error"}
  /\ UNCHANGED <<path, fd, before>>

BinClose ==
  /\ stage = "bin_close"
  /\ fclose(fd)
  /\ stage' = "idle"
  /\ UNCHANGED <<path, fd, outcome, before>>

Load ==
  \/ \E p \in Paths : ElfOpen(p)
  \/ ElfStat \/ ElfRead \/ ElfClose
  \/ BinOpen \/ BinStat \/ BinRead \/ BinClose

\* Another part of the kernel uses files; the variables of the load are gone.
OtherCall ==
  /\ stage = "idle"
  /\ FileCall
  /\ before' = file_descriptors'
  /\ path' = <<>> /\ fd' = 0 /\ outcome' = "none"
  /\ UNCHANGED stage

Next ==
  \/ last.op /= "undefined" /\ (Load \/ OtherCall)
  \/ last.op = "undefined" /\ UNCHANGED loadervars

Spec == Init /\ [][Next]_loadervars
-----------------------------------------------------------------------------
(* Properties. *)

\* The table while a load has a file open: the first free entry has become that
\* of the file, and the others are as they were.
HoldsFile ==
  /\ fd \in Descriptors
  /\ before[fd] = Closed
  /\ \A d \in 1 .. (fd - 1) : before[d] /= Closed
  /\ file_descriptors[fd] /= Closed
  /\ private[file_descriptors[fd]].path = path
  /\ \A d \in Descriptors \ {fd} : file_descriptors[d] = before[d]

\* What every step of a load relies on: which of its files is open, what has
\* been found out about it, and what the outcome can be by then.
LoadProgress ==
  /\ before \in [Descriptors -> Privates \cup {Closed}]
  /\ stage /= "idle" => path \in Paths
  /\ stage \in {"idle", "elf_stat", "elf_read", "elf_close",
                "bin_open", "bin_stat", "bin_read", "bin_close"}
  /\ stage \in {"elf_stat", "elf_read", "bin_stat", "bin_read"} => HoldsFile
  /\ stage \in {"elf_close", "bin_close"} =>
       HoldsFile \/ (fd = 0 /\ file_descriptors = before /\ outcome = "error")
  /\ stage = "bin_open" => file_descriptors = before
  /\ stage \in {"elf_read", "bin_read", "bin_open"} =>
       path \in DOMAIN Tree /\ Tree[path] = "file"
  /\ stage \in {"bin_open", "bin_stat", "bin_read"} => path \notin ElfFiles
  /\ stage = "elf_close" =>
       /\ outcome \in {"elf", "format", "error"}
       /\ outcome = "elf" => path \in ElfFiles
       /\ outcome = "format" => /\ path \in DOMAIN Tree /\ Tree[path] = "file"
                                /\ path \notin ElfFiles /\ fd < MaxDescriptors
  /\ stage = "bin_close" =>
       /\ outcome \in {"binary", "error"}
       /\ outcome = "binary" => /\ path \in DOMAIN Tree /\ Tree[path] = "file"
                                /\ path \notin ElfFiles

\* A load leaves the table of descriptors as it found it, whichever of its calls
\* failed and whatever else is open: what it opened is closed, in both of its
\* attempts, and nothing else is.  The exception is a table on which only the
\* last descriptor is free, which the load gets and cannot close.
LoadRestoresTable ==
  (stage = "idle" /\ \E d \in 1 .. (MaxDescriptors - 1) : before[d] = Closed)
    => file_descriptors = before

\* A load ends as the kind of program the file is, or with an error: what is no
\* file is never mapped as a program, and an error is not taken for the wrong
\* format.
OutcomeFitsFile ==
  stage = "idle" =>
    /\ outcome = "elf" => path \in ElfFiles
    /\ outcome = "binary" => path \in DOMAIN Tree /\ Tree[path] = "file" /\ path \notin ElfFiles
    /\ outcome \in {"none", "elf", "binary", "error"}

\* The paths that go on behind a part missing in a subdirectory.
LeadsNowhere(p) ==
  \E n \in 2 .. (Len(p) - 1) :
    Prefix(p, n) \notin DOMAIN Tree /\ Prefix(p, n - 1) \in DOMAIN Tree
      /\ Tree[Prefix(p, n - 1)] = "dir"

\* A load never uses a directory as if it were a file, and never a null item but
\* for the paths on which the lookup itself does.
LoadDefined == (last.op = "undefined" /\ stage /= "idle") => LeadsNowhere(path)

\* The inductive invariant of the load and of the calls between loads.
LoaderInv ==
  /\ FilesTypeOK
  /\ DescriptorsOwnPrivates
  /\ LoadProgress
  /\ LoadRestoresTable
  /\ OutcomeFitsFile
  /\ LoadDefined
=============================================================================
