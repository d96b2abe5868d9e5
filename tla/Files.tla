-------------------------------- MODULE Files --------------------------------
(***************************************************************************)
(* The file interface of the kernel (src/fs/file.c) on a FAT16 disk: the    *)
(* table of descriptors, the lookup of a path (src/fs/pparser.c and         *)
(* fat16_get_directory_entry in src/fs/fat/fat16.c), and the structures     *)
(* that fopen takes from the heap and fclose gives back.                    *)
(*                                                                         *)
(* A path is the sequence of its parts; Tree says what the disk holds.      *)
(***************************************************************************)
EXTENDS Integers, FiniteSets, Sequences

CONSTANTS
  MaxDescriptors,   \* LIEBE_OS_MAX_FILE_DESCRIPTORS
  Tree,             \* "file" or "dir" for every path that exists on the disk
  Paths,            \* the paths passed to fopen, the empty one included
  Modes,            \* the mode strings passed to fopen
  Filesize,         \* the size of the files
  Offsets,          \* offsets passed to fseek
  MaxPrivates       \* bound: private structures in use at a time, lost ones included

ASSUME FilesAssumption ==
  /\ MaxDescriptors \in Nat \ {0}
  /\ \A path \in DOMAIN Tree : Tree[path] \in {"file", "dir"}
  /\ Paths \subseteq Seq(STRING)
  /\ Modes \subseteq {"r", "w", "a", "other"}
  /\ Filesize \in Nat
  /\ Offsets \subseteq Nat
  /\ MaxPrivates \in Nat

Descriptors == 1 .. MaxDescriptors
Privates == 1 .. MaxPrivates
Closed == 0       \* a free entry of the table

VARIABLES
  file_descriptors,  \* the table: the private structure behind every descriptor
  private,           \* the fat_file_descriptors in use: path and position
  last               \* the last call: its descriptor and whether it succeeded

filevars == <<file_descriptors, private, last>>

NotInUse == [path |-> <<>>, pos |-> -1]

InUse == {v \in Privates : private[v] /= NotInUse}
-----------------------------------------------------------------------------
(* The lookup of a path. *)

Prefix(path, n) == SubSeq(path, 1, n)

\* How far the walk along a path gets: the first prefix that is missing or, with
\* parts left, a file.
WalkEnds(path, n) ==
  /\ \/ Prefix(path, n) \notin DOMAIN Tree
     \/ n < Len(path) /\ Tree[Prefix(path, n)] = "file"
     \/ n = Len(path)
  /\ \A k \in 1 .. (n - 1) : Prefix(path, k) \in DOMAIN Tree /\ Tree[Prefix(path, k)] = "dir"

\* fat16_get_directory_entry.  A part missing in a subdirectory before the last
\* one leaves current_item null, and the next turn of the loop reads the type
\* of the item at address 0; whatever lies there, unless it is taken for a
\* directory, the lookup fails.
fat16_get_directory_entry(path) ==
  LET n == CHOOSE k \in 1 .. Len(path) : WalkEnds(path, k)
  IN  IF Prefix(path, n) \notin DOMAIN Tree
        THEN IF n = 1 \/ n = Len(path) THEN {"none"} ELSE {"none", "undefined"}
        ELSE IF n < Len(path) THEN {"none"} ELSE {"found"}

\* The first free descriptor, as a set.
file_new_decriptor ==
  {fd \in Descriptors : /\ file_descriptors[fd] = Closed
                        /\ \A i \in 1 .. (fd - 1) : file_descriptors[i] /= Closed}

\* The entry of a descriptor.  The last one of the table is out of its bounds.
file_get_descriptor(fd) ==
  IF fd <= 0 \/ fd >= MaxDescriptors THEN Closed ELSE file_descriptors[fd]
-----------------------------------------------------------------------------
(* The calls.  The initial state is the one of fs_init. *)

FilesInit ==
  /\ file_descriptors = [fd \in Descriptors |-> Closed]
  /\ private = [v \in Privates |-> NotInUse]
  /\ last = [op |-> "init", fd |-> 0, ok |-> TRUE]

Called(op, fd, ok) == last' = [op |-> op, fd |-> fd, ok |-> ok]

\* A null pointer or a directory has been used as a file: nothing is known from
\* here on.
Undefined ==
  /\ Called("undefined", 0, FALSE)
  /\ UNCHANGED <<file_descriptors, private>>

\* The first private structure that is not in use, as a set.
FreePrivate == {v \in Privates \ InUse : \A w \in 1 .. (v - 1) : w \in InUse}

\* fopen.  The private structure stays in use when the lookup fails and when the
\* table is full.
fopen(path, mode) ==
  \/ /\ path = <<>> \/ mode /= "r"
     /\ Called("fopen", 0, FALSE)
     /\ UNCHANGED <<file_descriptors, private>>
  \/ /\ path /= <<>> /\ mode = "r"
     /\ \E result \in fat16_get_directory_entry(path), v \in FreePrivate :
          \/ /\ result = "undefined"
             /\ Undefined
          \/ /\ result = "none" \/ file_new_decriptor = {}
             /\ result /= "undefined"
             /\ private' = [private EXCEPT ![v] =
                  [path |-> IF result = "found" THEN path ELSE <<>>, pos |-> 0]]
             /\ Called("fopen", 0, FALSE)
             /\ UNCHANGED file_descriptors
          \/ \E fd \in file_new_decriptor :
               /\ result = "found"
               /\ private' = [private EXCEPT ![v] = [path |-> path, pos |-> 0]]
               /\ file_descriptors' = [file_descriptors EXCEPT ![fd] = v]
               /\ Called("fopen", fd, TRUE)

TypeOfPrivate(v) == Tree[private[v].path]

\* fread, once its arguments have been found valid.  fat16_read does not look at
\* the type of the item.
fread(fd) ==
  LET v == file_get_descriptor(fd)
  IN  IF v /= Closed /\ TypeOfPrivate(v) = "dir"
        THEN Undefined
        ELSE /\ Called("fread", fd, v /= Closed)
             /\ UNCHANGED <<file_descriptors, private>>

\* Mutant: the position is set in every private structure of the same file.
fseek_by_file(fd, offset) ==
  LET v == file_get_descriptor(fd)
      ok == v /= Closed /\ TypeOfPrivate(v) = "file" /\ offset < Filesize
  IN  /\ Called("fseek", fd, ok)
      /\ private' = [w \in Privates |->
           IF ok /\ w \in InUse /\ private[w].path = private[v].path
             THEN [private[w] EXCEPT !.pos = offset] ELSE private[w]]
      /\ UNCHANGED file_descriptors

\* fseek with SEEK_SET (the other cases are in Fat16File).
fseek(fd, offset) ==
  LET v == file_get_descriptor(fd)
      ok == v /= Closed /\ TypeOfPrivate(v) = "file" /\ offset < Filesize
  IN  /\ Called("fseek", fd, ok)
      /\ private' = IF ok THEN [private EXCEPT ![v].pos = offset] ELSE private
      /\ UNCHANGED file_descriptors

\* Mutant: fat16_stat does not look at the type of the item.
fstat_any(fd) ==
  /\ Called("fstat", fd, file_get_descriptor(fd) /= Closed)
  /\ UNCHANGED <<file_descriptors, private>>

\* fstat refuses a directory.
fstat(fd) ==
  LET v == file_get_descriptor(fd)
  IN  /\ Called("fstat", fd, v /= Closed /\ TypeOfPrivate(v) = "file")
      /\ UNCHANGED <<file_descriptors, private>>

\* Mutant: the entry of the table is not cleared.
fclose_keeps_entry(fd) ==
  LET v == file_get_descriptor(fd)
  IN  /\ Called("fclose", fd, v /= Closed)
      /\ private' = IF v = Closed THEN private ELSE [private EXCEPT ![v] = NotInUse]
      /\ UNCHANGED file_descriptors

\* fclose gives back the private structure, its item and the entry of the table.
fclose(fd) ==
  LET v == file_get_descriptor(fd)
  IN  /\ Called("fclose", fd, v /= Closed)
      /\ private' = IF v = Closed THEN private ELSE [private EXCEPT ![v] = NotInUse]
      /\ file_descriptors' =
           IF v = Closed THEN file_descriptors ELSE [file_descriptors EXCEPT ![fd] = Closed]

\* A call from any part of the kernel; the descriptor may be one that is not
\* open.
FileCall ==
  \/ \E path \in Paths, mode \in Modes : fopen(path, mode)
  \/ \E fd \in 0 .. (MaxDescriptors + 1) : fread(fd)
  \/ \E fd \in 0 .. (MaxDescriptors + 1), offset \in Offsets : fseek(fd, offset)
  \/ \E fd \in 0 .. (MaxDescriptors + 1) : fstat(fd)
  \/ \E fd \in 0 .. (MaxDescriptors + 1) : fclose(fd)
-----------------------------------------------------------------------------
(* Properties. *)

Open == {fd \in Descriptors : file_descriptors[fd] /= Closed}

\* The types of the table and of the private structures.
FilesTypeOK ==
  /\ file_descriptors \in [Descriptors -> Privates \cup {Closed}]
  /\ private \in [Privates -> [path : DOMAIN Tree \cup {<<>>}, pos : Nat \cup {-1}]]

\* Every open descriptor has a private structure of its own, which is in use and
\* belongs to a path of the disk: none is shared, and none was given back.
DescriptorsOwnPrivates ==
  /\ \A fd \in Open : /\ file_descriptors[fd] \in InUse
                       /\ private[file_descriptors[fd]].path \in DOMAIN Tree
  /\ \A fd, other \in Open : file_descriptors[fd] = file_descriptors[other] => fd = other

\* What a call does through one descriptor leaves the file and the position of
\* every other descriptor alone.
CallsAreLocal ==
  [][\A d \in Open \ {last'.fd} :
       /\ file_descriptors'[d] = file_descriptors[d]
       /\ private'[file_descriptors[d]] = private[file_descriptors[d]]]_filevars
=============================================================================
