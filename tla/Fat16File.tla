------------------------------ MODULE Fat16File ------------------------------
(***************************************************************************)
(* Reading a file of a FAT16 disk (src/fs/fat/fat16.c): its chain of        *)
(* clusters, and open, read and seek through a descriptor.                  *)
(*                                                                         *)
(* A byte is known by its position on the disk.  The clusters of the file   *)
(* may lie anywhere on the disk, in any order.                              *)
(***************************************************************************)
EXTENDS Integers, Sequences

CONSTANTS
  SectorSize,         \* disk->sector_size
  SectorsPerCluster,  \* header.primary_header.sectors_per_cluster
  DataSector,         \* root_directory.ending_sector_pos
  Clusters,           \* the clusters of the disk, counted from 2
  Marks,              \* the table entries taken for an end or a bad cluster
  MaxChain,           \* bound: clusters of a file
  Unused,             \* bytes of the last cluster that the file does not use
  Offsets,            \* offsets passed to fseek
  Sizes,              \* sizes of the blocks read
  Counts,             \* numbers of blocks read
  MaxPos              \* bound: where repeated SEEK_CUR leaves the descriptor

ASSUME Fat16FileAssumption ==
  /\ SectorSize \in Nat \ {0}
  /\ SectorsPerCluster \in Nat \ {0}
  /\ DataSector \in Nat
  /\ Clusters \subseteq Nat \ {0, 1}
  /\ Marks \subseteq Nat
  /\ MaxChain \in Nat
  /\ Unused \subseteq 0 .. (SectorsPerCluster * SectorSize - 1)
  /\ Offsets \subseteq Nat
  /\ Sizes \subseteq Nat \ {0}
  /\ Counts \subseteq Nat \ {0}
  /\ MaxPos \in Nat

VARIABLES
  chain,      \* the clusters of the file, in the order of the allocation table
  filesize,   \* ritem->filesize
  pos,        \* descriptor->pos
  last        \* the last call: its arguments, its result and, of a read, the buffer

vars == <<chain, filesize, pos, last>>

ClusterBytes == SectorsPerCluster * SectorSize

Stream == INSTANCE DiskStreamer WITH
  Positions <- {}, Totals <- {}, request <- last

Untouched == -1   \* a byte of the buffer that a read did not write
Elsewhere == -2   \* a byte of the disk that belongs to no cluster of the file
-----------------------------------------------------------------------------
fat16_cluster_to_sector(cluster) == DataSector + (cluster - 2) * SectorsPerCluster

\* Mutant: the chain is not followed, as if files were contiguous.
fat16_get_cluster_contiguous(offset) ==
  LET ahead == offset \div ClusterBytes
  IN  IF ahead < Len(chain) THEN chain[1] + ahead ELSE Elsewhere

\* The cluster of an offset, found by following the allocation table.  The
\* marks the source looks for are those of FAT12, such as 0xFF8: in FAT16 they
\* are clusters like others, and an offset beyond the last cluster leads out of
\* the file.
fat16_get_cluster_for_offset(offset) ==
  LET ahead == offset \div ClusterBytes
  IN  IF ahead < Len(chain) THEN chain[ahead + 1] ELSE Elsewhere

\* The bytes a read of `total' bytes at `offset' puts in memory: pieces of a
\* cluster's length, each taken from the cluster its own offset falls into and
\* from there on across the disk, as far as diskstreamer_read delivers.
fat16_read_internal(offset, total) ==
  [j \in 0 .. (total - 1) |->
     LET piece == j \div ClusterBytes
         cluster == fat16_get_cluster_for_offset(offset + piece * ClusterBytes)
         start == fat16_cluster_to_sector(cluster) * SectorSize + (offset % ClusterBytes)
         rest == total - piece * ClusterBytes
         length == IF rest > ClusterBytes THEN ClusterBytes ELSE rest
     IN  IF cluster = Elsewhere THEN Elsewhere
         ELSE IF j % ClusterBytes < Stream!Delivered(start, length)
                THEN start + (j % ClusterBytes)
                ELSE Untouched]

\* The last step along the chain that a read takes.
LastStep(offset, total) == offset \div ClusterBytes + (total - 1) \div ClusterBytes

\* Whether a read fails: when it meets a mark on its way, and perhaps when it
\* leaves the chain and takes for entries what lies behind the last one.
Refusals(offset, total) ==
  IF \E i \in 2 .. Len(chain) : i <= LastStep(offset, total) + 1 /\ chain[i] \in Marks
    THEN {TRUE}
  ELSE IF LastStep(offset, total) > Len(chain) THEN BOOLEAN
  ELSE {FALSE}

OpenCall == [op |-> "open"]

Init ==
  /\ \E n \in 1 .. MaxChain :
       /\ chain \in {c \in [1 .. n -> Clusters] : \A i, j \in 1 .. n : c[i] = c[j] => i = j}
       /\ filesize \in {n * ClusterBytes - u : u \in Unused}
  /\ pos = 0
  /\ last = OpenCall

\* fat16_open: every open starts at the beginning of the file.
fat16_open ==
  /\ pos' = 0
  /\ last' = OpenCall
  /\ UNCHANGED <<chain, filesize>>

\* Mutant: every block is read from the position of the descriptor.
fat16_read_same_block(size, nmemb) ==
  /\ \E refused \in Refusals(pos, size) :
       LET block == fat16_read_internal(pos, size)
       IN  last' = [op |-> "read", pos |-> pos, size |-> size, nmemb |-> nmemb, ok |-> ~refused,
                    out |-> IF refused THEN << >>
                            ELSE [i \in 0 .. (size * nmemb - 1) |-> block[i % size]]]
  /\ UNCHANGED <<chain, filesize, pos>>

\* fat16_read: one block after the other, up to the first that fails.  The
\* position of the descriptor is not changed.
fat16_read(size, nmemb) ==
  /\ \E refused \in UNION {Refusals(pos + b * size, size) : b \in 0 .. (nmemb - 1)} :
       LET block == [b \in 0 .. (nmemb - 1) |-> fat16_read_internal(pos + b * size, size)]
       IN  /\ (\E b \in 0 .. (nmemb - 1) : Refusals(pos + b * size, size) = {TRUE}) => refused
           /\ last' = [op |-> "read", pos |-> pos, size |-> size, nmemb |-> nmemb, ok |-> ~refused,
                       out |-> IF refused THEN << >>
                               ELSE [i \in 0 .. (size * nmemb - 1) |-> block[i \div size][i % size]]]
  /\ UNCHANGED <<chain, filesize, pos>>

Whences == {"SEEK_SET", "SEEK_CUR", "SEEK_END", "other"}

\* fat16_seek; an offset beyond the end of the file is refused.
fat16_seek(offset, whence) ==
  /\ LET ok == offset < filesize /\ whence /= "other"
     IN  /\ pos' = IF ok /\ whence = "SEEK_SET" THEN offset
                   ELSE IF ok /\ whence = "SEEK_CUR" THEN pos + offset
                   ELSE pos
         /\ last' = [op |-> "seek", offset |-> offset, whence |-> whence, ok |-> ok]
  /\ UNCHANGED <<chain, filesize>>

Next ==
  \/ fat16_open
  \/ \E size \in Sizes, nmemb \in Counts : fat16_read(size, nmemb)
  \/ \E offset \in Offsets, whence \in Whences :
       pos + offset <= MaxPos /\ fat16_seek(offset, whence)

Spec == Init /\ [][Next]_vars
-----------------------------------------------------------------------------
(* Properties. *)

\* Where byte i of the file lies.
FileByte(i) ==
  (DataSector + (chain[i \div ClusterBytes + 1] - 2) * SectorsPerCluster) * SectorSize
    + (i % ClusterBytes)

ReadWithinFile ==
  last.op = "read" /\ last.ok /\ last.pos + last.size * last.nmemb <= filesize

ReadsFile == \A i \in DOMAIN last.out : last.out[i] = FileByte(last.pos + i)

\* A read that starts at a cluster and takes one block delivers the bytes of the
\* file, however its clusters are scattered.  Programs are loaded this way: from
\* the beginning, in one block of the file's size.
BlocksFromClusterStart ==
  (ReadWithinFile /\ last.nmemb = 1 /\ last.pos % ClusterBytes = 0) => ReadsFile

\* A read of blocks that each end before the end of a sector delivers the bytes
\* of the file from any position, however often the descriptor was moved.
ReadsWithinSector ==
  (/\ ReadWithinFile
   /\ \A b \in 0 .. (last.nmemb - 1) :
        ((last.pos + b * last.size) % SectorSize) + last.size < SectorSize)
    => ReadsFile

\* The file fits the clusters of its chain, and the descriptor is never before it.
FileTypeOK ==
  /\ chain \in Seq(Clusters)
  /\ filesize \in Nat /\ filesize <= Len(chain) * ClusterBytes
  /\ pos \in Nat

\* The inductive strengthening of the properties above.
FileInv == FileTypeOK /\ BlocksFromClusterStart /\ ReadsWithinSector
=============================================================================
