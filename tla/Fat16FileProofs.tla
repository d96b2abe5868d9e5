--------------------------- MODULE Fat16FileProofs ---------------------------
(***************************************************************************)
(* Proofs about reading files: for sectors and clusters of every size, and   *)
(* for files of any number of clusters wherever they lie on the disk.        *)
(***************************************************************************)
EXTENDS Fat16File, NaturalNumbers

(* Quotients and remainders of offsets. *)

\* The quotient is the only number that leaves a remainder below S.
LEMMA QuotientUnique ==
  ASSUME NEW S \in Nat \ {0}, NEW q \in Int, NEW r \in 0 .. (S - 1), NEW a \in Int,
         a = S * q + r
  PROVE  a \div S = q
<1>1. S * q <= a /\ a < S * q + S
  <2>1. PICK x \in Int : x = S * q
    OBVIOUS
  <2> QED BY <2>1
<1>2. q <= a \div S
  BY <1>1, QuotientAtLeast
<1>3. a \div S <= q
  BY <1>1, QuotientAtMost
<1> QED BY <1>2, <1>3

\* An offset and a distance add up digit by digit when no carry occurs.
LEMMA NoCarry ==
  ASSUME NEW S \in Nat \ {0}, NEW a \in Nat, NEW b \in Nat, (a % S) + (b % S) < S
  PROVE  (a + b) % S = (a % S) + (b % S) /\ (a + b) \div S = a \div S + b \div S
<1>1. PICK p \in Int, r \in 0 .. (S - 1) : a = S * p + r /\ r = a % S /\ p = a \div S
  BY QuotientAndRemainder
<1>2. PICK q \in Int, t \in 0 .. (S - 1) : b = S * q + t /\ t = b % S /\ q = b \div S
  BY QuotientAndRemainder
<1>3. PICK k \in Int, u \in 0 .. (S - 1), c \in Int : k = p + q /\ u = r + t /\ c = a + b
  <2>1. r + t < S
    BY <1>1, <1>2
  <2>2. p + q \in Int /\ r + t \in 0 .. (S - 1) /\ a + b \in Int
    BY <2>1
  <2> QED BY <2>2
<1>4. c = S * k + u
  <2>1. PICK x \in Int, y \in Int : x = S * p /\ y = S * q
    BY <1>1, <1>2
  <2>2. S * k = x + y
    BY <1>1, <1>2, <1>3, <2>1
  <2>3. a = x + r /\ b = y + t
    BY <1>1, <1>2, <2>1
  <2> QED BY <1>3, <2>2, <2>3
<1>5. c % S = u /\ c \div S = k
  BY <1>3, <1>4, RemainderUnique, QuotientUnique
<1> QED BY <1>1, <1>2, <1>3, <1>5

LEMMA SmallNumber ==
  ASSUME NEW S \in Nat \ {0}, NEW a \in 0 .. (S - 1)
  PROVE  a % S = a /\ a \div S = 0
<1>1. a = S * 0 + a /\ 0 \in Int /\ a \in Int
  OBVIOUS
<1> QED BY <1>1, RemainderUnique, QuotientUnique

LEMMA QuotientNatural ==
  ASSUME NEW S \in Nat \ {0}, NEW a \in Nat
  PROVE  a \div S \in Nat /\ a % S \in 0 .. (S - 1) /\ a = S * (a \div S) + (a % S)
<1>1. a % S \in 0 .. (S - 1) /\ a \div S \in Int /\ a = S * (a \div S) + (a % S)
  BY QuotientAndRemainder
<1>2. S * 0 <= a /\ 0 \in Int /\ a \in Int
  OBVIOUS
<1>3. 0 <= a \div S
  BY <1>2, QuotientAtLeast
<1> QED BY <1>1, <1>3
-----------------------------------------------------------------------------
(* Pieces of a read. *)

LEMMA FileConstants ==
  /\ SectorSize \in Nat \ {0} /\ ClusterBytes \in Nat \ {0} /\ SectorSize <= ClusterBytes
  /\ \A x, a \in Int : a = ClusterBytes * x => a % SectorSize = 0
<1>1. SectorSize \in Nat \ {0} /\ SectorsPerCluster \in Nat \ {0}
  BY Fat16FileAssumption
<1>2. ClusterBytes \in Nat \ {0} /\ SectorSize <= ClusterBytes
  BY <1>1 DEF ClusterBytes
<1>3. ASSUME NEW x \in Int, NEW a \in Int, a = ClusterBytes * x PROVE a % SectorSize = 0
  <2>1. PICK q \in Int : q = SectorsPerCluster * x
    BY <1>1
  <2>2. a = SectorSize * q + 0 /\ 0 \in 0 .. (SectorSize - 1)
    BY <1>1, <1>3, <2>1 DEF ClusterBytes
  <2> QED BY <1>1, <2>2, RemainderUnique
<1> QED BY <1>1, <1>2, <1>3

\* The length of the piece that holds byte j of a read of `total' bytes.
PieceLength(total, j) ==
  LET rest == total - (j \div ClusterBytes) * ClusterBytes
  IN  IF rest > ClusterBytes THEN ClusterBytes ELSE rest

\* Where the stream starts for a piece of the cluster c.
PieceStart(c, offset) == fat16_cluster_to_sector(c) * SectorSize + (offset % ClusterBytes)

\* The cluster that fat16_get_cluster_for_offset finds for a piece is the one its
\* bytes belong to, if the piece does not run into the next cluster.
LEMMA ClusterOfPiece ==
  ASSUME FileTypeOK, NEW off \in Nat, NEW j \in Nat, off + j < filesize,
         (off % ClusterBytes) + (j % ClusterBytes) < ClusterBytes
  PROVE  \E c \in Clusters :
           /\ fat16_get_cluster_for_offset(off + (j \div ClusterBytes) * ClusterBytes) = c
           /\ chain[(off + j) \div ClusterBytes + 1] = c
           /\ c /= Elsewhere
           /\ (off + j) % ClusterBytes = (off % ClusterBytes) + (j % ClusterBytes)
<1> DEFINE S == ClusterBytes
<1>1. S \in Nat \ {0}
  BY FileConstants
<1>2. PICK n \in Nat : n = Len(chain) /\ filesize <= n * S /\ filesize \in Nat
                       /\ \A i \in 1 .. n : chain[i] \in Clusters
  BY DEF FileTypeOK
<1>3. PICK k \in Nat : k = j \div S
  BY <1>1, QuotientNatural
<1>4. PICK h \in Nat : h = off \div S
  BY <1>1, QuotientNatural
<1> HIDE DEF S
<1>5. (off + j) \div S = h + k /\ (off + j) % S = (off % S) + (j % S)
  BY <1>1, <1>3, <1>4, NoCarry DEF S
<1>6. (off + k * S) \div S = h + k
  <2>1. PICK a \in Nat : a = k * S
    BY <1>1
  <2>2. a = S * k + 0 /\ 0 \in 0 .. (S - 1)
    BY <1>1, <2>1
  <2>3. a % S = 0 /\ a \div S = k
    BY <1>1, <2>2, RemainderUnique, QuotientUnique
  <2>4. off % S \in 0 .. (S - 1)
    BY <1>1, QuotientNatural
  <2>5. (off % S) + (a % S) < S
    BY <1>1, <2>3, <2>4
  <2>6. (off + a) \div S = (off \div S) + (a \div S)
    BY <1>1, <2>5, NoCarry
  <2> QED BY <1>4, <2>1, <2>3, <2>6
<1>7. h + k < n
  <2>1. PICK a \in Nat, m \in Nat : a = off + j /\ m = h + k
    OBVIOUS
  <2>2. a \div S = m
    BY <1>5, <2>1
  <2>3. PICK r \in 0 .. (S - 1) : a = S * m + r
    BY <1>1, <2>2, QuotientNatural
  <2>4. S * m < S * n
    <3>1. PICK x \in Int, y \in Int : x = S * m /\ y = S * n
      BY <1>1
    <3>2. a = x + r /\ a < y
      BY <1>1, <1>2, <2>1, <2>3, <3>1
    <3> QED BY <3>1, <3>2
  <2>5. m < n
    BY <1>1, <2>4, MultiplesOrdered
  <2> QED BY <2>1, <2>5
<1>8. h + k + 1 \in 1 .. n
  BY <1>7
<1>9. chain[h + k + 1] \in Clusters /\ chain[h + k + 1] /= Elsewhere
  <2>1. \A c \in Clusters : c \in Nat
    BY Fat16FileAssumption
  <2>2. chain[h + k + 1] \in Clusters
    BY <1>2, <1>8
  <2> QED BY <2>1, <2>2 DEF Elsewhere
<1>10. fat16_get_cluster_for_offset(off + k * S) = chain[h + k + 1]
  BY <1>2, <1>6, <1>7 DEF fat16_get_cluster_for_offset, S
<1> QED BY <1>3, <1>5, <1>9, <1>10 DEF S

\* If the stream delivers a byte of such a piece, it is the byte of the file.
LEMMA PieceDelivers ==
  ASSUME FileTypeOK, NEW off \in Nat, NEW total \in Nat, off + total <= filesize,
         NEW j \in 0 .. (total - 1),
         (off % ClusterBytes) + (j % ClusterBytes) < ClusterBytes,
         \A c \in Clusters :
           j % ClusterBytes < Stream!Delivered(PieceStart(c, off), PieceLength(total, j))
  PROVE  fat16_read_internal(off, total)[j] = FileByte(off + j)
<1>1. off + j < filesize /\ j \in Nat
  BY DEF FileTypeOK
<1>2. PICK c \in Clusters :
        /\ fat16_get_cluster_for_offset(off + (j \div ClusterBytes) * ClusterBytes) = c
        /\ chain[(off + j) \div ClusterBytes + 1] = c
        /\ c /= Elsewhere
        /\ (off + j) % ClusterBytes = (off % ClusterBytes) + (j % ClusterBytes)
  BY <1>1, ClusterOfPiece
<1>3. j % ClusterBytes < Stream!Delivered(PieceStart(c, off), PieceLength(total, j))
  OBVIOUS
<1>4. fat16_read_internal(off, total)[j] = PieceStart(c, off) + (j % ClusterBytes)
  BY <1>2, <1>3 DEF fat16_read_internal, PieceStart, PieceLength
<1>5. PICK a \in Int, b \in Int, d \in Int :
        a = fat16_cluster_to_sector(c) * SectorSize /\ b = off % ClusterBytes /\ d = j % ClusterBytes
  <2>1. c \in Nat /\ DataSector \in Nat /\ SectorsPerCluster \in Nat /\ SectorSize \in Nat
    BY Fat16FileAssumption
  <2>2. fat16_cluster_to_sector(c) * SectorSize \in Int
    BY <2>1 DEF fat16_cluster_to_sector
  <2>3. off % ClusterBytes \in Int /\ j % ClusterBytes \in Int
    BY <1>1, FileConstants, QuotientNatural
  <2> QED BY <2>2, <2>3
<1>6. FileByte(off + j) = a + ((off + j) % ClusterBytes)
  BY <1>2, <1>5 DEF FileByte, fat16_cluster_to_sector
<1> QED BY <1>2, <1>4, <1>5, <1>6 DEF PieceStart

\* An offset into the file and the offset into its cluster fall at the same place of
\* a sector.
LEMMA OffsetInCluster ==
  ASSUME NEW off \in Nat
  PROVE  (off % ClusterBytes) % SectorSize = off % SectorSize
<1>1. SectorSize \in Nat \ {0} /\ ClusterBytes \in Nat \ {0}
  BY FileConstants
<1>2. /\ off \div ClusterBytes \in Nat /\ off % ClusterBytes \in 0 .. (ClusterBytes - 1)
      /\ off = ClusterBytes * (off \div ClusterBytes) + (off % ClusterBytes)
  BY <1>1, QuotientNatural
<1>3. PICK q \in Int, r \in Int : r = off % ClusterBytes /\ off = ClusterBytes * q + r
  BY <1>1, <1>2
<1>4. PICK v \in Int : v = ClusterBytes * q
  BY <1>1
<1>5. v % SectorSize = 0
  BY <1>4, FileConstants
<1>6. (v + r) % SectorSize = r % SectorSize
  BY <1>1, <1>5, RemainderOfSum
<1> QED BY <1>3, <1>4, <1>6

LEMMA PieceOffset ==
  ASSUME NEW c \in Clusters, NEW off \in Nat
  PROVE  Stream!Offset(PieceStart(c, off)) = off % SectorSize
<1>1. SectorSize \in Nat \ {0} /\ ClusterBytes \in Nat \ {0}
  BY FileConstants
<1>2. PICK x \in Int, w \in Int : x = fat16_cluster_to_sector(c) /\ w = x * SectorSize
  <2>1. c \in Nat /\ DataSector \in Nat /\ SectorsPerCluster \in Nat /\ SectorSize \in Nat
    BY Fat16FileAssumption
  <2>2. fat16_cluster_to_sector(c) \in Int
    BY <2>1 DEF fat16_cluster_to_sector
  <2> QED BY <2>1, <2>2
<1>3. PICK r \in Int : r = off % ClusterBytes
  <2>1. off % ClusterBytes \in 0 .. (ClusterBytes - 1)
    BY <1>1, QuotientNatural
  <2> QED BY <1>1, <2>1
<1>4. w % SectorSize = 0
  <2>1. w = SectorSize * x + 0 /\ 0 \in 0 .. (SectorSize - 1)
    BY <1>1, <1>2
  <2> QED BY <1>1, <1>2, <2>1, RemainderUnique
<1>5. (w + r) % SectorSize = r % SectorSize
  BY <1>1, <1>4, RemainderOfSum
<1>6. r % SectorSize = off % SectorSize
  BY <1>3, OffsetInCluster
<1> QED BY <1>2, <1>3, <1>5, <1>6 DEF PieceStart, Stream!Offset

\* A piece that starts with a sector is delivered whole, and so is one that ends
\* within its sector.
LEMMA PieceIsWhole ==
  ASSUME NEW c \in Clusters, NEW off \in Nat, NEW length \in Nat,
         off % SectorSize = 0 \/ (off % SectorSize) + length < SectorSize
  PROVE  Stream!Delivered(PieceStart(c, off), length) = length
<1>1. SectorSize \in Nat \ {0}
  BY FileConstants
<1>2. PICK o \in Nat : o = off % SectorSize
  <2>1. off % SectorSize \in 0 .. (SectorSize - 1)
    BY <1>1, QuotientNatural
  <2> QED BY <1>1, <2>1
<1>3. Stream!Offset(PieceStart(c, off)) = o
  BY <1>2, PieceOffset
<1>4. o = 0 \/ o + length < SectorSize
  BY <1>2
<1> QED BY <1>1, <1>3, <1>4 DEF Stream!Delivered, Stream!Overflow

\* A block that starts with a cluster is read as it is in the file.
LEMMA BlockFromClusterStart ==
  ASSUME FileTypeOK, NEW off \in Nat, off % ClusterBytes = 0,
         NEW total \in Nat, off + total <= filesize, NEW j \in 0 .. (total - 1)
  PROVE  fat16_read_internal(off, total)[j] = FileByte(off + j)
<1>1. SectorSize \in Nat \ {0} /\ ClusterBytes \in Nat \ {0} /\ j \in Nat
  BY FileConstants
<1>2. PICK k \in Nat, r \in 0 .. (ClusterBytes - 1) :
        k = j \div ClusterBytes /\ r = j % ClusterBytes /\ j = ClusterBytes * k + r
  <2>1. /\ j \div ClusterBytes \in Nat /\ j % ClusterBytes \in 0 .. (ClusterBytes - 1)
        /\ j = ClusterBytes * (j \div ClusterBytes) + (j % ClusterBytes)
    BY <1>1, QuotientNatural
  <2> QED BY <2>1
<1>3. off % SectorSize = 0
  <2>1. 0 % SectorSize = 0
    BY <1>1, SmallNumber
  <2> QED BY <2>1, OffsetInCluster
<1>4. PieceLength(total, j) \in Nat /\ r < PieceLength(total, j)
  <2>1. PICK x \in Nat : x = k * ClusterBytes
    BY <1>1, <1>2
  <2>2. j = x + r
    BY <1>1, <1>2, <2>1
  <2>3. PieceLength(total, j) = IF total - x > ClusterBytes THEN ClusterBytes ELSE total - x
    BY <1>2, <2>1 DEF PieceLength
  <2> QED BY <1>1, <2>2, <2>3
<1>5. \A c \in Clusters :
        j % ClusterBytes < Stream!Delivered(PieceStart(c, off), PieceLength(total, j))
  <2> SUFFICES ASSUME NEW c \in Clusters
               PROVE  r < Stream!Delivered(PieceStart(c, off), PieceLength(total, j))
    BY <1>2
  <2>1. PICK length \in Nat : length = PieceLength(total, j)
    BY <1>4
  <2>2. Stream!Delivered(PieceStart(c, off), length) = length
    BY <1>3, PieceIsWhole
  <2> QED BY <1>4, <2>1, <2>2
<1>6. (off % ClusterBytes) + (j % ClusterBytes) < ClusterBytes
  BY <1>1, <1>2
<1> QED BY <1>5, <1>6, PieceDelivers

\* So is a block that ends before the end of a sector, wherever it starts.
LEMMA BlockWithinSector ==
  ASSUME FileTypeOK, NEW off \in Nat, NEW total \in Nat, (off % SectorSize) + total < SectorSize,
         off + total <= filesize, NEW j \in 0 .. (total - 1)
  PROVE  fat16_read_internal(off, total)[j] = FileByte(off + j)
<1>1. SectorSize \in Nat \ {0} /\ ClusterBytes \in Nat \ {0} /\ j \in Nat /\ SectorSize <= ClusterBytes
  BY FileConstants
<1>2. PICK r \in 0 .. (ClusterBytes - 1) : r = off % ClusterBytes
  <2>1. off % ClusterBytes \in 0 .. (ClusterBytes - 1)
    BY <1>1, QuotientNatural
  <2> QED BY <2>1
<1>3. PICK o \in 0 .. (SectorSize - 1), m \in Nat :
        o = off % SectorSize /\ r = SectorSize * m + o
  <2>1. r \in Nat /\ r % SectorSize = off % SectorSize
    <3>1. r % SectorSize = off % SectorSize
      BY <1>2, OffsetInCluster
    <3>2. r \in Nat
      BY <1>1
    <3> QED BY <3>1, <3>2
  <2>2. /\ r \div SectorSize \in Nat /\ r % SectorSize \in 0 .. (SectorSize - 1)
        /\ r = SectorSize * (r \div SectorSize) + (r % SectorSize)
    BY <1>1, <2>1, QuotientNatural
  <2>3. PICK o \in 0 .. (SectorSize - 1) : o = r % SectorSize
    BY <2>2
  <2> QED BY <2>1, <2>2, <2>3
<1>4. o + total < SectorSize /\ j < total
  BY <1>3
<1>5. j % ClusterBytes = j /\ j \div ClusterBytes = 0
  <2>1. j \in 0 .. (ClusterBytes - 1)
    BY <1>1, <1>4
  <2> QED BY <1>1, <2>1, SmallNumber
<1>6. r + j < ClusterBytes
  <2>1. SectorsPerCluster \in Nat /\ ClusterBytes = SectorSize * SectorsPerCluster
    BY Fat16FileAssumption DEF ClusterBytes
  <2>2. PICK x \in Nat : x = SectorSize * m
    BY <1>1, <1>3
  <2>3. x < ClusterBytes
    BY <1>1, <1>2, <1>3, <2>2
  <2>4. SectorSize * m < SectorSize * SectorsPerCluster
    BY <2>1, <2>2, <2>3
  <2>5. m < SectorsPerCluster
    <3>1. m \in Int /\ SectorsPerCluster \in Int
      BY <2>1
    <3> QED BY <1>1, <2>4, <3>1, MultiplesOrdered
  <2>6. PICK d \in Nat : SectorsPerCluster = m + 1 + d
    BY <2>1, <2>5
  <2>7. PICK y \in Nat : y = SectorSize * d
    BY <1>1
  <2>8. ClusterBytes = x + SectorSize + y
    BY <1>1, <1>3, <2>1, <2>2, <2>6, <2>7
  <2> QED BY <1>1, <1>3, <1>4, <2>2, <2>8
<1>7. PieceLength(total, j) = total
  BY <1>1, <1>4, <1>5 DEF PieceLength
<1>8. \A c \in Clusters :
        j % ClusterBytes < Stream!Delivered(PieceStart(c, off), PieceLength(total, j))
  <2> SUFFICES ASSUME NEW c \in Clusters
               PROVE  j < Stream!Delivered(PieceStart(c, off), total)
    BY <1>5, <1>7
  <2>1. Stream!Delivered(PieceStart(c, off), total) = total
    BY PieceIsWhole
  <2> QED BY <1>4, <2>1
<1>9. (off % ClusterBytes) + (j % ClusterBytes) < ClusterBytes
  BY <1>2, <1>5, <1>6
<1> QED BY <1>8, <1>9, PieceDelivers
-----------------------------------------------------------------------------
(* Calls. *)

\* A byte of a read lies in one of its blocks.
LEMMA BlockOfByte ==
  ASSUME NEW size \in Nat \ {0}, NEW nmemb \in Nat, NEW i \in 0 .. (size * nmemb - 1)
  PROVE  \E b \in 0 .. (nmemb - 1), j \in 0 .. (size - 1) :
           /\ b = i \div size /\ j = i % size /\ i = b * size + j
           /\ b * size + size <= size * nmemb
<1>1. i \in Nat /\ i < size * nmemb /\ size * nmemb \in Nat
  OBVIOUS
<1>2. /\ i \div size \in Nat /\ i % size \in 0 .. (size - 1)
      /\ i = size * (i \div size) + (i % size)
  BY <1>1, QuotientNatural
<1>3. PICK b \in Nat, j \in 0 .. (size - 1) : b = i \div size /\ j = i % size /\ i = size * b + j
  BY <1>2
<1>4. PICK x \in Nat : x = size * b
  OBVIOUS
<1>5. size * b < size * nmemb
  BY <1>1, <1>3, <1>4
<1>6. b < nmemb
  <2>1. b \in Int /\ nmemb \in Int
    OBVIOUS
  <2> QED BY <1>5, <2>1, MultiplesOrdered
<1>7. PICK d \in Nat : nmemb = b + 1 + d
  BY <1>6
<1>8. PICK y \in Nat : y = size * d
  OBVIOUS
<1>9. size * nmemb = x + size + y /\ b * size = x
  BY <1>4, <1>7, <1>8
<1>10. i = b * size + j /\ b * size + size <= size * nmemb
  BY <1>3, <1>4, <1>9
<1>11. b \in 0 .. (nmemb - 1)
  BY <1>6
<1> QED BY <1>3, <1>10, <1>11

\* Byte j of block b of a read is the byte of the file there.
BlockRight(size, b) ==
  \A j \in 0 .. (size - 1) :
    fat16_read_internal(pos + b * size, size)[j] = FileByte(pos + b * size + j)

\* A read whose blocks are each right is right.
LEMMA RightBlocks ==
  ASSUME FileTypeOK, NEW size \in Sizes, NEW nmemb \in Counts, fat16_read(size, nmemb), last'.ok,
         \A b \in 0 .. (nmemb - 1) : BlockRight(size, b)
  PROVE  ReadsFile'
<1>1. size \in Nat \ {0} /\ nmemb \in Nat /\ pos \in Nat
  BY Fat16FileAssumption DEF FileTypeOK
<1>2. last'.pos = pos /\ chain' = chain
  BY DEF fat16_read
<1> DEFINE block == [b \in 0 .. (nmemb - 1) |-> fat16_read_internal(pos + b * size, size)]
           read == [i \in 0 .. (size * nmemb - 1) |-> block[i \div size][i % size]]
<1>3. last'.out = read
  <2>1. PICK refused :
          last' = [op |-> "read", pos |-> pos, size |-> size, nmemb |-> nmemb, ok |-> ~refused,
                   out |-> IF refused THEN << >> ELSE read]
    BY Zenon DEF fat16_read
  <2> HIDE DEF read
  <2>2. last'.ok = ~refused /\ last'.out = IF refused THEN << >> ELSE read
    BY <2>1
  <2> QED BY <2>2
<1>4. ASSUME NEW i \in 0 .. (size * nmemb - 1) PROVE last'.out[i] = FileByte(pos + i)
  <2>1. PICK b \in 0 .. (nmemb - 1), j \in 0 .. (size - 1) :
          /\ b = i \div size /\ j = i % size /\ i = b * size + j
          /\ b * size + size <= size * nmemb
    BY <1>1, BlockOfByte, Zenon
  <2>2. last'.out[i] = fat16_read_internal(pos + b * size, size)[j]
    BY <1>3, <2>1
  <2>3. fat16_read_internal(pos + b * size, size)[j] = FileByte(pos + b * size + j)
    BY DEF BlockRight
  <2>4. pos + b * size + j = pos + i
    <3>1. PICK x \in Nat : x = b * size
      BY <1>1
    <3> QED BY <1>1, <2>1, <3>1
  <2> QED BY <2>2, <2>3, <2>4
<1>5. DOMAIN last'.out = 0 .. (size * nmemb - 1)
  BY <1>3
<1>6. \A i : FileByte(i)' = FileByte(i)
  BY <1>2 DEF FileByte
<1> QED BY <1>2, <1>4, <1>5, <1>6 DEF ReadsFile

LEMMA FileTypeInitial ==
  ASSUME Init
  PROVE  FileTypeOK
<1>1. PICK n \in 1 .. MaxChain :
        /\ chain \in [1 .. n -> Clusters]
        /\ \E u \in Unused : filesize = n * ClusterBytes - u
  BY DEF Init
<1>2. n \in Nat \ {0} /\ ClusterBytes \in Nat \ {0}
  BY Fat16FileAssumption, FileConstants
<1>3. chain \in Seq(Clusters) /\ Len(chain) = n
  BY <1>1, <1>2
<1>4. PICK u \in 0 .. (ClusterBytes - 1) : filesize = n * ClusterBytes - u
  BY <1>1, Fat16FileAssumption DEF ClusterBytes
<1>5. PICK x \in Nat : x = n * ClusterBytes /\ x >= ClusterBytes
  BY <1>2
<1>6. filesize \in Nat /\ filesize <= x
  BY <1>2, <1>4, <1>5
<1> QED BY <1>3, <1>5, <1>6 DEF FileTypeOK, Init

LEMMA FileTypeStep ==
  ASSUME FileTypeOK, [Next]_vars
  PROVE  FileTypeOK'
<1>1. chain' = chain /\ filesize' = filesize
  BY DEF Next, vars, fat16_open, fat16_read, fat16_seek
<1>2. pos' \in Nat
  <2>1. \A offset \in Offsets : offset \in Nat
    BY Fat16FileAssumption
  <2>2. pos \in Nat
    BY DEF FileTypeOK
  <2>3. CASE fat16_open
    BY <2>3 DEF fat16_open
  <2>4. CASE \E size \in Sizes, nmemb \in Counts : fat16_read(size, nmemb)
    BY <2>2, <2>4 DEF fat16_read
  <2>5. ASSUME NEW offset \in Offsets, NEW whence \in Whences, fat16_seek(offset, whence)
        PROVE  pos' \in Nat
    BY <2>1, <2>2, <2>5 DEF fat16_seek
  <2>6. CASE UNCHANGED vars
    BY <2>2, <2>6 DEF vars
  <2> QED BY <2>3, <2>4, <2>5, <2>6 DEF Next
<1> QED BY <1>1, <1>2 DEF FileTypeOK

LEMMA ReadKeepsProperties ==
  ASSUME FileTypeOK, NEW size \in Sizes, NEW nmemb \in Counts, fat16_read(size, nmemb)
  PROVE  BlocksFromClusterStart' /\ ReadsWithinSector'
<1>1. /\ size \in Nat \ {0} /\ nmemb \in Nat /\ pos \in Nat /\ filesize \in Nat
      /\ size * nmemb \in Nat
  BY Fat16FileAssumption DEF FileTypeOK
<1>2. /\ last'.pos = pos /\ last'.size = size /\ last'.nmemb = nmemb
      /\ filesize' = filesize
  BY DEF fat16_read
<1>3. ASSUME last'.ok, pos + size * nmemb <= filesize, nmemb = 1, pos % ClusterBytes = 0
      PROVE  ReadsFile'
  <2>1. pos + 0 * size = pos /\ pos + size <= filesize
    BY <1>1, <1>3
  <2>2. ASSUME NEW j \in 0 .. (size - 1)
        PROVE  fat16_read_internal(pos, size)[j] = FileByte(pos + j)
    BY <1>1, <1>3, <2>1, BlockFromClusterStart
  <2>3. BlockRight(size, 0)
    BY <2>1, <2>2 DEF BlockRight
  <2>4. \A b \in 0 .. (nmemb - 1) : b = 0
    BY <1>3
  <2> QED BY <1>3, <2>3, <2>4, RightBlocks
<1>4. ASSUME last'.ok, pos + size * nmemb <= filesize,
             \A b \in 0 .. (nmemb - 1) : ((pos + b * size) % SectorSize) + size < SectorSize
      PROVE  ReadsFile'
  <2>1. ASSUME NEW b \in 0 .. (nmemb - 1)
        PROVE  BlockRight(size, b)
    <3>1. PICK off \in Nat : off = pos + b * size
      BY <1>1
    <3>2. off + size <= filesize
      <4>1. PICK d \in Nat : nmemb = b + 1 + d
        BY <1>1
      <4>2. PICK x \in Nat, y \in Nat : x = b * size /\ y = size * d
        BY <1>1
      <4>3. size * nmemb = x + size + y
        BY <1>1, <4>1, <4>2
      <4> QED BY <1>1, <1>4, <3>1, <4>2, <4>3
    <3>3. (off % SectorSize) + size < SectorSize
      BY <1>4, <3>1
    <3>4. \A j \in 0 .. (size - 1) : fat16_read_internal(off, size)[j] = FileByte(off + j)
      BY <1>1, <3>2, <3>3, BlockWithinSector
    <3> QED BY <3>1, <3>4 DEF BlockRight
  <2> QED BY <1>4, <2>1, RightBlocks
<1>5. ReadWithinFile' => last'.ok /\ pos + size * nmemb <= filesize
  BY <1>2 DEF ReadWithinFile
<1>6. BlocksFromClusterStart'
  BY <1>2, <1>3, <1>5 DEF BlocksFromClusterStart
<1>7. ReadsWithinSector'
  BY <1>2, <1>4, <1>5 DEF ReadsWithinSector
<1> QED BY <1>6, <1>7

\* The inductive invariant of reads through a descriptor: the file fits its chain,
\* the descriptor stands at or after its beginning, and the last read was right
\* under the conditions of the two theorems that follow.
THEOREM FileInvariant == Spec => []FileInv
<1>1. Init => FileInv
  <2> SUFFICES ASSUME Init PROVE FileInv
    OBVIOUS
  <2>1. ~ReadWithinFile
    BY DEF Init, ReadWithinFile, OpenCall
  <2> QED BY <2>1, FileTypeInitial DEF FileInv, BlocksFromClusterStart, ReadsWithinSector
<1>2. FileInv /\ [Next]_vars => FileInv'
  <2> SUFFICES ASSUME FileInv, [Next]_vars PROVE FileInv'
    OBVIOUS
  <2>1. FileTypeOK'
    BY FileTypeStep DEF FileInv
  <2>2. BlocksFromClusterStart' /\ ReadsWithinSector'
    <3>1. ASSUME NEW size \in Sizes, NEW nmemb \in Counts, fat16_read(size, nmemb)
          PROVE  BlocksFromClusterStart' /\ ReadsWithinSector'
      BY <3>1, ReadKeepsProperties DEF FileInv
    <3>2. ASSUME last'.op /= "read" PROVE BlocksFromClusterStart' /\ ReadsWithinSector'
      BY <3>2 DEF BlocksFromClusterStart, ReadsWithinSector, ReadWithinFile
    <3>3. CASE fat16_open
      BY <3>2, <3>3 DEF fat16_open, OpenCall
    <3>4. CASE \E offset \in Offsets, whence \in Whences : fat16_seek(offset, whence)
      BY <3>2, <3>4 DEF fat16_seek
    <3>5. CASE UNCHANGED vars
      BY <3>5 DEF vars, FileInv, BlocksFromClusterStart, ReadsWithinSector, ReadWithinFile,
                  ReadsFile, FileByte
    <3> QED BY <3>1, <3>3, <3>4, <3>5 DEF Next
  <2> QED BY <2>1, <2>2 DEF FileInv
<1> QED BY <1>1, <1>2, PTL DEF Spec

\* A block read from the start of a cluster is what the file holds there, for files
\* of any length scattered over the disk in any way: how programs are loaded.
THEOREM FileBlocksFromClusterStart == Spec => []BlocksFromClusterStart
<1>1. FileInv => BlocksFromClusterStart
  BY DEF FileInv
<1> QED BY <1>1, FileInvariant, PTL

\* Blocks that each end before the end of a sector are what the file holds from any
\* position of the descriptor.
THEOREM FileReadsWithinSector == Spec => []ReadsWithinSector
<1>1. FileInv => ReadsWithinSector
  BY DEF FileInv
<1> QED BY <1>1, FileInvariant, PTL
=============================================================================
