---------------------------- MODULE DiskStreamer ----------------------------
(***************************************************************************)
(* Byte streams over the sectors of the disk (src/disk/streamer.c).  A read *)
(* is described by how many bytes it delivers, always the ones that follow  *)
(* the position on the disk, and by the position it leaves behind.          *)
(***************************************************************************)
EXTENDS Integers

CONSTANTS
  SectorSize,   \* LIEBE_OS_SECTOR_SIZE
  Positions,    \* positions at which the formulas for a read are compared with its loop
  Totals        \* numbers of bytes for which they are

ASSUME DiskStreamerAssumption ==
  /\ SectorSize \in Nat \ {0}
  /\ Positions \subseteq Nat
  /\ Totals \subseteq Nat

VARIABLES
  pos,      \* stream->pos
  request   \* the last read: where it began, what it asked for and delivered

streamvars == <<pos, request>>

Offset(p) == p % SectorSize

\* The bytes up to the end of the sector are not enough, or only just.
Overflow(p, total) == Offset(p) + total >= SectorSize

\* The bytes a read delivers.  After the rest of the first sector the source
\* goes on with total - SectorSize, which may be less than what is missing.
Delivered(p, total) ==
  IF ~Overflow(p, total) THEN total
  ELSE IF total > SectorSize THEN total - Offset(p)
  ELSE SectorSize - Offset(p)

\* Mutant: the recursive call does not move the position.
PositionAfterFirstSector(p, total) ==
  IF Overflow(p, total) THEN p + SectorSize - Offset(p) ELSE p + total

\* The position a read leaves behind: a rest below zero moves it back.
PositionAfter(p, total) ==
  IF Overflow(p, total) THEN p + total - Offset(p) ELSE p + total

\* One call of the recursion: where the stream stands, what the next call is asked
\* for, how many bytes have been copied, and whether the recursion has ended.
ReadCall(s) ==
  LET overflow == Overflow(s.at, s.asked)
      total_to_read == IF overflow THEN SectorSize - Offset(s.at) ELSE s.asked
  IN  IF s.ended THEN s
      ELSE [at |-> s.at + total_to_read,
            asked |-> s.asked - SectorSize,
            bytes |-> s.bytes + (IF total_to_read > 0 THEN total_to_read ELSE 0),
            ended |-> ~overflow]

\* The same read as the recursion of the source, one call per sector.
ReadLoop(p, total) ==
  LET calls[k \in 0 .. (total + 1)] ==
        IF k = 0 THEN [at |-> p, asked |-> total, bytes |-> 0, ended |-> FALSE]
        ELSE ReadCall(calls[k - 1])
  IN  calls[total + 1]

NoRequest == [from |-> 0, total |-> 0, bytes |-> 0]

\* get_new_disk_stream.
StreamInit == pos = 0 /\ request = NoRequest

diskstreamer_seek(p) == pos' = p /\ UNCHANGED request

\* A read from the position p.
ReadFrom(p, total) ==
  /\ pos' = PositionAfter(p, total)
  /\ request' = [from |-> p, total |-> total, bytes |-> Delivered(p, total)]

diskstreamer_read(total) == ReadFrom(pos, total)
-----------------------------------------------------------------------------
(* Properties. *)

\* Wherever the stream stands, the two formulas above are what the recursion of
\* the source comes to, one call of diskstreamer_read per sector.
ReadIsLoop ==
  \A p \in Positions \cup {pos}, total \in Totals :
    LET read == ReadLoop(p, total)
    IN  read.ended /\ read.bytes = Delivered(p, total) /\ read.at = PositionAfter(p, total)
=============================================================================
