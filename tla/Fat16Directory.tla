--------------------------- MODULE Fat16Directory ---------------------------
(***************************************************************************)
(* Reading a directory of a FAT16 disk and looking names up in it           *)
(* (src/fs/fat/fat16.c): the items before the end mark are counted one by   *)
(* one through a disk stream, then the table is read in one piece and the   *)
(* first `total' items of it are compared with the name.  The root          *)
(* directory is read once, when the disk is recognised; a subdirectory each *)
(* time a path leads through it.                                            *)
(*                                                                         *)
(* Positions are relative to the first sector of the directory.             *)
(***************************************************************************)
EXTENDS DiskStreamer, FiniteSets, Sequences

CONSTANTS
  ItemSize,     \* sizeof(struct fat_directory_item)
  RootEntries,  \* primary_header->root_dir_entries
  Names,        \* the names of files and subdirectories
  Deleted,      \* the name 0xE5 of an item that is not used any more
  MaxItems,     \* bound: items before the end mark
  MaxCount,     \* bound: where a count that does not end is cut off
  NULL

ASSUME Fat16DirectoryAssumption ==
  /\ ItemSize \in 1 .. SectorSize
  /\ SectorSize % ItemSize = 0
  /\ RootEntries \in Nat
  /\ Deleted \notin Names
  /\ NULL \notin Names
  /\ MaxItems \in Nat
  /\ MaxCount \in Nat /\ MaxItems <= MaxCount
  /\ NULL \notin 1 .. MaxItems

VARIABLES
  table,   \* the items of the directory, up to the end mark
  kind,    \* "root" or "sub"
  step,    \* "closed", "count" (in the loop of the count), "counted" or "loaded"
  total,   \* count in the loop, then directory->total
  found    \* the last lookup: the name and the item found, or NULL

vars == <<table, kind, step, total, found, pos, request>>

EndMark == [end |-> TRUE]

ASSUME EndMarkAssumption == EndMark \notin Names \cup {Deleted}

\* The item that starts at a position of the disk.
ItemAt(p) ==
  LET i == p \div ItemSize + 1 IN IF i <= Len(table) THEN table[i] ELSE EndMark

\* The names of a directory are different; deleted items keep their places.
Init ==
  /\ \E n \in 0 .. MaxItems :
       table \in {t \in [1 .. n -> Names \cup {Deleted}] :
                    \A i, j \in 1 .. n : (t[i] = t[j] /\ t[i] /= Deleted) => i = j}
  /\ kind \in {"root", "sub"}
  /\ step = "closed"
  /\ total = 0
  /\ found = NULL
  /\ StreamInit

\* fat16_get_total_items_for_directory, up to its loop.
StartCount ==
  /\ step = "closed"
  /\ step' = "count"
  /\ diskstreamer_seek(0)
  /\ total' = 0
  /\ UNCHANGED <<table, kind, found>>

\* Mutant: deleted items are counted too.
CountItemDeletedToo ==
  /\ step = "count"
  /\ diskstreamer_read(ItemSize)
  /\ IF ItemAt(pos) = EndMark THEN step' = "counted" /\ UNCHANGED total
     ELSE step' = step /\ total' = IF total < MaxCount THEN total + 1 ELSE total
  /\ UNCHANGED <<table, kind, found>>

\* Mutant: the stream is set to the start of the directory in every turn.
CountItemRewinds ==
  /\ step = "count"
  /\ ReadFrom(0, ItemSize)
  /\ IF ItemAt(pos) = EndMark THEN step' = "counted" ELSE step' = step
  /\ total' = IF ItemAt(pos) \in Names /\ total < MaxCount THEN total + 1 ELSE total
  /\ UNCHANGED <<table, kind, found>>

\* One turn of the loop.
CountItem ==
  /\ step = "count"
  /\ diskstreamer_read(ItemSize)
  /\ IF ItemAt(pos) = EndMark THEN step' = "counted" ELSE step' = step
  /\ total' = IF ItemAt(pos) \in Names /\ total < MaxCount THEN total + 1 ELSE total
  /\ UNCHANGED <<table, kind, found>>

\* fat16_get_root_directory after the count: the whole table is read.
fat16_get_root_directory ==
  /\ step = "counted" /\ kind = "root"
  /\ step' = "loaded"
  /\ ReadFrom(0, RootEntries * ItemSize)
  /\ UNCHANGED <<table, kind, total, found>>

\* fat16_load_fat_directory after the count: as many items as were counted are
\* read, deleted ones among them, through the stream for clusters.
fat16_load_fat_directory ==
  /\ step = "counted" /\ kind = "sub"
  /\ step' = "loaded"
  /\ UNCHANGED <<table, kind, total, found, pos, request>>

\* Mutant: the search starts with the second item.
MatchesFromSecond(name) == {i \in 2 .. total : table[i] = name}

\* The items a search looks at that have the name.
Matches(name) == {i \in 1 .. total : table[i] = name}

\* fat16_find_item_in_directory.
fat16_find_item_in_directory(name) ==
  /\ step = "loaded"
  /\ found' = [name |-> name, item |-> IF Matches(name) = {} THEN NULL
                                       ELSE CHOOSE i \in Matches(name) : TRUE]
  /\ UNCHANGED <<table, kind, step, total, pos, request>>

\* fat16_free_directory; the root directory stays.
fat16_free_directory ==
  /\ step = "loaded" /\ kind = "sub"
  /\ step' = "closed"
  /\ found' = NULL
  /\ UNCHANGED <<table, kind, total, pos, request>>

Next ==
  \/ StartCount
  \/ CountItem
  \/ fat16_get_root_directory
  \/ fat16_load_fat_directory
  \/ \E name \in Names : fat16_find_item_in_directory(name)
  \/ fat16_free_directory

Spec == Init /\ [][Next]_vars

\* Nothing interrupts the kernel in the loop of the count or after it.
FairSpec ==
  Spec /\ WF_vars(CountItem \/ fat16_get_root_directory \/ fat16_load_fat_directory)
-----------------------------------------------------------------------------
(* Properties. *)

Used == {i \in DOMAIN table : table[i] /= Deleted}

\* When the count is over it is the number of used items: none was skipped and
\* none counted twice, though the stream is moved back at the end of a sector; and
\* every item, as the whole root table, was delivered to its last byte.
CountsUsed ==
  /\ step \in {"counted", "loaded"} => total = Cardinality(Used)
  /\ request.bytes = request.total

\* A lookup of a name finds the item that has it when no deleted item comes
\* before that: the search stops after as many items as are used.
FindsUsed ==
  (found /= NULL /\ found.item = NULL)
    => \A i \in Used : table[i] = found.name => \E j \in 1 .. (i - 1) : j \notin Used

\* Counting the items of a directory comes to an end.  The comment of the loop
\* is "read items one by one from the start pos".
CountEnds == step = "count" ~> step = "loaded"

DirectoryTypeOK ==
  /\ table \in Seq(Names \cup {Deleted}) /\ Len(table) <= MaxItems
  /\ kind \in {"root", "sub"}
  /\ step \in {"closed", "count", "counted", "loaded"}
  /\ total \in Nat /\ pos \in Nat

\* In the loop of the count the stream stands at an item, and the used ones before
\* it are counted; or the directory fills its first sector and the stream, moved
\* back at the end of it, goes round in that sector.
CountsSoFar ==
  step = "count" =>
    /\ pos % ItemSize = 0
    /\ ItemSize < SectorSize => pos < SectorSize
    /\ \/ /\ pos \div ItemSize <= Len(table)
          /\ total = Cardinality({i \in Used : i <= pos \div ItemSize})
       \/ ItemSize < SectorSize /\ SectorSize <= ItemSize * Len(table)

\* The inductive strengthening of the properties above.
DirectoryInv ==
  /\ DirectoryTypeOK
  /\ CountsSoFar /\ CountsUsed /\ FindsUsed
  /\ found /= NULL => step = "loaded"
=============================================================================
