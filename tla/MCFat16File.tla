----------------------------- MODULE MCFat16File -----------------------------
(* Sectors of three bytes, clusters of two sectors, four clusters, one of which *)
(* has the number of a mark.                                                    *)
EXTENDS Fat16File

MCClusters == 2 .. 5
MCSizes == {1, 2, 4, 6, 7, 18}
MCOffsets == {0, 1, 3, 6, 12}
=============================================================================
