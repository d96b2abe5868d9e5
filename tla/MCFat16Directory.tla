-------------------------- MODULE MCFat16Directory --------------------------
(* Four items to a sector, which the end mark has to share with the others. *)
EXTENDS Fat16Directory

CONSTANTS a, b, c

MCNames == {a, b, c}
MCPositions == 0 .. 16
MCTotals == 0 .. 17
=============================================================================
