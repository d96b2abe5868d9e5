------------------------------- MODULE MCTasks -------------------------------
(* Few slots, programs and addresses for TLC. *)
EXTENDS Tasks
=============================================================================
