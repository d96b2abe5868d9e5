--------------------------- MODULE MCSystemCalls ---------------------------
(* The programs of the repository, few slots and addresses. *)
EXTENDS SystemCalls
=============================================================================
