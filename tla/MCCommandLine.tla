--------------------------- MODULE MCCommandLine ---------------------------
(* A letter, which is also the name of a program, a blank, a quote, a slash, *)
(* backspace and enter.                                                      *)
EXTENDS CommandLine

MCNames == {<<97>>}
=============================================================================
