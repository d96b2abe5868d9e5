------------------------------ MODULE MCLoader ------------------------------
(* An ELF program, a binary in a directory, paths to both and to nothing: to a  *)
(* missing file, through a file, and through a missing directory.               *)
EXTENDS Loader, TLC

MCTree == (<<"a">> :> "file") @@ (<<"d">> :> "dir") @@ (<<"d", "b">> :> "file")
MCElfFiles == {<<"a">>}
MCPaths == {<<>>, <<"a">>, <<"d">>, <<"d", "b">>, <<"x">>, <<"a", "b">>, <<"d", "x", "b">>}
=============================================================================
