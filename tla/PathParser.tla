----------------------------- MODULE PathParser -----------------------------
(***************************************************************************)
(* Paths of files (src/fs/pparser.c): a digit for the drive, ":/", and the  *)
(* parts between slashes.  A path is a sequence of character codes.         *)
(***************************************************************************)
EXTENDS Integers, Sequences

Slash == 47
Colon == 58

is_digit(c) == c \in 48 .. 57

is_valid_path(path) ==
  /\ Len(path) >= 3
  /\ is_digit(path[1]) /\ path[2] = Colon /\ path[3] = Slash

\* The position of the next slash, or of the terminator.
EndOfPart(path, at) ==
  CHOOSE e \in at .. (Len(path) + 1) :
    /\ e = Len(path) + 1 \/ path[e] = Slash
    /\ \A j \in at .. (e - 1) : path[j] /= Slash

\* Mutant: the slash is left for the next part.
create_path_node_keep_slash(path, s) ==
  LET end == EndOfPart(path, s.at)
  IN  IF s.at > Len(path) THEN s
      ELSE [at |-> end, parts |-> Append(s.parts, SubSeq(path, s.at, end - 1))]

\* One call of create_path_nodes: at the terminator nothing; else a part up to the
\* next slash, which is skipped.  Nothing follows a slash at the end; two slashes
\* enclose an empty part.
create_path_node(path, s) ==
  LET end == EndOfPart(path, s.at)
  IN  IF s.at > Len(path) THEN s
      ELSE [at |-> IF end > Len(path) THEN end ELSE end + 1,
            parts |-> Append(s.parts, SubSeq(path, s.at, end - 1))]

\* create_path_nodes calls itself as its last step, for the rest of the path.
create_path_nodes(path) ==
  LET nodes[k \in 0 .. Len(path)] ==
        IF k = 0 THEN [at |-> 1, parts |-> << >>] ELSE create_path_node(path, nodes[k - 1])
  IN  nodes[Len(path)].parts

\* pathparser_parse of a valid path.
pathparser_parse(path) ==
  [drive_no |-> path[1] - 48, parts |-> create_path_nodes(SubSeq(path, 4, Len(path)))]

\* The parts with a slash between two of them.
Joined(parts) ==
  LET joined[k \in 0 .. Len(parts)] ==
        IF k = 0 THEN << >>
        ELSE IF k = 1 THEN parts[1]
        ELSE joined[k - 1] \o <<Slash>> \o parts[k]
  IN  joined[Len(parts)]
=============================================================================
