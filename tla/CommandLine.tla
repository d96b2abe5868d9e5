---------------------------- MODULE CommandLine ----------------------------
(***************************************************************************)
(* The shell (programs/shell/src/shell.c) with the functions of the         *)
(* standard library it lives on (programs/stdlib/src/liebeos.c, string.c):  *)
(* a line is read with echo, split into arguments by strtok, and handed to  *)
(* system call 7, which makes a path of the first one and starts a program  *)
(* with the others.                                                         *)
(*                                                                         *)
(* The buffer of liebeos_parse_command is at the same address in every call *)
(* of the shell, so that a pointer strtok has kept points into it again.    *)
(***************************************************************************)
EXTENDS Terminal, PathParser, FiniteSets

CONSTANTS
  LineSize,        \* the size of the shell's buffer
  Keys,            \* the characters that are typed
  Names,           \* the program files in the root directory
  MaxAllocations,  \* LIEBE_OS_MAX_PROGRAM_ALLOCATIONS
  OutOfMemory,     \* whether malloc may fail before that
  MaxLines         \* bound: lines typed

ASSUME CommandLineAssumption ==
  /\ LineSize \in Nat \ {0, 1}
  /\ Keys \subseteq Nat \ {NUL, LineFeed}   \* as in keyboard_scan_set_one
  /\ MaxAllocations \in Nat /\ MaxLines \in Nat
  /\ OutOfMemory \in BOOLEAN

Enter == 13
SingleQuote == 39
DoubleQuote == 34
NoPtr == -1              \* the null pointer, beside offsets into a buffer
Prompt == <<36, Blank>>  \* "$ "

VARIABLES
  term,         \* the terminal
  pc,           \* where the shell is
  line, length, \* buf of the shell, and i of liebeos_terminal_readline
  strtok_state, \* scommand, and the variables sp and ..._quote_started
  arguments,    \* the list of struct command_argument
  allocations,  \* allocations of the shell; it frees none
  lines,        \* lines typed so far
  seen          \* when the line began: the cursor, the quotes and sp; whether it
                \* began with a backspace; whether malloc has failed for it

shellvars ==
  <<term, pc, line, length, strtok_state, arguments, allocations, lines, seen>>

\* A buffer as a sequence of the characters before its terminator.
StringAt(mem, from) ==
  LET end == CHOOSE e \in from .. LineSize :
               mem[e] = NUL /\ \A k \in from .. (e - 1) : mem[k] /= NUL
  IN  [k \in 1 .. (end - from) |-> mem[from + k - 1]]

\* strncpy to a buffer at least as long as the string.
strncpy(mem, str) ==
  [k \in DOMAIN mem |-> IF k < Len(str) THEN str[k + 1] ELSE IF k = Len(str) THEN NUL ELSE mem[k]]
-----------------------------------------------------------------------------
(* strtok with the delimiter " ". *)

\* Whether a quote of this kind is open after the characters from p to k.
QuoteAfter(mem, open, quote, p, k) ==
  open /= (Cardinality({j \in p .. k : mem[j] = quote}) % 2 = 1)

\* A character that ends a token, given whether a quote is open.
EndsToken(c, quoted) == c = NUL \/ (c = Blank /\ quoted)

\* Mutant: the pointer is kept when there are no more tokens.
Exhausted_keeps_sp(s) == s

Exhausted(s) == [s EXCEPT !.sp = NoPtr]

\* Mutant: one blank in front of a token is skipped, and no more.
StartOfToken_one_blank(mem, from) == IF mem[from] = Blank THEN from + 1 ELSE from

\* Blanks in front of a token are skipped.
StartOfToken(mem, from) ==
  CHOOSE k \in from .. LineSize : mem[k] /= Blank /\ \A j \in from .. (k - 1) : mem[j] = Blank

\* A token that starts at p ends at the terminator, or at a blank while a quote
\* is open.
Single(s, p, k) == QuoteAfter(s.mem, s.single, SingleQuote, p, k)
Double(s, p, k) == QuoteAfter(s.mem, s.double, DoubleQuote, p, k)

EndOfToken(s, p) ==
  LET Ends(k) == EndsToken(s.mem[k], Single(s, p, k) \/ Double(s, p, k))
  IN  CHOOSE k \in p .. LineSize : Ends(k) /\ \A j \in p .. (k - 1) : ~Ends(j)

\* The token and what is left in the global variables.  While sp is kept, the
\* string passed is ignored.  The quotes stay in the token, and one left open is
\* still open in the next line.
strtok(s, str) ==
  LET from == IF s.sp = NoPtr THEN str ELSE s.sp
      p == StartOfToken(s.mem, from)
      end == EndOfToken(s, p)
  IN  IF from = NoPtr
        THEN [state |-> s, token |-> NoPtr]
      ELSE IF s.mem[p] = NUL
        THEN [state |-> Exhausted(s), token |-> NoPtr]
      ELSE [state |-> [mem |-> [s.mem EXCEPT ![end] = NUL],
                       sp |-> IF s.mem[end] = NUL THEN end ELSE end + 1,
                       single |-> Single(s, p, end), double |-> Double(s, p, end)],
            token |-> p]
-----------------------------------------------------------------------------
\* The greeting the shell prints once, on a line of its own, is left out.
ShellInit ==
  /\ term = terminal_initialize
  /\ pc = "prompt"
  /\ line = [k \in 0 .. (LineSize - 1) |-> NUL] /\ length = 0
  /\ strtok_state = [mem |-> [k \in 0 .. LineSize |-> NUL], sp |-> NoPtr,
                     single |-> FALSE, double |-> FALSE]
  /\ arguments = << >>
  /\ allocations = 0
  /\ lines = 0
  /\ seen = [cursor |-> 0, sp |-> NoPtr, single |-> FALSE, double |-> FALSE,
             erased |-> FALSE, failed |-> FALSE]

\* The loop of the shell.
shell ==
  /\ pc = "prompt" /\ lines < MaxLines
  /\ term' = print(term, Prompt)
  /\ pc' = "readline"
  /\ line' = [k \in 0 .. (LineSize - 1) |-> NUL] /\ length' = 0
  /\ arguments' = << >>
  /\ lines' = lines + 1
  /\ seen' = [cursor |-> Cursor(term'), sp |-> strtok_state.sp,
              single |-> strtok_state.single, double |-> strtok_state.double,
              erased |-> FALSE, failed |-> FALSE]
  /\ UNCHANGED <<strtok_state, allocations>>

\* A round of liebeos_terminal_readline: enter ends the line, and so does the last
\* character that fits.  (The terminator is written at the end only; behind i the
\* buffer is not read before that.)  A backspace in an empty line erases a
\* character of the prompt and is put into the line.
liebeos_terminal_readline(c) ==
  /\ pc = "readline"
  /\ \/ /\ c = Enter
        /\ line' = [line EXCEPT ![length] = NUL]
        /\ term' = print(term, <<LineFeed>>)
        /\ pc' = "parse"
        /\ UNCHANGED <<length, seen>>
     \/ /\ c = Backspace /\ length >= 1
        /\ line' = [line EXCEPT ![length - 1] = NUL] /\ length' = length - 1   \* i -= 2, and i++
        /\ term' = terminal_writechar(term, c)
        /\ UNCHANGED <<pc, seen>>
     \/ /\ c /= Enter /\ ~(c = Backspace /\ length >= 1)
        /\ line' = [line EXCEPT ![length] = c, ![length + 1] = NUL]
        /\ length' = length + 1
        /\ seen' = [seen EXCEPT !.erased = @ \/ c = Backspace]
        /\ IF length' < LineSize - 1
             THEN term' = terminal_writechar(term, c) /\ pc' = "readline"
             ELSE term' = print(term, <<c, LineFeed>>) /\ pc' = "parse"
  /\ UNCHANGED <<strtok_state, arguments, allocations, lines>>

\* liebeos_malloc: the table of the process is full, or there is no memory.
MallocSucceeds == allocations < MaxAllocations
MallocFails == allocations = MaxAllocations \/ OutOfMemory

\* A token is copied to a new argument, or cannot be.
NewArgument(found, then_pc, failed_pc) ==
  \/ /\ MallocSucceeds
     /\ arguments' = Append(arguments, StringAt(found.state.mem, found.token))
     /\ allocations' = allocations + 1
     /\ pc' = then_pc
     /\ UNCHANGED seen
  \/ /\ MallocFails
     /\ pc' = failed_pc
     /\ seen' = [seen EXCEPT !.failed = TRUE]
     /\ UNCHANGED <<arguments, allocations>>

\* liebeos_parse_command up to its loop: the copy, and the root of the list.
liebeos_parse_command ==
  /\ pc = "parse"
  /\ LET copied == [strtok_state EXCEPT !.mem = strncpy(@, StringAt(line, 0))]
         found == strtok(copied, 0)
     IN  /\ strtok_state' = found.state
         /\ \/ /\ found.token = NoPtr
               /\ pc' = "prompt"
               /\ UNCHANGED <<arguments, allocations, seen>>
            \/ found.token /= NoPtr /\ NewArgument(found, "tokens", "prompt")
  /\ UNCHANGED <<term, line, length, lines>>

\* A round of its loop.
next_token ==
  /\ pc = "tokens"
  /\ LET found == strtok(strtok_state, NoPtr)
     IN  /\ strtok_state' = found.state
         /\ \/ /\ found.token = NoPtr
               /\ pc' = "system"
               /\ UNCHANGED <<arguments, allocations, seen>>
            \/ found.token /= NoPtr /\ NewArgument(found, "tokens", "system")
  /\ UNCHANGED <<term, line, length, lines>>

\* The path system call 7 makes of the first argument.
PathOf(name) == <<48, Colon, Slash>> \o name

\* process_inject_arguments: the list is counted and copied to an array of the
\* new process, the name of the program first.
process_inject_arguments(list) ==
  [argc |-> Len(list), argv |-> [k \in 0 .. (Len(list) - 1) |-> list[k + 1]]]

\* The program echo: its arguments with a blank between two, on a line of their own.
Echo(t, arg) ==
  LET Printed(k) == IF k + 1 < arg.argc THEN Append(arg.argv[k], Blank) ELSE arg.argv[k]
      at[k \in 0 .. (arg.argc - 1)] ==
        IF k = 0 THEN print(t, <<LineFeed>>) ELSE print(at[k - 1], Printed(k))
  IN  IF arg.argc = 1 THEN t ELSE print(at[arg.argc - 1], <<LineFeed>>)

\* liebeos_system: the program is found in the root directory, gets the list as
\* its arguments, prints them and ends; or it cannot be started.
liebeos_system ==
  /\ pc = "system"
  /\ LET path == PathOf(Head(arguments))
         found == /\ is_valid_path(path)
                  /\ pathparser_parse(path).parts \in {<<n>> : n \in Names}
     IN  \/ found /\ term' = Echo(term, process_inject_arguments(arguments))
         \/ (found => OutOfMemory) /\ UNCHANGED term
  /\ pc' = "prompt"
  /\ UNCHANGED <<line, length, strtok_state, arguments, allocations, lines, seen>>

\* The bound on the lines is reached.
Done == pc = "prompt" /\ lines = MaxLines /\ UNCHANGED shellvars

ShellNext ==
  \/ shell
  \/ \E c \in Keys : liebeos_terminal_readline(c)
  \/ liebeos_parse_command
  \/ next_token
  \/ liebeos_system
  \/ Done

ShellSpec == ShellInit /\ [][ShellNext]_shellvars
-----------------------------------------------------------------------------
(* Properties. *)

\* While a line is typed, the screen shows it behind the prompt, and the cursor
\* stands behind its last character, also when it has been wrapped and erased
\* over the edge of the screen.  Unless a backspace was typed in the empty line.
\* (Of what is below the last row that is modelled, only the cursor is known.)
LineOnScreen ==
  (pc = "readline" /\ ~seen.erased) =>
    /\ Cursor(term) = seen.cursor + length
    /\ \A k \in 0 .. (length - 1) :
         seen.cursor + k \in DOMAIN term.cells => term.cells[seen.cursor + k] = line[k]

\* A finished line leaves strtok at rest, so that the next one is read from its
\* start: only a malloc that failed in the middle of a line does not.
TokenizerRests == (pc = "prompt" /\ ~seen.failed) => strtok_state.sp = NoPtr

\* The line as it was typed.
Typed == StringAt(line, 0)

\* Whether a quote is open behind the first k characters of a line, given whether
\* one was open before it.
Open(str, carried, quote, k) ==
  carried /= (Cardinality({j \in 1 .. k : str[j] = quote}) % 2 = 1)

\* The blanks of a line, and those at which strtok ends an argument: a quote is
\* open there; a and b tell whether a single and a double one were open before it.
Blanks(str) == {k \in 1 .. Len(str) : str[k] = Blank}

Cut(str, a, b, k) ==
  str[k] = Blank /\ (Open(str, a, SingleQuote, k) \/ Open(str, b, DoubleQuote, k))

Cuts(str, a, b) == {k \in 1 .. Len(str) : Cut(str, a, b, k)}

\* A line split at a set of places: arguments start at the first character that is
\* no blank, in the line and behind each of the places, and go on to the next
\* place or to the end of the line.
Starts(str, cuts) ==
  {k \in 1 .. Len(str) :
     /\ str[k] /= Blank
     /\ \E c \in cuts \cup {0} : c < k /\ \A j \in (c + 1) .. (k - 1) : str[j] = Blank}

StartsTo(str, cuts, m) == {k \in Starts(str, cuts) : k <= m}

IsArgument(str, cuts, k, argument) ==
  /\ argument = SubSeq(str, k, k + Len(argument) - 1)
  /\ \A j \in k .. (k + Len(argument) - 1) : j \notin cuts
  /\ k + Len(argument) \in cuts \cup {Len(str) + 1}

\* The list holds the arguments that start up to m, in the order of the line.
SplitTo(str, cuts, m, list) ==
  /\ Len(list) = Cardinality(StartsTo(str, cuts, m))
  /\ \A k \in StartsTo(str, cuts, m) :
       IsArgument(str, cuts, k, list[Cardinality(StartsTo(str, cuts, k))])

\* A quote is open at every blank behind the first word.
BlanksAreQuoted(str, a, b) ==
  \A k \in Blanks(str) : Cut(str, a, b, k) \/ \A j \in 1 .. k : str[j] = Blank

\* The arguments are the line split at blanks, nothing but blanks is lost, and
\* their order is kept.  Which blanks, strtok decides by the quotes, also those of
\* earlier lines; where a quote is open at each of them, it is all of them, as the
\* comment "split the command by space" has it.  (A line that is read from its
\* start, with memory for all arguments.)
ArgumentsOfLine ==
  (pc = "system" /\ ~seen.failed /\ seen.sp = NoPtr) =>
    \E cuts \in SUBSET Blanks(Typed) :
      /\ SplitTo(Typed, cuts, Len(Typed), arguments)
      /\ BlanksAreQuoted(Typed, seen.single, seen.double) => cuts = Blanks(Typed)

\* The parts of a path are its names between slashes: none of them holds a slash,
\* and joined again they give the path, without its last slash if it ends in one.
WithoutEndSlash(name) ==
  IF name /= << >> /\ name[Len(name)] = Slash THEN SubSeq(name, 1, Len(name) - 1) ELSE name

PartsJoinToPath ==
  pc = "system" =>
    LET name == Head(arguments)
        parts == pathparser_parse(PathOf(name)).parts
    IN  /\ \A k \in DOMAIN parts : \A j \in DOMAIN parts[k] : parts[k][j] /= Slash
        /\ Joined(parts) = WithoutEndSlash(name)
-----------------------------------------------------------------------------
(* The inductive invariant. *)

\* The types; both buffers end with a terminator that nothing overwrites.
Tokenizers ==
  {s \in [mem : [0 .. LineSize -> Nat], sp : {NoPtr} \cup 0 .. LineSize,
          single : BOOLEAN, double : BOOLEAN] : s.mem[LineSize] = NUL}

ShellTypeOK ==
  /\ term \in Terminals
  /\ pc \in {"prompt", "readline", "parse", "tokens", "system"}
  /\ line \in [0 .. (LineSize - 1) -> Nat] /\ line[LineSize - 1] = NUL
  /\ length \in 0 .. (LineSize - 1)
  /\ pc = "readline" => length + 1 < LineSize
  /\ strtok_state \in Tokenizers
  /\ arguments \in Seq(Seq(Nat))
  /\ seen \in [cursor : Nat, sp : {NoPtr} \cup 0 .. LineSize, single : BOOLEAN,
               double : BOOLEAN, erased : BOOLEAN, failed : BOOLEAN]

\* strtok is not used while a line is read.
TokenizerKept ==
  pc \in {"readline", "parse"} =>
    /\ strtok_state.sp = seen.sp
    /\ strtok_state.single = seen.single /\ strtok_state.double = seen.double
    /\ arguments = << >>

\* It has a place to go on while there may be tokens, and none when there are no
\* more; then there is at least one argument.
TokenizerRuns ==
  /\ (pc \in {"prompt", "system"} /\ ~seen.failed) => strtok_state.sp = NoPtr
  /\ pc \in {"tokens", "system"} => arguments /= << >>

\* A tokenizer that has read the first m characters of a line: the rest of the
\* line is in its buffer, the quotes are those of the characters read, and the
\* last of them, if there was one, is a cut or the end of the line.
ReadTo(str, a, b, m, s) ==
  /\ m \in 0 .. Len(str)
  /\ m = 0 \/ m = Len(str) \/ Cut(str, a, b, m)
  /\ \A k \in m .. (Len(str) - 1) : s.mem[k] = str[k + 1]
  /\ s.mem[Len(str)] = NUL
  /\ s.single = Open(str, a, SingleQuote, m) /\ s.double = Open(str, b, DoubleQuote, m)

\* Between two tokens of a line the arguments are those of its part that was read.
TokensOfLine ==
  (pc = "tokens" /\ ~seen.failed /\ seen.sp = NoPtr) =>
    /\ ReadTo(Typed, seen.single, seen.double, strtok_state.sp, strtok_state)
    /\ SplitTo(Typed, Cuts(Typed, seen.single, seen.double), strtok_state.sp, arguments)

\* What strtok does with the line when its tokens are at an end.
SplitAtCuts ==
  (pc = "system" /\ ~seen.failed /\ seen.sp = NoPtr) =>
    SplitTo(Typed, Cuts(Typed, seen.single, seen.double), Len(Typed), arguments)

ShellInv ==
  /\ ShellTypeOK
  /\ LineOnScreen
  /\ TokenizerKept
  /\ TokenizerRuns
  /\ TokensOfLine
  /\ SplitAtCuts
=============================================================================
