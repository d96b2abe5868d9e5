------------------------------ MODULE Terminal ------------------------------
(***************************************************************************)
(* The terminal (src/kernel/kernel.c): a cursor and the cells of the video  *)
(* memory.  Nothing scrolls: the cursor leaves the screen at its bottom,    *)
(* and what is printed there goes to the memory behind it.                  *)
(*                                                                         *)
(* Characters are their codes; a terminal is a value, so that a line can be *)
(* printed in one step.                                                     *)
(***************************************************************************)
EXTENDS Integers, Sequences

CONSTANTS
  Width,    \* VGA_WIDTH
  Rows      \* bound: the rows that are modelled, those below the screen included

ASSUME TerminalAssumption == Width \in Nat \ {0} /\ Rows \in Nat \ {0}

NUL == 0
Backspace == 8
LineFeed == 10
Blank == 32

\* The cell terminal_putchar writes to.
Cell(row, col) == row * Width + col
Cursor(t) == Cell(t.row, t.col)

\* What a terminal can be.  Characters are printed below the rows that are
\* modelled too; only the cursor tells.
Terminals == [row : Nat, col : 0 .. (Width - 1), cells : [0 .. (Rows * Width - 1) -> Nat]]

terminal_initialize ==
  [row |-> 0, col |-> 0, cells |-> [k \in 0 .. (Rows * Width - 1) |-> Blank]]

terminal_putchar(t, row, col, c) == [t EXCEPT !.cells[Cell(row, col)] = c]

\* Mutant: at the left margin the cursor stays in its row.
terminal_backspace_same_row(t) ==
  LET col == IF t.col = 0 THEN 0 ELSE t.col - 1
  IN  terminal_putchar([t EXCEPT !.col = col], t.row, col, Blank)

terminal_backspace(t) ==
  LET row == IF t.col = 0 THEN t.row - 1 ELSE t.row
      col == IF t.col = 0 THEN Width - 1 ELSE t.col - 1
  IN  IF t.row = 0 /\ t.col = 0
        THEN t
        ELSE terminal_putchar([t EXCEPT !.row = row, !.col = col], row, col, Blank)

terminal_writechar(t, c) ==
  IF c = LineFeed THEN [t EXCEPT !.row = t.row + 1, !.col = 0]
  ELSE IF c = Backspace THEN terminal_backspace(t)
  ELSE LET written == terminal_putchar(t, t.row, t.col, c)
       IN  IF t.col + 1 >= Width
             THEN [written EXCEPT !.row = t.row + 1, !.col = 0]
             ELSE [written EXCEPT !.col = t.col + 1]

\* print, of the kernel and through system call 1.
print(t, str) ==
  LET at[k \in 0 .. Len(str)] == IF k = 0 THEN t ELSE terminal_writechar(at[k - 1], str[k])
  IN  at[Len(str)]
=============================================================================
