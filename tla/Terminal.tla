------------------------------- MODULE Terminal -------------------------------
(***************************************************************************)
(* What the screen promises: the characters of a write, each once and in   *)
(* order, in consecutive cells from the cursor on; after the last cell     *)
(* comes the first, and a newline goes to the start of the next row.  The  *)
(* clock changes cells and nothing else.                                   *)
(* Console is checked to implement this.                                   *)
(***************************************************************************)
EXTENDS Integers, Sequences

CONSTANTS Columns, Rows, Char, Newline, Colour

VARIABLES
  pos,      \* the cell of the cursor
  cells,    \* what is in each cell: a character and its colour
  colour,
  pending   \* what is left to print of a write

tVars == <<pos, cells, colour, pending>>

Cell == 0..Columns * Rows - 1

TInit ==
  /\ pos \in Cell
  /\ colour \in Colour
  /\ pending = << >>

PrintOne ==
  /\ pending # << >>
  /\ pending' = Tail(pending)
  /\ UNCHANGED colour
  /\ \/ /\ Head(pending) = Newline
        /\ pos' = (Columns * (pos \div Columns + 1)) % (Columns * Rows)
        /\ UNCHANGED cells
     \/ /\ Head(pending) # Newline
        /\ cells' = [cells EXCEPT ![pos] = <<Head(pending), colour>>]
        /\ pos' = (pos + 1) % (Columns * Rows)

Write ==
  /\ pending = << >>
  /\ UNCHANGED <<pos, cells, colour>>

Goto ==
  /\ pending = << >>
  /\ pos' \in Cell
  /\ UNCHANGED <<cells, colour, pending>>

Paint ==
  /\ pending = << >>
  /\ colour' \in Colour
  /\ UNCHANGED <<pos, cells, pending>>

Clock(cell, c) ==
  /\ pending = << >>
  /\ cells' = [cells EXCEPT ![cell] = <<c, colour>>]
  /\ UNCHANGED <<pos, colour, pending>>

TNext == PrintOne \/ Write \/ Goto \/ Paint \/ \E cell \in Cell, c \in Char : Clock(cell, c)

TSpec == TInit /\ [][TNext]_tVars
===============================================================================
