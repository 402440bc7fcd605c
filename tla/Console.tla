------------------------------- MODULE Console --------------------------------
(***************************************************************************)
(* The text screen: the cursor of io.c, sys_write with its copies in parts *)
(* through buffer_sys, gotoxy, set_color, and the clock that the clock     *)
(* interrupt shows.  Also sys_read as far as its checks and its copy go.   *)
(*                                                                         *)
(* sys_write is cut at every part and every character.  Nothing comes in   *)
(* between, for interrupts are off: everything else happens in user mode.  *)
(***************************************************************************)
EXTENDS UserPointers, Sequences

CONSTANTS
  NUM_COLUMNS, NUM_ROWS,  \* 80, 25
  FirstRow,               \* the cursor's row at boot: 19
  BUFF_SIZE,              \* 256
  Char, Newline,          \* characters, one of which is a newline
  Foreground, Background  \* numbers of colours that programs try

ASSUME ConsoleAssumption ==
  /\ NUM_COLUMNS \in Nat \ {0} /\ NUM_ROWS \in Nat \ {0}
  /\ FirstRow \in 0..NUM_ROWS - 1
  /\ BUFF_SIZE \in Nat \ {0}
  /\ Newline \in Char
  /\ Foreground \subseteq Int /\ Background \subseteq Int

VARIABLES
  x, y, current_color,  \* the cursor and the colour
  screen,               \* the cells, row by row: <<character, colour>>
  pc,                   \* where the kernel is; "user": in no call
  block,                \* the block that a call was just given
  text,                 \* what is in the block of a write
  bufferAux,            \* how far the write has got in it
  porEscribir,          \* how much is left
  buffer_sys,           \* the part that is being printed
  i                     \* how far sys_write_console has got in it

cursorVars == <<x, y, current_color, screen>>
writeVars == <<text, bufferAux, porEscribir, buffer_sys, i>>
consoleVars == <<cursorVars, pc, block, writeVars>>

Cells == 0..NUM_COLUMNS * NUM_ROWS - 1
Blank == <<Newline, 0>>
NoBlock == [addr |-> 0, n |-> 0]

ConsoleInit ==
  /\ x = 0 /\ y = FirstRow
  /\ current_color = 2
  /\ screen = [c \in Cells |-> Blank]
  /\ pc = "user"
  /\ block = NoBlock
  /\ text = << >> /\ bufferAux = 0 /\ porEscribir = 0 /\ buffer_sys = << >> /\ i = 0

-----------------------------------------------------------------------------
(* The cursor.                                                             *)

Put(col, row, c) == screen' = [screen EXCEPT ![row * NUM_COLUMNS + col] = <<c, current_color>>]

\* A mutant: the last column is left one late.
PrintcLate(c) ==
  \/ /\ c = Newline
     /\ x' = 0 /\ y' = (y + 1) % NUM_ROWS
     /\ UNCHANGED screen
  \/ /\ c # Newline
     /\ Put(x, y, c)
     /\ \/ x + 1 <= NUM_COLUMNS /\ x' = x + 1 /\ y' = y
        \/ x + 1 > NUM_COLUMNS /\ x' = 0 /\ y' = (y + 1) % NUM_ROWS

printc(c) ==
  \/ /\ c = Newline
     /\ x' = 0 /\ y' = (y + 1) % NUM_ROWS
     /\ UNCHANGED screen
  \/ /\ c # Newline
     /\ Put(x, y, c)
     /\ \/ x + 1 < NUM_COLUMNS /\ x' = x + 1 /\ y' = y
        \/ x + 1 >= NUM_COLUMNS /\ x' = 0 /\ y' = (y + 1) % NUM_ROWS

\* printc_xy puts the cursor back.
printc_xy(mx, my, c) ==
  /\ c # Newline
  /\ Put(mx, my, c)
  /\ UNCHANGED <<x, y>>

sys_gotoxy(col, row) ==
  /\ pc = "user"
  /\ col \in 0..NUM_COLUMNS - 1 /\ row \in 0..NUM_ROWS - 1
  /\ x' = col /\ y' = row
  /\ UNCHANGED <<current_color, screen, pc, block, writeVars>>

sys_set_color(fg, bg) ==
  /\ pc = "user"
  /\ fg \in 0..15 /\ bg \in 0..15
  /\ current_color' = bg * 16 + fg
  /\ UNCHANGED <<x, y, screen, pc, block, writeVars>>

\* zeos_show_clock, at the right of the first row.
ShowClock(c) ==
  /\ pc = "user"
  /\ printc_xy(NUM_COLUMNS - 1, 0, c)
  /\ UNCHANGED <<current_color, pc, block, writeVars>>

-----------------------------------------------------------------------------
(* write and read.                                                         *)

\* sys_write gets past its checks.
WriteBegins(fd, buffer, size) ==
  /\ pc = "user"
  /\ WriteAccepts(fd, buffer, size)
  /\ block' = [addr |-> buffer, n |-> size]
  /\ porEscribir' = size
  /\ pc' = "accepted"
  /\ UNCHANGED <<cursorVars, text, bufferAux, buffer_sys, i>>

\* Whatever the program has there.  (In the page after its code this is a page it
\* has attached; with none there the kernel faults, and this step is not taken.)
WriteFinds(t) ==
  /\ pc = "accepted"
  /\ Len(t) = porEscribir
  /\ text' = t
  /\ block' = NoBlock
  /\ pc' = "write"
  /\ UNCHANGED <<cursorVars, bufferAux, porEscribir, buffer_sys, i>>

\* copy_from_user(bufferAux, buffer_sys, n)
Copy(n) ==
  /\ buffer_sys' = SubSeq(text, bufferAux + 1, bufferAux + n)
  /\ i' = 0
  /\ UNCHANGED <<cursorVars, block, text, bufferAux, porEscribir>>

\* The loop of sys_write.
CopyPart ==
  /\ pc = "write" /\ porEscribir > BUFF_SIZE
  /\ Copy(BUFF_SIZE)
  /\ pc' = "part"

\* A mutant: the loop stops one too early.
CopyRestTooLong ==
  /\ pc = "write" /\ porEscribir <= BUFF_SIZE + 1
  /\ Copy(porEscribir)
  /\ pc' = "rest"

\* What is left after the loop.
CopyRest ==
  /\ pc = "write" /\ porEscribir <= BUFF_SIZE
  /\ Copy(porEscribir)
  /\ pc' = "rest"

\* sys_write_console: one character.
PrintChar ==
  /\ pc \in {"part", "rest"} /\ i < Len(buffer_sys)
  /\ printc(buffer_sys[i + 1])
  /\ i' = i + 1
  /\ UNCHANGED <<current_color, pc, block, text, bufferAux, porEscribir, buffer_sys>>

\* A mutant: the same part again.
PartPrintedStays ==
  /\ pc = "part" /\ i = Len(buffer_sys)
  /\ porEscribir' = porEscribir - i
  /\ pc' = "write"
  /\ UNCHANGED <<cursorVars, block, text, bufferAux, buffer_sys, i>>

PartPrinted ==
  /\ pc = "part" /\ i = Len(buffer_sys)
  /\ bufferAux' = bufferAux + i
  /\ porEscribir' = porEscribir - i
  /\ pc' = "write"
  /\ UNCHANGED <<cursorVars, block, text, buffer_sys, i>>

\* sys_write returns.  (What stays in buffer_sys is never read.)
WriteReturns ==
  /\ pc = "rest" /\ i = Len(buffer_sys)
  /\ pc' = "user"
  /\ text' = << >> /\ bufferAux' = 0 /\ porEscribir' = 0 /\ buffer_sys' = << >> /\ i' = 0
  /\ UNCHANGED <<cursorVars, block>>

\* sys_read gets past its checks, and copies what it got to the program.
ReadCopies(b, maxchars, got) ==
  /\ pc = "user"
  /\ ReadAccepts(b, maxchars)
  /\ got \in 1..maxchars /\ got <= BUFF_SIZE
  /\ block' = [addr |-> b, n |-> got]
  /\ pc' = "read"
  /\ UNCHANGED <<cursorVars, writeVars>>

ReadReturns ==
  /\ pc = "read"
  /\ block' = NoBlock
  /\ pc' = "user"
  /\ UNCHANGED <<cursorVars, writeVars>>

ConsoleNext ==
  \/ \E col \in -1..NUM_COLUMNS, row \in -1..NUM_ROWS : sys_gotoxy(col, row)
  \/ \E fg \in Foreground, bg \in Background : sys_set_color(fg, bg)
  \/ \E c \in Char : ShowClock(c)
  \/ \E addr \in Address :
       \/ \E fd \in 0..1, size \in AnInt : WriteBegins(fd, addr, size)
       \/ \E maxchars \in AnInt : \E got \in 1..maxchars : ReadCopies(addr, maxchars, got)
  \/ \E t \in [1..porEscribir -> Char] : WriteFinds(t)
  \/ CopyPart \/ CopyRest \/ PrintChar \/ PartPrinted \/ WriteReturns \/ ReadReturns

ConsoleSpec == ConsoleInit /\ [][ConsoleNext]_consoleVars

-----------------------------------------------------------------------------
(* Properties.                                                             *)

\* The cursor is always on the screen: printc writes at y * 80 + x without a
\* look, so nothing but this keeps it inside the 4000 bytes of video memory.
ConsoleTypeOK ==
  /\ x \in 0..NUM_COLUMNS - 1 /\ y \in 0..NUM_ROWS - 1
  /\ current_color \in 0..255
  /\ screen \in [Cells -> Char \X (0..255)]
  /\ pc \in {"user", "accepted", "write", "part", "rest", "read"}
  /\ block \in [addr : Address, n : Nat]
  /\ text \in Seq(Char) /\ buffer_sys \in Seq(Char)
  /\ bufferAux \in Nat /\ porEscribir \in Nat /\ i \in Nat

\* Whatever address and size a program passes, sums that overflow and negative
\* sizes included, the kernel neither copies its own memory to the screen nor
\* reads keys into it: no byte of a block it has accepted is in a page of its own.
BlocksAvoidKernel == pc \in {"accepted", "read"} => AvoidsKernel(block.addr, block.n)

\* No part is longer than buffer_sys, and the parts so far and what is left make
\* up the block: nothing is read beyond its end.
PartsFit ==
  /\ Len(buffer_sys) <= BUFF_SIZE
  /\ pc \in {"write", "part", "rest"} =>
       /\ bufferAux + porEscribir = Len(text)
       /\ bufferAux + (IF pc = "write" THEN 0 ELSE Len(buffer_sys)) <= Len(text)

\* What the program wrote and is not on the screen yet.
NotPrinted ==
  CASE pc = "write"            -> SubSeq(text, bufferAux + 1, Len(text))
    [] pc \in {"part", "rest"} -> SubSeq(text, bufferAux + i + 1, Len(text))
    [] OTHER                   -> << >>

Screen == INSTANCE Terminal
  WITH Columns <- NUM_COLUMNS, Rows <- NUM_ROWS, Colour <- 0..255,
       pos <- y * NUM_COLUMNS + x, cells <- screen, colour <- current_color,
       pending <- NotPrinted

\* A write in parts prints what a write at once would, in the cells that follow
\* the cursor, whatever its length and wherever the cursor was.
ImplementsTerminal == Screen!TSpec
===============================================================================
