---------------------------- MODULE ConsoleProofs -----------------------------
(***************************************************************************)
(* For any size of screen, buffer, pages and memory: no block that the     *)
(* kernel takes or fills has a byte of its own pages, the parts of a write *)
(* make up the block, the cursor stays on the screen, and the screen is    *)
(* what Terminal says.                                                     *)
(***************************************************************************)
EXTENDS Console, SequenceTheorems, TLAPS

-----------------------------------------------------------------------------
(* Arithmetic.                                                             *)

LEMMA DivMonotonic ==
  ASSUME NEW a \in Int, NEW b \in Int, NEW d \in Nat \ {0}, a <= b
  PROVE  a \div d <= b \div d
BY Z3

LEMMA DivAtLeast ==
  ASSUME NEW a \in Int, NEW q \in Int, NEW d \in Nat \ {0}
  PROVE  a \div d >= q <=> a >= q * d
BY Z3

LEMMA ModBelow ==
  ASSUME NEW d \in Nat \ {0}, NEW a \in 0..d - 1
  PROVE  a % d = a
BY Z3

LEMMA ModOnceAround ==
  ASSUME NEW d \in Nat \ {0}, NEW a \in 0..d - 1, NEW b \in 0..d - 1, a + b >= d
  PROVE  (a + b) % d = a + b - d
BY Z3

LEMMA ModRange ==
  ASSUME NEW d \in Nat \ {0}, NEW a \in Int
  PROVE  a % d \in 0..d - 1
BY Z3

-----------------------------------------------------------------------------
(* Blocks.                                                                 *)

\* A page is less than a quarter of the addresses: a sum that overflows by an
\* int that is not negative is more than a page below its start.
LEMMA FourPages == Words \in Nat \ {0} /\ Words >= 4 * PAGE_SIZE
<1> DEFINE n == PAG_LOG_INIT_DATA + NUM_PAG_DATA + NUM_PAG_CODE + 1
<1>1. n \in Nat /\ n >= 4 /\ n * PAGE_SIZE <= Words /\ PAGE_SIZE \in Nat \ {0} /\ Words \in Nat
  BY PointerAssumption
<1> HIDE DEF n
<1>2. n * PAGE_SIZE >= 4 * PAGE_SIZE
  BY <1>1, Z3
<1> QED
  BY <1>1, <1>2

\* What access_ok accepts, if the size is not negative, ends before the last
\* address and has no byte in a page of the kernel.
THEOREM AcceptedBlock ==
  ASSUME NEW type, NEW addr \in Address, NEW size \in AnInt, size >= 0,
         access_ok(type, addr, size)
  PROVE  AvoidsKernel(addr, size)
<1> DEFINE fin == (addr + size) % Words
<1>1. /\ Words \in Nat \ {0} /\ Words >= 4 * PAGE_SIZE /\ PAGE_SIZE \in Nat \ {0}
      /\ addr \in 0..Words - 1 /\ size \in Nat /\ 2 * size < Words
  BY FourPages, PointerAssumption DEF Address, AnInt
<1>2. size % Words = size
  BY <1>1, ModBelow
<1>3. /\ fin \div PAGE_SIZE >= addr \div PAGE_SIZE
      /\ addr \div PAGE_SIZE >= PAG_LOG_INIT_DATA
      /\ fin \div PAGE_SIZE <= EndPage
  <2>1. fin \in Int /\ fin \div PAGE_SIZE \in Int
    BY <1>1
  <2>2. PAG_LOG_INIT_DATA + NUM_PAG_DATA <= EndPage /\ PAG_LOG_INIT_DATA + NUM_PAG_DATA \in Int
        /\ EndPage \in Int
    BY PointerAssumption DEF EndPage
  <2>3. fin = (addr + (size % Words)) % Words
    BY <1>2
  <2> HIDE DEF fin
  <2> QED
    BY <2>1, <2>2, <2>3 DEF access_ok, PageOf
<1>4. addr + size < Words
  <2> SUFFICES ASSUME addr + size >= Words PROVE FALSE
    BY <1>1
  <2>0. size \in 0..Words - 1
    BY <1>1
  <2>1. fin = addr + size - Words
    BY <2>0, <1>1, ModOnceAround
  <2>2. fin \in Int /\ fin + PAGE_SIZE <= addr
    BY <2>1, <1>1
  <2>3. (fin + PAGE_SIZE) \div PAGE_SIZE <= addr \div PAGE_SIZE
    BY <2>2, <1>1, DivMonotonic
  <2>4. (fin + PAGE_SIZE) \div PAGE_SIZE = fin \div PAGE_SIZE + 1
    BY <2>2, <1>1, Z3
  <2>5. fin \div PAGE_SIZE \in Int /\ addr \div PAGE_SIZE \in Int
    BY <2>2, <1>1
  <2> QED
    BY <2>3, <2>4, <2>5, <1>3
<1>5. fin = addr + size
  BY <1>1, <1>4, ModBelow
<1>6. SUFFICES ASSUME NEW k \in 0..size - 1
      PROVE  addr + k < Words /\ PageOf(addr + k) >= PAG_LOG_INIT_DATA
  BY DEF AvoidsKernel
<1>7. /\ addr \div PAGE_SIZE <= (addr + k) \div PAGE_SIZE
      /\ (addr + k) \div PAGE_SIZE <= (addr + size) \div PAGE_SIZE
      /\ (addr + k) \div PAGE_SIZE \in Int
  BY <1>1, DivMonotonic
<1> QED
  BY <1>1, <1>3, <1>4, <1>5, <1>7, PointerAssumption DEF PageOf, EndPage

-----------------------------------------------------------------------------
(* The invariant.                                                          *)

\* The part that is being printed is the one after bufferAux.
PartsInv ==
  /\ i <= Len(buffer_sys) /\ Len(buffer_sys) <= BUFF_SIZE
  /\ pc \in {"user", "accepted", "read"} => bufferAux = 0
  /\ pc \in {"write", "part", "rest"} => bufferAux + porEscribir = Len(text)
  /\ pc = "part" => Len(buffer_sys) <= porEscribir
  /\ pc = "rest" => Len(buffer_sys) = porEscribir
  /\ pc \in {"part", "rest"} =>
       buffer_sys = SubSeq(text, bufferAux + 1, bufferAux + Len(buffer_sys))

ConsoleInv == ConsoleTypeOK /\ BlocksAvoidKernel /\ PartsInv

LEMMA PartsInvFits == ConsoleTypeOK /\ PartsInv => PartsFit
BY DEF ConsoleTypeOK, PartsInv, PartsFit

LEMMA ConsoleInvInit == ConsoleInit => ConsoleInv
<1> SUFFICES ASSUME ConsoleInit PROVE ConsoleInv
  OBVIOUS
<1>1. ConsoleTypeOK
  BY ConsoleAssumption, PointerAssumption
     DEF ConsoleInit, ConsoleTypeOK, Blank, NoBlock, Address
<1> QED
  BY <1>1, ConsoleAssumption DEF ConsoleInit, ConsoleInv, PartsInv, BlocksAvoidKernel

\* printc keeps the cursor on the screen.
LEMMA PrintcStays ==
  ASSUME ConsoleTypeOK, NEW c \in Char, printc(c)
  PROVE  /\ x' \in 0..NUM_COLUMNS - 1 /\ y' \in 0..NUM_ROWS - 1
         /\ screen' \in [Cells -> Char \X (0..255)]
<1>1. (y + 1) % NUM_ROWS \in 0..NUM_ROWS - 1
  BY ConsoleAssumption, ModRange DEF ConsoleTypeOK
<1>2. NUM_COLUMNS \in Nat \ {0} /\ x \in 0..NUM_COLUMNS - 1 /\ y \in 0..NUM_ROWS - 1
  BY ConsoleAssumption DEF ConsoleTypeOK
<1>3. screen' \in [Cells -> Char \X (0..255)]
  <2>1. /\ screen \in [Cells -> Char \X (0..255)]
        /\ <<c, current_color>> \in Char \X (0..255)
    BY DEF ConsoleTypeOK
  <2>2. screen' = screen \/ Put(x, y, c)
    BY DEF printc
  <2>3. CASE Put(x, y, c)
    <3> DEFINE k == y * NUM_COLUMNS + x
    <3>1. screen' = [screen EXCEPT ![k] = <<c, current_color>>]
      BY <2>3 DEF Put
    <3> HIDE DEF k
    <3> QED
      BY <2>1, <3>1
  <2> QED
    BY <2>1, <2>2, <2>3
<1>4. x' \in 0..NUM_COLUMNS - 1
  BY <1>2 DEF printc
<1>5. y' \in 0..NUM_ROWS - 1
  BY <1>1, <1>2 DEF printc
<1> QED
  BY <1>3, <1>4, <1>5

LEMMA ConsoleInvNext == ConsoleInv /\ [ConsoleNext]_consoleVars => ConsoleInv'
<1> SUFFICES ASSUME ConsoleInv, [ConsoleNext]_consoleVars PROVE ConsoleInv'
  OBVIOUS
<1> USE DEF ConsoleInv
<1>1. ASSUME NEW col \in -1..NUM_COLUMNS, NEW row \in -1..NUM_ROWS, sys_gotoxy(col, row)
      PROVE  ConsoleInv'
  BY <1>1 DEF sys_gotoxy, writeVars, ConsoleTypeOK, BlocksAvoidKernel, PartsInv
<1>2. ASSUME NEW fg \in Foreground, NEW bg \in Background, sys_set_color(fg, bg)
      PROVE  ConsoleInv'
  BY <1>2 DEF sys_set_color, writeVars, ConsoleTypeOK, BlocksAvoidKernel, PartsInv
<1>3. ASSUME NEW c \in Char, ShowClock(c)
      PROVE  ConsoleInv'
  BY <1>3 DEF ShowClock, printc_xy, Put, writeVars, ConsoleTypeOK, BlocksAvoidKernel, PartsInv
<1>4. ASSUME NEW addr \in Address, NEW fd \in 0..1, NEW size \in AnInt, WriteBegins(fd, addr, size)
      PROVE  ConsoleInv'
  <2>1. AvoidsKernel(addr, size) /\ size \in Nat
    BY <1>4, AcceptedBlock DEF WriteBegins, WriteAccepts, AnInt
  <2>2. ConsoleTypeOK'
    BY <1>4, <2>1 DEF WriteBegins, cursorVars, ConsoleTypeOK
  <2>3. BlocksAvoidKernel'
    BY <1>4, <2>1 DEF WriteBegins, BlocksAvoidKernel, AvoidsKernel
  <2>4. PartsInv'
    BY <1>4 DEF WriteBegins, PartsInv
  <2> QED
    BY <2>2, <2>3, <2>4
<1>5. ASSUME NEW addr \in Address, NEW maxchars \in AnInt, NEW got \in 1..maxchars,
             ReadCopies(addr, maxchars, got)
      PROVE  ConsoleInv'
  <2>1. AvoidsKernel(addr, maxchars)
    BY <1>5, AcceptedBlock DEF ReadCopies, ReadAccepts, AnInt
  <2>2. AvoidsKernel(addr, got) /\ got \in Nat
    BY <2>1 DEF AvoidsKernel, AnInt
  <2>3. ConsoleTypeOK'
    BY <1>5, <2>2 DEF ReadCopies, cursorVars, writeVars, ConsoleTypeOK
  <2>4. BlocksAvoidKernel'
    BY <1>5, <2>2 DEF ReadCopies, BlocksAvoidKernel, AvoidsKernel
  <2>5. PartsInv'
    BY <1>5 DEF ReadCopies, writeVars, PartsInv
  <2> QED
    BY <2>3, <2>4, <2>5
<1>6. ASSUME NEW t \in [1..porEscribir -> Char], WriteFinds(t)
      PROVE  ConsoleInv'
  <2>1. t \in Seq(Char)
    BY IsASeq DEF ConsoleTypeOK
  <2>2. ConsoleTypeOK'
    BY <1>6, <2>1, PointerAssumption, FourPages
       DEF WriteFinds, cursorVars, ConsoleTypeOK, NoBlock, Address
  <2> QED
    BY <1>6, <2>2 DEF WriteFinds, BlocksAvoidKernel, PartsInv, ConsoleTypeOK
<1>7. CASE CopyPart \/ CopyRest
  <2> DEFINE n == IF porEscribir > BUFF_SIZE THEN BUFF_SIZE ELSE porEscribir
  <2>1. /\ pc = "write" /\ n \in Nat /\ n <= porEscribir /\ n <= BUFF_SIZE
        /\ Copy(n)
        /\ \/ pc' = "part"
           \/ pc' = "rest" /\ n = porEscribir
    BY <1>7, ConsoleAssumption DEF CopyPart, CopyRest, ConsoleTypeOK
  <2>2. bufferAux + n <= Len(text) /\ Len(text) \in Nat
    BY <2>1 DEF PartsInv, ConsoleTypeOK
  <2> HIDE DEF n
  <2>3. /\ SubSeq(text, bufferAux + 1, bufferAux + n) \in Seq(Char)
        /\ Len(SubSeq(text, bufferAux + 1, bufferAux + n)) = n
    <3>1. \A k \in bufferAux + 1..bufferAux + n : text[k] \in Char
      BY <2>1, <2>2 DEF ConsoleTypeOK
    <3>2. /\ SubSeq(text, bufferAux + 1, bufferAux + n) \in Seq(Char)
          /\ Len(SubSeq(text, bufferAux + 1, bufferAux + n))
               = IF bufferAux + 1 <= bufferAux + n THEN bufferAux + n - (bufferAux + 1) + 1 ELSE 0
      BY <3>1, <2>1, SubSeqProperties DEF ConsoleTypeOK
    <3> QED
      BY <3>2, <2>1 DEF ConsoleTypeOK
  <2>4. ConsoleTypeOK'
    BY <2>1, <2>3 DEF Copy, cursorVars, ConsoleTypeOK
  <2>5. PartsInv'
    BY <2>1, <2>2, <2>3 DEF Copy, PartsInv, ConsoleTypeOK
  <2> QED
    BY <2>1, <2>4, <2>5 DEF BlocksAvoidKernel
<1>8. CASE PrintChar
  <2>1. buffer_sys[i + 1] \in Char
    BY <1>8 DEF PrintChar, ConsoleTypeOK
  <2>2. ConsoleTypeOK'
    BY <1>8, <2>1, PrintcStays DEF PrintChar, ConsoleTypeOK
  <2>3. PartsInv'
    BY <1>8 DEF PrintChar, PartsInv, ConsoleTypeOK
  <2> QED
    BY <1>8, <2>2, <2>3 DEF PrintChar, BlocksAvoidKernel
<1>9. CASE PartPrinted
  <2>1. ConsoleTypeOK'
    BY <1>9 DEF PartPrinted, cursorVars, ConsoleTypeOK, PartsInv
  <2>2. PartsInv'
    BY <1>9 DEF PartPrinted, PartsInv, ConsoleTypeOK
  <2> QED
    BY <1>9, <2>1, <2>2 DEF PartPrinted, BlocksAvoidKernel
<1>10. CASE WriteReturns
  <2>1. ConsoleTypeOK'
    BY <1>10 DEF WriteReturns, cursorVars, ConsoleTypeOK
  <2> QED
    BY <1>10, <2>1, ConsoleAssumption DEF WriteReturns, BlocksAvoidKernel, PartsInv
<1>11. CASE ReadReturns
  <2>1. ConsoleTypeOK'
    BY <1>11, FourPages DEF ReadReturns, cursorVars, writeVars, ConsoleTypeOK, NoBlock, Address
  <2> QED
    BY <1>11, <2>1 DEF ReadReturns, writeVars, BlocksAvoidKernel, PartsInv
<1>12. CASE UNCHANGED consoleVars
  BY <1>12 DEF consoleVars, cursorVars, writeVars, ConsoleTypeOK, BlocksAvoidKernel, PartsInv
<1> QED
  BY <1>1, <1>2, <1>3, <1>4, <1>5, <1>6, <1>7, <1>8, <1>9, <1>10, <1>11, <1>12 DEF ConsoleNext

LEMMA ConsoleInvAlways == ConsoleSpec => []ConsoleInv
BY ConsoleInvInit, ConsoleInvNext, PTL DEF ConsoleSpec

\* Whatever block a program passes to read or write, the kernel copies no byte
\* from or to a page of its own.
THEOREM ConsoleSafe == ConsoleSpec => []BlocksAvoidKernel
<1>1. ConsoleInv => BlocksAvoidKernel
  BY DEF ConsoleInv
<1> QED
  BY <1>1, ConsoleInvAlways, PTL

\* The cursor stays on the screen: printc never writes outside video memory.
THEOREM ConsoleTypeCorrect == ConsoleSpec => []ConsoleTypeOK
<1>1. ConsoleInv => ConsoleTypeOK
  BY DEF ConsoleInv
<1> QED
  BY <1>1, ConsoleInvAlways, PTL

\* sys_write never copies a part longer than buffer_sys, nor beyond the block's end.
THEOREM ConsolePartsFit == ConsoleSpec => []PartsFit
<1>1. ConsoleInv => PartsFit
  BY PartsInvFits DEF ConsoleInv
<1> QED
  BY <1>1, ConsoleInvAlways, PTL

-----------------------------------------------------------------------------
(* The screen of Terminal.                                                 *)

\* Cells and cursors, by rows.
LEMMA CellOf ==
  ASSUME NEW C \in Nat \ {0}, NEW R \in Nat \ {0}, NEW col \in 0..C - 1, NEW row \in 0..R - 1
  PROVE  /\ row * C + col \in 0..C * R - 1
         /\ (row * C + col) \div C = row
<1>1. row * C >= 0 /\ row * C \in Int /\ C * R \in Int
  BY Z3
<1>2. (row + 1) * C <= R * C
  BY Z3
<1>3. (row + 1) * C = row * C + C /\ R * C = C * R
  BY Z3
<1>4. (row * C + col) \div C = row
  BY Z3
<1> QED
  BY <1>1, <1>2, <1>3, <1>4

\* The next row, around the end.
LEMMA RowAfter ==
  ASSUME NEW C \in Nat \ {0}, NEW R \in Nat \ {0}, NEW row \in 0..R - 1
  PROVE  (C * (row + 1)) % (C * R) = ((row + 1) % R) * C
<1>1. C * R \in Nat \ {0}
  BY Z3
<1>2. CASE row + 1 = R
  <2>1. (row + 1) % R = 0
    BY <1>2, Z3
  <2>2. (C * R) % (C * R) = 0
    BY <1>1, Z3
  <2> QED
    BY <1>2, <2>1, <2>2
<1>3. CASE row + 1 # R
  <2>1. row + 1 \in 0..R - 1
    BY <1>3
  <2>2. (row + 1) % R = row + 1
    BY <2>1, ModBelow
  <2>3. C * (row + 1) \in 0..C * R - 1 /\ C * (row + 1) = (row + 1) * C
    <3>1. (row + 1) * C + 0 \in 0..C * R - 1
      BY <2>1, CellOf
    <3>2. C * (row + 1) = (row + 1) * C /\ (row + 1) * C \in Int
      BY Z3
    <3> QED
      BY <3>1, <3>2
  <2> QED
    BY <1>1, <2>2, <2>3, ModBelow
<1> QED
  BY <1>2, <1>3

\* What printc does to the cursor and the cells is what PrintOne does.
LEMMA PrintcPrints ==
  ASSUME ConsoleTypeOK, NEW c, printc(c)
  PROVE  LET pos == y * NUM_COLUMNS + x
         IN  \/ /\ c = Newline
                /\ (y * NUM_COLUMNS + x)' = (NUM_COLUMNS * (pos \div NUM_COLUMNS + 1))
                                              % (NUM_COLUMNS * NUM_ROWS)
                /\ UNCHANGED screen
             \/ /\ c # Newline
                /\ screen' = [screen EXCEPT ![pos] = <<c, current_color>>]
                /\ (y * NUM_COLUMNS + x)' = (pos + 1) % (NUM_COLUMNS * NUM_ROWS)
<1> DEFINE C == NUM_COLUMNS
           R == NUM_ROWS
           pos == y * C + x
<1>1. C \in Nat \ {0} /\ R \in Nat \ {0} /\ x \in 0..C - 1 /\ y \in 0..R - 1
  BY ConsoleAssumption DEF ConsoleTypeOK
<1>2. pos \in 0..C * R - 1 /\ pos \div C = y
  BY <1>1, CellOf
<1>3. (C * (y + 1)) % (C * R) = ((y + 1) % R) * C /\ ((y + 1) % R) * C \in Int
  <2>1. (y + 1) % R \in 0..R - 1
    BY <1>1, ModRange
  <2>2. ((y + 1) % R) * C \in Int
    BY <1>1, <2>1
  <2> QED
    BY <1>1, <2>2, RowAfter
<1>4. CASE c = Newline
  <2>1. x' = 0 /\ y' = (y + 1) % R /\ UNCHANGED screen
    BY <1>4 DEF printc
  <2>2. (y * C + x)' = ((y + 1) % R) * C
    BY <2>1, <1>3
  <2> QED
    BY <1>2, <1>3, <1>4, <2>1, <2>2
<1>5. CASE c # Newline /\ x + 1 < C
  <2>1. x' = x + 1 /\ y' = y /\ screen' = [screen EXCEPT ![pos] = <<c, current_color>>]
    BY <1>1, <1>5 DEF printc, Put
  <2>2. x + 1 \in 0..C - 1 /\ y * C \in Int
    BY <1>1, <1>5
  <2>3. y * C + (x + 1) \in 0..C * R - 1 /\ C * R \in Int
    BY <1>1, <2>2, CellOf
  <2>4. C * R \in Nat \ {0}
    BY <2>3
  <2>5. (y * C + (x + 1)) % (C * R) = y * C + (x + 1)
    BY <2>3, <2>4, ModBelow
  <2>6. pos + 1 = y * C + (x + 1)
    BY <2>2, <1>1
  <2> QED
    BY <1>5, <2>1, <2>5, <2>6
<1>6. CASE c # Newline /\ x + 1 >= C
  <2>1. x' = 0 /\ y' = (y + 1) % R /\ screen' = [screen EXCEPT ![pos] = <<c, current_color>>]
    BY <1>1, <1>6 DEF printc, Put
  <2>2. (y * C + x)' = ((y + 1) % R) * C
    BY <2>1, <1>3
  <2>3. x = C - 1
    BY <1>1, <1>6
  <2>4. pos + 1 = C * (y + 1)
    BY <2>3, <1>1, Z3
  <2> QED
    BY <1>3, <1>6, <2>1, <2>2, <2>4
<1> QED
  BY <1>1, <1>4, <1>5, <1>6

\* What is left to print while a part is printed.
LEMMA NotPrintedPart ==
  ASSUME ConsoleTypeOK, PartsInv, pc \in {"part", "rest"}
  PROVE  /\ Len(text) \in Nat /\ Len(buffer_sys) \in Nat /\ text \in Seq(Char)
         /\ bufferAux + Len(buffer_sys) <= Len(text)
         /\ \A k \in 1..Len(buffer_sys) : buffer_sys[k] = text[bufferAux + k]
<1>1. /\ Len(text) \in Nat /\ Len(buffer_sys) \in Nat /\ text \in Seq(Char)
      /\ bufferAux \in Nat /\ porEscribir \in Nat
  BY DEF ConsoleTypeOK
<1>2. bufferAux + Len(buffer_sys) <= Len(text)
  BY <1>1 DEF PartsInv
<1> DEFINE n == bufferAux + Len(buffer_sys)
<1>3. \A k \in bufferAux + 1..n : text[k] \in Char
  BY <1>1, <1>2
<1>4. \A k \in 1..n - (bufferAux + 1) + 1 : SubSeq(text, bufferAux + 1, n)[k] = text[bufferAux + 1 + k - 1]
  BY <1>1, <1>3, SubSeqProperties
<1>5. \A k \in 1..Len(buffer_sys) : SubSeq(text, bufferAux + 1, n)[k] = text[bufferAux + k]
  BY <1>1, <1>4
<1> QED
  BY <1>1, <1>2, <1>5 DEF PartsInv

LEMMA TerminalInit == ConsoleInit => Screen!TInit
<1> SUFFICES ASSUME ConsoleInit PROVE Screen!TInit
  OBVIOUS
<1>1. ConsoleTypeOK
  BY ConsoleInvInit DEF ConsoleInv
<1>2. y * NUM_COLUMNS + x \in Screen!Cell
  BY <1>1, CellOf, ConsoleAssumption DEF ConsoleTypeOK, Screen!Cell
<1> QED
  BY <1>1, <1>2 DEF Screen!TInit, ConsoleInit, ConsoleTypeOK, NotPrinted

LEMMA TerminalNext == ConsoleInv /\ ConsoleInv' /\ [ConsoleNext]_consoleVars => [Screen!TNext]_Screen!tVars
<1> SUFFICES ASSUME ConsoleInv, ConsoleInv', [ConsoleNext]_consoleVars
             PROVE  [Screen!TNext]_Screen!tVars
  OBVIOUS
<1> DEFINE pos == y * NUM_COLUMNS + x
<1>a. ConsoleTypeOK /\ PartsInv /\ ConsoleTypeOK' /\ PartsInv'
  BY DEF ConsoleInv
<1>b. pos' \in Screen!Cell
  BY <1>a, CellOf, ConsoleAssumption DEF ConsoleTypeOK, Screen!Cell
<1>1. ASSUME NEW col \in -1..NUM_COLUMNS, NEW row \in -1..NUM_ROWS, sys_gotoxy(col, row)
      PROVE  Screen!Goto
  BY <1>1, <1>b DEF sys_gotoxy, writeVars, Screen!Goto, NotPrinted
<1>2. ASSUME NEW fg \in Foreground, NEW bg \in Background, sys_set_color(fg, bg)
      PROVE  Screen!Paint
  BY <1>2, <1>a DEF sys_set_color, writeVars, Screen!Paint, NotPrinted, ConsoleTypeOK
<1>3. ASSUME NEW c \in Char, ShowClock(c)
      PROVE  \E cell \in Screen!Cell : Screen!Clock(cell, c)
  <2>1. 0 * NUM_COLUMNS + (NUM_COLUMNS - 1) \in Screen!Cell
    BY CellOf, ConsoleAssumption DEF Screen!Cell
  <2> QED
    BY <1>3, <2>1 DEF ShowClock, printc_xy, Put, writeVars, Screen!Clock, NotPrinted
<1>4. ASSUME NEW addr \in Address, NEW fd \in 0..1, NEW size \in AnInt, WriteBegins(fd, addr, size)
      PROVE  UNCHANGED Screen!tVars
  BY <1>4 DEF WriteBegins, cursorVars, Screen!tVars, NotPrinted
<1>5. ASSUME NEW addr \in Address, NEW maxchars \in AnInt, NEW got \in 1..maxchars,
             ReadCopies(addr, maxchars, got)
      PROVE  UNCHANGED Screen!tVars
  BY <1>5 DEF ReadCopies, cursorVars, Screen!tVars, NotPrinted
<1>6. ASSUME NEW t \in [1..porEscribir -> Char], WriteFinds(t)
      PROVE  Screen!Write
  BY <1>6 DEF WriteFinds, cursorVars, Screen!Write, NotPrinted
<1>7. CASE CopyPart \/ CopyRest
  <2>1. /\ pc = "write" /\ pc' \in {"part", "rest"} /\ i' = 0
        /\ UNCHANGED <<cursorVars, text, bufferAux>>
    BY <1>7 DEF CopyPart, CopyRest, Copy
  <2>2. bufferAux + 0 + 1 = bufferAux + 1
    BY <1>a DEF ConsoleTypeOK
  <2> QED
    BY <2>1, <2>2 DEF cursorVars, Screen!tVars, NotPrinted
<1>8. CASE PrintChar
  <2> DEFINE c == buffer_sys[i + 1]
             n == bufferAux + i + 1
  <2>1. /\ pc \in {"part", "rest"} /\ i < Len(buffer_sys) /\ i \in Nat /\ bufferAux \in Nat
        /\ printc(c)
        /\ i' = i + 1
        /\ UNCHANGED <<current_color, pc, text, bufferAux>>
    BY <1>8, <1>a DEF PrintChar, ConsoleTypeOK
  <2>2. n \in 1..Len(text) /\ Len(text) \in n..Len(text) /\ text \in Seq(Char) /\ c = text[n]
    BY <2>1, <1>a, NotPrintedPart
  <2>3. /\ Head(SubSeq(text, n, Len(text))) = c
        /\ Tail(SubSeq(text, n, Len(text))) = SubSeq(text, n + 1, Len(text))
    BY <2>2, HeadTailOfSubSeq
  <2>4. SubSeq(text, n, Len(text)) # << >>
    <3>1. Len(SubSeq(text, n, Len(text))) = Len(text) - n + 1
      BY <2>2, SubSeqProperties
    <3>2. Len(<< >>) = 0
      OBVIOUS
    <3>3. Len(text) - n + 1 # 0
      BY <2>2
    <3> QED
      BY <3>1, <3>2, <3>3, Zenon
  <2>5. NotPrinted = SubSeq(text, n, Len(text))
    BY <2>1 DEF NotPrinted
  <2>6. NotPrinted' = SubSeq(text, n + 1, Len(text))
    <3>1. bufferAux + (i + 1) + 1 = n + 1
      BY <2>1
    <3> QED
      BY <2>1, <3>1 DEF NotPrinted
  <2>7. NotPrinted # << >> /\ Head(NotPrinted) = c /\ NotPrinted' = Tail(NotPrinted)
    BY <2>3, <2>4, <2>5, <2>6
  <2> HIDE DEF c, n
  <2>8. Screen!PrintOne
    BY <2>1, <2>7, <1>a, PrintcPrints DEF Screen!PrintOne
  <2> QED
    BY <2>8 DEF Screen!TNext
<1>9. CASE PartPrinted
  <2>1. bufferAux' + 1 = bufferAux + i + 1
    BY <1>9, <1>a DEF PartPrinted, ConsoleTypeOK
  <2> QED
    BY <1>9, <2>1 DEF PartPrinted, cursorVars, Screen!tVars, NotPrinted
<1>10. CASE WriteReturns
  <2>1. pc = "rest" /\ bufferAux + i + 1 > Len(text) /\ Len(text) \in Int /\ bufferAux + i + 1 \in Int
    BY <1>10, <1>a DEF WriteReturns, PartsInv, ConsoleTypeOK
  <2>2. SubSeq(text, bufferAux + i + 1, Len(text)) = << >>
    BY <2>1, SubSeqEmpty
  <2> QED
    BY <1>10, <2>1, <2>2 DEF WriteReturns, cursorVars, Screen!tVars, NotPrinted
<1>11. CASE ReadReturns
  BY <1>11 DEF ReadReturns, cursorVars, Screen!tVars, NotPrinted
<1>12. CASE UNCHANGED consoleVars
  BY <1>12 DEF consoleVars, cursorVars, writeVars, Screen!tVars, NotPrinted
<1> QED
  BY <1>1, <1>2, <1>3, <1>4, <1>5, <1>6, <1>7, <1>8, <1>9, <1>10, <1>11, <1>12
     DEF ConsoleNext, Screen!TNext

\* A write of any length, in parts of any size, on a screen of any size, prints
\* each character once, in order, in the cells that follow the cursor.
THEOREM ConsoleImplementsTerminal == ConsoleSpec => ImplementsTerminal
<1> QED
  BY ConsoleInvInit, ConsoleInvNext, TerminalInit, TerminalNext, PTL
     DEF ConsoleSpec, ImplementsTerminal, Screen!TSpec
===============================================================================
