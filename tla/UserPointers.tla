----------------------------- MODULE UserPointers -----------------------------
(***************************************************************************)
(* The blocks of memory that programs pass to read and write, and what the *)
(* kernel accepts: access_ok of utils.c, with its unsigned 32-bit sums,    *)
(* and the checks of sys_write and sys_read around it.                     *)
(***************************************************************************)
EXTENDS Integers

CONSTANTS
  Words,              \* number of addresses: 2^32
  PAGE_SIZE,          \* 4096
  PAG_LOG_INIT_DATA,  \* the first page of programs: 2048
  NUM_PAG_DATA,       \* 20
  NUM_PAG_CODE        \* 8

\* There are pages below the program's and at least one above.
ASSUME PointerAssumption ==
  /\ PAGE_SIZE \in Nat \ {0} /\ Words \in Nat
  /\ PAG_LOG_INIT_DATA \in Nat \ {0}
  /\ NUM_PAG_DATA \in Nat \ {0} /\ NUM_PAG_CODE \in Nat \ {0}
  /\ (PAG_LOG_INIT_DATA + NUM_PAG_DATA + NUM_PAG_CODE + 1) * PAGE_SIZE <= Words

Address == 0..Words - 1
AnInt == {n \in -Words..Words : 2 * n >= -Words /\ 2 * n < Words}
NULL == 0
VERIFY_READ == 0
VERIFY_WRITE == 1

PageOf(a) == a \div PAGE_SIZE

\* The page just after the code, which comes after the data.
EndPage == PAG_LOG_INIT_DATA + NUM_PAG_DATA + NUM_PAG_CODE

\* A mutant: no look at overflow.
AccessOkWraps(type, addr, size) ==
  /\ PageOf(addr) >= PAG_LOG_INIT_DATA
  /\ PageOf((addr + (size % Words)) % Words) <= EndPage

\* size is converted to unsigned.  (The case of VERIFY_WRITE has no break: a
\* block that is not in the data pages is looked at again as if to be read.)
access_ok(type, addr, size) ==
  LET addr_ini == PageOf(addr)
      addr_fin == PageOf((addr + (size % Words)) % Words)
  IN  /\ addr_fin >= addr_ini
      /\ addr_ini >= PAG_LOG_INIT_DATA
      /\ \/ type = VERIFY_WRITE /\ addr_fin <= PAG_LOG_INIT_DATA + NUM_PAG_DATA
         \/ addr_fin <= EndPage

\* sys_write(fd, buffer, size) gets past its checks.
WriteAccepts(fd, buffer, size) ==
  /\ fd = 1
  /\ buffer # NULL
  /\ size >= 0 /\ access_ok(VERIFY_READ, buffer, size)

\* sys_read(b, maxchars) does, and does not just flush.
ReadAccepts(b, maxchars) ==
  /\ b # NULL
  /\ maxchars > 0 /\ access_ok(VERIFY_WRITE, b, maxchars)

\* No one of the n bytes from addr on is beyond the last address or in a page of the kernel.
AvoidsKernel(addr, n) ==
  \A k \in 0..n - 1 : addr + k < Words /\ PageOf(addr + k) >= PAG_LOG_INIT_DATA
===============================================================================
