------------------------------- MODULE Keyboard -------------------------------
(***************************************************************************)
(* The keyboard's circular buffer, zeos/devices.c: written by the keyboard *)
(* interrupt, emptied by read, discarded by read(b, 0).  kbd_count is kept *)
(* beside the two positions, so the positions alone do not tell a full     *)
(* buffer from an empty one.                                               *)
(*                                                                         *)
(* KEYBOARD_BUF_SIZE is a power of 2 in the code, which makes `x &         *)
(* KBD_MASK' the remainder; the remainder needs no such assumption.        *)
(***************************************************************************)
EXTENDS Integers, Sequences, FiniteSetsExt

CONSTANTS
  Char,               \* the characters of char_map
  NoChar,             \* what the array holds before anything is stored
  KEYBOARD_BUF_SIZE,  \* slots of the circular buffer: 256
  BUFF_SIZE           \* slots of buffer_sys, the most a read takes: 256

ASSUME KeyboardAssumption ==
  /\ KEYBOARD_BUF_SIZE \in Nat \ {0}
  /\ BUFF_SIZE \in Nat \ {0}

VARIABLES
  kbd_buf,     \* the array
  kbd_head,    \* next position to write
  kbd_tail,    \* next position to read
  kbd_count,   \* characters stored
  buffer_sys   \* the characters the last kbd_buf_read copied out

kbdVars == <<kbd_buf, kbd_head, kbd_tail, kbd_count, buffer_sys>>

KeyboardInit ==
  /\ kbd_buf = [i \in 0..KEYBOARD_BUF_SIZE - 1 |-> NoChar]
  /\ kbd_head = 0
  /\ kbd_tail = 0
  /\ kbd_count = 0
  /\ buffer_sys = << >>

Slot(i) == i % KEYBOARD_BUF_SIZE

\* Mutants: a key stored over an unread one, a flush that forgets a position,
\* a read that forgets to count, one that ignores how much is there.
KbdBufWriteUnchecked(c) ==
  /\ kbd_buf' = [kbd_buf EXCEPT ![kbd_head] = c]
  /\ kbd_head' = Slot(kbd_head + 1)
  /\ kbd_count' = kbd_count + 1
  /\ UNCHANGED <<kbd_tail, buffer_sys>>
KbdBufFlushKeepsTail ==
  /\ kbd_head' = 0
  /\ kbd_count' = 0
  /\ UNCHANGED <<kbd_buf, kbd_tail, buffer_sys>>
KbdBufReadPastEnd(n) ==
  /\ buffer_sys' = [i \in 1..n |-> kbd_buf[Slot(kbd_tail + i - 1)]]
  /\ kbd_tail' = Slot(kbd_tail + n)
  /\ kbd_count' = kbd_count - n
  /\ UNCHANGED <<kbd_buf, kbd_head>>

\* kbd_buf_write up to the wake-up: a key that finds the buffer full is lost.
KbdBufWrite(c) ==
  \/ /\ kbd_count >= KEYBOARD_BUF_SIZE
     /\ UNCHANGED kbdVars
  \/ /\ kbd_count < KEYBOARD_BUF_SIZE
     /\ kbd_buf' = [kbd_buf EXCEPT ![kbd_head] = c]
     /\ kbd_head' = Slot(kbd_head + 1)
     /\ kbd_count' = kbd_count + 1
     /\ UNCHANGED <<kbd_tail, buffer_sys>>

\* kbd_buf_read(buffer_sys, n).
KbdBufRead(n) ==
  LET copied == Min({n, kbd_count})
  IN  /\ buffer_sys' = [i \in 1..copied |-> kbd_buf[Slot(kbd_tail + i - 1)]]
      /\ kbd_tail' = Slot(kbd_tail + copied)
      /\ kbd_count' = kbd_count - copied
      /\ UNCHANGED <<kbd_buf, kbd_head>>

\* kbd_buf_flush.
KbdBufFlush ==
  /\ kbd_head' = 0
  /\ kbd_tail' = 0
  /\ kbd_count' = 0
  /\ UNCHANGED <<kbd_buf, buffer_sys>>

-----------------------------------------------------------------------------
(* The buffer by itself: any calls, in any order.  Interrupts are off in   *)
(* the kernel, so each call is atomic.                                     *)

KeyboardNext ==
  \/ \E c \in Char : KbdBufWrite(c)
  \/ \E n \in 1..BUFF_SIZE : KbdBufRead(n)
  \/ KbdBufFlush

KeyboardSpec == KeyboardInit /\ [][KeyboardNext]_kbdVars

-----------------------------------------------------------------------------
(* Properties.                                                             *)

KeyboardTypeOK ==
  /\ kbd_buf \in [0..KEYBOARD_BUF_SIZE - 1 -> Char \cup {NoChar}]
  /\ kbd_head \in 0..KEYBOARD_BUF_SIZE - 1
  /\ kbd_tail \in 0..KEYBOARD_BUF_SIZE - 1
  /\ kbd_count \in 0..KEYBOARD_BUF_SIZE

\* kbd_count is the distance from kbd_tail to kbd_head: the three counters,
\* which the write, the read and the flush update separately, agree.
CountMatchesPositions == kbd_head = Slot(kbd_tail + kbd_count)

\* The keys that wait, oldest first.
Waiting == [i \in 1..kbd_count |-> kbd_buf[Slot(kbd_tail + i - 1)]]

\* No key is delivered that was not pressed (a slot that was never written, or
\* one from before the last flush, would be).
OnlyKeysWait == \A i \in 1..kbd_count : Waiting[i] \in Char

Fifo == INSTANCE KbdFifo
  WITH fifo <- Waiting, out <- buffer_sys, Capacity <- KEYBOARD_BUF_SIZE

\* Keys come out once each and in the order they were pressed, whatever the
\* wrap-around, the flushes and the sizes of the reads.
ImplementsFifo == Fifo!FifoSpec
===============================================================================
