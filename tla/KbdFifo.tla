------------------------------- MODULE KbdFifo --------------------------------
(***************************************************************************)
(* What the keyboard buffer promises: the keys that are accepted come out  *)
(* once each, in the order they were pressed; a key is refused only when   *)
(* Capacity keys are waiting.  Keyboard and KbdRead are checked to         *)
(* implement this.                                                         *)
(***************************************************************************)
EXTENDS Naturals, Sequences

CONSTANTS Char, Capacity

VARIABLES
  fifo,   \* the keys that wait, oldest first
  out     \* what the last read delivered

fifoVars == <<fifo, out>>

FifoInit == fifo = << >> /\ out = << >>

Put(c) ==
  /\ fifo' = IF Len(fifo) < Capacity THEN Append(fifo, c) ELSE fifo
  /\ UNCHANGED out

\* A read delivers a prefix of what waits and leaves the rest; it comes back
\* empty only when nothing waits.
Get ==
  /\ fifo = out' \o fifo'
  /\ fifo # << >> => out' # << >>

Clear == fifo' = << >> /\ UNCHANGED out

FifoNext == (\E c \in Char : Put(c)) \/ Get \/ Clear

FifoSpec == FifoInit /\ [][FifoNext]_fifoVars
===============================================================================
