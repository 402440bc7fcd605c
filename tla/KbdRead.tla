------------------------------- MODULE KbdRead --------------------------------
(***************************************************************************)
(* sys_read on top of the scheduler and the keyboard buffer: processes     *)
(* that wait for keys, the keyboard interrupt that wakes them, the clock   *)
(* interrupt, and fork and exit as far as they move processes.             *)
(*                                                                         *)
(* Interrupts are off in the kernel (every gate of the IDT is an interrupt *)
(* gate and sysenter clears IF), so a handler is one step.  A read that    *)
(* blocks is two: sched_next_rr switches away in the middle of sys_read,   *)
(* and the rest runs when the process gets the CPU again, still with       *)
(* interrupts off.  What the rest relies on was checked by the keyboard    *)
(* interrupt, long before.                                                 *)
(***************************************************************************)
EXTENDS RoundRobin, Keyboard

\* A reader may wait for BUFF_SIZE keys: they have to fit.
ASSUME KbdReadAssumption == BUFF_SIZE <= KEYBOARD_BUF_SIZE

VARIABLES
  live,              \* processes that were forked and have not exited
  kbd_blocked,       \* processes blocked in sys_read, first to block first
  kbd_chars_needed,  \* the task_struct field: how many keys the reader wants
  in_read            \* processes inside sys_read, past its sched_next_rr

kbdReadVars == <<rrVars, kbdVars, live, kbd_blocked, kbd_chars_needed, in_read>>

KbdReadInit ==
  /\ RRInit
  /\ KeyboardInit
  /\ live = {InitTask}
  /\ kbd_blocked = << >>
  /\ kbd_chars_needed = [t \in Task |-> 0]
  /\ in_read = {}

\* Readers that have been woken and have not run since.
Woken == in_read \ Range(kbd_blocked)

InterruptsOn == cur \notin in_read
InUserMode == cur # Idle /\ cur \notin in_read

-----------------------------------------------------------------------------
(* Mutants: a wake-up that comes one key late, one that takes the newest   *)
(* reader, a wake-up without its list_del, a wake-up that is lost.         *)

WakeReaderLate ==
  IF kbd_blocked # << >> /\ kbd_count' > kbd_chars_needed[Head(kbd_blocked)]
  THEN MakeReady(Head(kbd_blocked)) /\ kbd_blocked' = Tail(kbd_blocked)
  ELSE UNCHANGED <<rrVars, kbd_blocked>>
WakeReaderLast ==
  LET t == kbd_blocked[Len(kbd_blocked)]
  IN  IF kbd_blocked # << >> /\ kbd_count' >= kbd_chars_needed[t]
      THEN /\ MakeReady(t)
           /\ kbd_blocked' = SubSeq(kbd_blocked, 1, Len(kbd_blocked) - 1)
      ELSE UNCHANGED <<rrVars, kbd_blocked>>
WakeReaderKeepsNode ==
  IF kbd_blocked # << >> /\ kbd_count' >= kbd_chars_needed[Head(kbd_blocked)]
  THEN MakeReady(Head(kbd_blocked)) /\ UNCHANGED kbd_blocked
  ELSE UNCHANGED <<rrVars, kbd_blocked>>
WakeReaderNotReady ==
  IF kbd_blocked # << >> /\ kbd_count' >= kbd_chars_needed[Head(kbd_blocked)]
  THEN UNCHANGED rrVars /\ kbd_blocked' = Tail(kbd_blocked)
  ELSE UNCHANGED <<rrVars, kbd_blocked>>

\* The second half of kbd_buf_write: the first reader becomes ready when the
\* buffer holds as many keys as it waits for.
WakeReader ==
  IF kbd_blocked # << >> /\ kbd_count' >= kbd_chars_needed[Head(kbd_blocked)]
  THEN MakeReady(Head(kbd_blocked)) /\ kbd_blocked' = Tail(kbd_blocked)
  ELSE UNCHANGED <<rrVars, kbd_blocked>>

-----------------------------------------------------------------------------
(* Actions.                                                                *)

\* clock_routine
ClockInterrupt ==
  /\ InterruptsOn
  /\ Tick
  /\ UNCHANGED <<kbdVars, live, kbd_blocked, kbd_chars_needed, in_read>>

\* keyboard_routine, for a key that makes a character.  A key that finds the
\* buffer full is dropped before anybody is looked at.
KeyboardInterrupt(c) ==
  /\ InterruptsOn
  /\ KbdBufWrite(c)
  /\ IF kbd_count < KEYBOARD_BUF_SIZE THEN WakeReader
                                      ELSE UNCHANGED <<rrVars, kbd_blocked>>
  /\ UNCHANGED <<live, kbd_chars_needed, in_read>>

\* read(b, 0)
ReadFlush ==
  /\ InUserMode
  /\ KbdBufFlush
  /\ UNCHANGED <<rrVars, live, kbd_blocked, kbd_chars_needed, in_read>>

ToRead(maxchars) == Min({maxchars, BUFF_SIZE})

\* read(b, maxchars) when keys wait.
ReadNow(maxchars) ==
  /\ InUserMode
  /\ kbd_count > 0
  /\ KbdBufRead(ToRead(maxchars))
  /\ UNCHANGED <<rrVars, live, kbd_blocked, kbd_chars_needed, in_read>>

\* read(b, maxchars) when no key waits, up to the context switch.
ReadBlock(maxchars) ==
  /\ InUserMode
  /\ kbd_count = 0
  /\ kbd_chars_needed' = [kbd_chars_needed EXCEPT ![cur] = ToRead(maxchars)]
  /\ kbd_blocked' = Append(kbd_blocked, cur)
  /\ in_read' = in_read \cup {cur}
  /\ SchedNext(readyqueue)
  /\ KbdBufRead(ToRead(maxchars))
  /\ UNCHANGED live

\* A mutant: the reader goes back to the queue when too few keys are left.
ReadFinishWaitsAgain ==
  /\ cur \in in_read
  /\ IF kbd_count > 0
     THEN /\ KbdBufRead(kbd_chars_needed[cur])
          /\ in_read' = in_read \ {cur}
          /\ UNCHANGED <<rrVars, kbd_blocked>>
     ELSE /\ kbd_blocked' = Append(kbd_blocked, cur)
          /\ SchedNext(readyqueue)
          /\ UNCHANGED <<kbdVars, in_read>>
  /\ UNCHANGED <<live, kbd_chars_needed>>

\* The rest of sys_read, with the CPU again: to_read is a local variable, equal
\* to kbd_chars_needed.  It takes what is there, and returns that many.
ReadFinish ==
  /\ cur \in in_read
  /\ KbdBufRead(kbd_chars_needed[cur])
  /\ in_read' = in_read \ {cur}
  /\ UNCHANGED <<rrVars, live, kbd_blocked, kbd_chars_needed>>

\* sys_fork: t starts ready, with a copy of the parent's task_struct.
Fork(t) ==
  /\ InUserMode
  /\ t \notin live \cup {Idle}
  /\ live' = live \cup {t}
  /\ kbd_chars_needed' = [kbd_chars_needed EXCEPT ![t] = kbd_chars_needed[cur]]
  /\ MakeReady(t)
  /\ UNCHANGED <<kbdVars, kbd_blocked, in_read>>

\* sys_exit
Exit ==
  /\ InUserMode
  /\ live' = live \ {cur}
  /\ SchedNext(readyqueue)
  /\ UNCHANGED <<kbdVars, kbd_blocked, kbd_chars_needed, in_read>>

KbdReadNext ==
  \/ ClockInterrupt
  \/ \E c \in Char : KeyboardInterrupt(c)
  \/ ReadFlush
  \/ \E n \in 1..BUFF_SIZE + 1 : ReadNow(n) \/ ReadBlock(n)
  \/ ReadFinish
  \/ \E t \in Task : Fork(t)
  \/ Exit

\* The timer keeps interrupting whenever interrupts are on, and a process that
\* has the CPU inside the kernel goes on.  No process has to call anything and
\* nobody has to press a key.
KbdReadSpec ==
  /\ KbdReadInit /\ [][KbdReadNext]_kbdReadVars
  /\ WF_kbdReadVars(ClockInterrupt)
  /\ WF_kbdReadVars(ReadFinish)

-----------------------------------------------------------------------------
(* Properties.                                                             *)

KbdReadTypeOK ==
  /\ RRTypeOK
  /\ KeyboardTypeOK
  /\ live \subseteq Task \ {Idle}
  /\ kbd_blocked \in Seq(live)
  /\ kbd_chars_needed \in [Task -> 0..BUFF_SIZE]
  /\ in_read \subseteq live

\* Every process is in exactly one of: the CPU, the ready queue, kbd_blocked.
\* Both queues are linked through the one `list' node of the task_struct, and
\* the keyboard interrupt moves it behind the process's back.
PlacedOnce ==
  /\ IsInjective(kbd_blocked)
  /\ Range(kbd_blocked) \cap (Queued \cup {cur}) = {}
  /\ live \cup {Idle} = Queued \cup {cur, Idle} \cup Range(kbd_blocked)
  /\ Range(kbd_blocked) \subseteq in_read

\* No wake-up is lost: the first blocked reader never sleeps on keys enough for
\* it, unless readers woken before are still to take theirs.  The interrupt
\* looks at one reader per key and at none when the buffer is full, the readers
\* take fewer or more than they were woken for, and yet nobody needs another
\* look.  (With nobody woken: kbd_count is below what the first reader needs.)
NoLostWakeup ==
  kbd_blocked # << >> =>
    kbd_count < kbd_chars_needed[Head(kbd_blocked)]
                + SumFunctionOnSet(kbd_chars_needed, Woken)

\* t blocked in read before u, and both still are in it.
ReadsBefore(t, u) ==
  LET q == <<cur>> \o readyqueue \o kbd_blocked
  IN  /\ {t, u} \subseteq in_read
      /\ \E i, j \in 1..Len(q) : i < j /\ q[i] = t /\ q[j] = u

\* Readers are served in the order they blocked, through two queues and two
\* interrupts: whoever blocked first takes its keys first.
ReadersInOrder ==
  [][\A t, u \in Task :
       ReadsBefore(t, u) => ReadsBefore(t, u)' \/ t \notin in_read']_kbdReadVars

\* A reader that has been woken returns, whoever else wants the CPU.
WokenReaderReturns == \A t \in Task : t \in Woken ~> t \notin in_read

\* For the scheduler all this is its most general client.
ClientOfScheduler == RRSafety

\* What devices.c promises of the wake-up (the reader is woken when it ``has
\* enough characters''): a read that blocked returns as many as it waits for.
BlockedReadIsComplete ==
  [][ReadFinish => Len(buffer_sys') = kbd_chars_needed[cur]]_kbdReadVars
===============================================================================
