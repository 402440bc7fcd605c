---------------------------- MODULE KbdReadProofs -----------------------------
(***************************************************************************)
(* First, the circular buffer is a FIFO queue, for every size of the       *)
(* buffer.  Then, for any number of processes, any buffer and any quantum: *)
(* no process is lost or linked twice between the CPU, the ready queue and *)
(* kbd_blocked, and the composed system is a client of the scheduler, so   *)
(* it has the scheduler's fairness properties; no wake-up is lost; and     *)
(* readers do not overtake each other.                                     *)
(***************************************************************************)
EXTENDS KbdRead, RoundRobinProofs, FiniteSetTheorems, WellFoundedInduction

-----------------------------------------------------------------------------
(* The circular buffer, by itself.                                         *)

KInv == KeyboardTypeOK /\ CountMatchesPositions /\ OnlyKeysWait

\* Positions stay below twice the size, where the remainder is a comparison.
LEMMA SlotWrap ==
  ASSUME NEW i \in 0..(2 * KEYBOARD_BUF_SIZE - 1)
  PROVE  Slot(i) = IF i < KEYBOARD_BUF_SIZE THEN i ELSE i - KEYBOARD_BUF_SIZE
BY KeyboardAssumption DEF Slot

LEMMA MinPair ==
  ASSUME NEW a \in Int, NEW b \in Int
  PROVE  Min({a, b}) = IF a <= b THEN a ELSE b
BY DEF Min

\* Waiting as a sequence.
LEMMA WaitingSeq ==
  ASSUME KInv
  PROVE  /\ Waiting \in Seq(Char)
         /\ Len(Waiting) = kbd_count
         /\ \A i \in 1..kbd_count : Waiting[i] = kbd_buf[Slot(kbd_tail + i - 1)]
BY DEF KInv, KeyboardTypeOK, OnlyKeysWait, Waiting

LEMMA KInit == KeyboardInit => KInv
BY KeyboardAssumption, SlotWrap
   DEF KeyboardInit, KInv, KeyboardTypeOK, CountMatchesPositions, OnlyKeysWait

\* A key that is stored goes behind the others and touches none of them.
LEMMA WriteAppends ==
  ASSUME KInv, NEW c \in Char, KbdBufWrite(c)
  PROVE  /\ KInv'
         /\ kbd_count < KEYBOARD_BUF_SIZE => Waiting' = Append(Waiting, c)
         /\ ~ (kbd_count < KEYBOARD_BUF_SIZE) => Waiting' = Waiting
         /\ buffer_sys' = buffer_sys
<1> USE KeyboardAssumption
<1>q. /\ kbd_buf \in [0..KEYBOARD_BUF_SIZE - 1 -> Char \cup {NoChar}]
      /\ kbd_head \in 0..KEYBOARD_BUF_SIZE - 1
      /\ kbd_tail \in 0..KEYBOARD_BUF_SIZE - 1
      /\ kbd_count \in 0..KEYBOARD_BUF_SIZE
      /\ kbd_head = Slot(kbd_tail + kbd_count)
  BY DEF KInv, KeyboardTypeOK, CountMatchesPositions
<1>1. CASE kbd_count >= KEYBOARD_BUF_SIZE
  <2>1. UNCHANGED kbdVars /\ ~ (kbd_count < KEYBOARD_BUF_SIZE)
    BY <1>1, <1>q DEF KbdBufWrite
  <2> QED
    BY <2>1 DEF kbdVars, KInv, KeyboardTypeOK, CountMatchesPositions, OnlyKeysWait, Waiting
<1>2. CASE kbd_count < KEYBOARD_BUF_SIZE
  <2>1. /\ kbd_buf' = [kbd_buf EXCEPT ![kbd_head] = c]
        /\ kbd_head' = Slot(kbd_head + 1)
        /\ kbd_count' = kbd_count + 1
        /\ kbd_tail' = kbd_tail
        /\ buffer_sys' = buffer_sys
    BY <1>2, <1>q DEF KbdBufWrite
  <2>2. \A i \in 1..kbd_count :
          /\ Slot(kbd_tail + i - 1) \in 0..KEYBOARD_BUF_SIZE - 1
          /\ Slot(kbd_tail + i - 1) # kbd_head
    BY <1>q, <1>2, SlotWrap
  <2>3. /\ \A i \in 1..kbd_count : kbd_buf'[Slot(kbd_tail + i - 1)] = Waiting[i]
        /\ kbd_buf'[Slot(kbd_tail + kbd_count)] = c
    BY <1>q, <2>1, <2>2 DEF Waiting
  <2>4. KeyboardTypeOK'
    BY <1>q, <1>2, <2>1, SlotWrap DEF KeyboardTypeOK
  <2>5. CountMatchesPositions'
    <3>1. Slot(kbd_head + 1) = Slot(kbd_tail + (kbd_count + 1))
      BY <1>q, <1>2, SlotWrap
    <3> QED
      BY <3>1, <2>1 DEF CountMatchesPositions, Slot
  <2>6. /\ Waiting' \in Seq(Char)
        /\ Len(Waiting') = kbd_count + 1
        /\ \A i \in 1..kbd_count : Waiting'[i] = Waiting[i]
        /\ Waiting'[kbd_count + 1] = c
    <3>1. Waiting' = [i \in 1..kbd_count + 1 |-> kbd_buf'[Slot(kbd_tail + i - 1)]]
      BY <2>1 DEF Waiting, Slot
    <3>2. \A i \in 1..kbd_count + 1 :
            Waiting'[i] = IF i = kbd_count + 1 THEN c ELSE Waiting[i]
      BY <1>q, <2>3, <3>1
    <3>3. \A i \in 1..kbd_count : Waiting[i] \in Char
      BY DEF KInv, OnlyKeysWait
    <3>4. Waiting' \in [1..kbd_count + 1 -> Char]
      <4>1. \A i \in 1..kbd_count + 1 : i = kbd_count + 1 \/ i \in 1..kbd_count
        BY <1>q
      <4>2. \A i \in 1..kbd_count + 1 : Waiting'[i] \in Char
        BY <3>2, <3>3, <4>1
      <4> DEFINE w == Waiting'
      <4>3. w = [i \in 1..kbd_count + 1 |-> w[i]]
        BY <3>1
      <4> HIDE DEF w
      <4>4. w \in [1..kbd_count + 1 -> Char]
        BY <4>2, <4>3 DEF w
      <4> QED
        BY <4>4 DEF w
    <3>5. Waiting' \in Seq(Char) /\ Len(Waiting') = kbd_count + 1
      BY <1>q, <3>4
    <3>6. kbd_count + 1 \in 1..kbd_count + 1 /\ \A i \in 1..kbd_count : i # kbd_count + 1
      BY <1>q
    <3>7. Waiting'[kbd_count + 1] = c
      BY <3>2, <3>6
    <3>8. \A i \in 1..kbd_count : Waiting'[i] = Waiting[i]
      BY <1>q, <3>2, <3>6
    <3> QED
      BY <3>5, <3>7, <3>8
  <2>7. OnlyKeysWait'
    BY <1>q, <2>1, <2>6, ElementOfSeq DEF OnlyKeysWait
  <2>8. Waiting' = Append(Waiting, c)
    <3>1. /\ Append(Waiting, c) \in Seq(Char)
          /\ Len(Append(Waiting, c)) = kbd_count + 1
          /\ \A i \in 1..kbd_count : Append(Waiting, c)[i] = Waiting[i]
          /\ Append(Waiting, c)[kbd_count + 1] = c
      BY WaitingSeq, AppendProperties
    <3>2. \A i \in 1..kbd_count + 1 : Waiting'[i] = Append(Waiting, c)[i]
      BY <1>q, <2>6, <3>1
    <3> QED
      BY <2>6, <3>1, <3>2, SeqEqual
  <2> QED
    BY <1>2, <2>1, <2>4, <2>5, <2>7, <2>8 DEF KInv
<1> QED
  BY <1>1, <1>2, <1>q

\* A read takes the oldest keys and leaves the others as they are.
LEMMA ReadTakesPrefix ==
  ASSUME KInv, NEW n \in Nat \ {0}, KbdBufRead(n)
  PROVE  /\ KInv'
         /\ Waiting = buffer_sys' \o Waiting'
         /\ Waiting # << >> => buffer_sys' # << >>
<1> USE KeyboardAssumption
<1> DEFINE copied == Min({n, kbd_count})
<1>q. /\ kbd_buf \in [0..KEYBOARD_BUF_SIZE - 1 -> Char \cup {NoChar}]
      /\ kbd_head \in 0..KEYBOARD_BUF_SIZE - 1
      /\ kbd_tail \in 0..KEYBOARD_BUF_SIZE - 1
      /\ kbd_count \in 0..KEYBOARD_BUF_SIZE
      /\ kbd_head = Slot(kbd_tail + kbd_count)
  BY DEF KInv, KeyboardTypeOK, CountMatchesPositions
<1>1. copied \in 0..kbd_count /\ (kbd_count > 0 => copied > 0)
  BY <1>q, MinPair
<1>2. /\ buffer_sys' = [i \in 1..copied |-> kbd_buf[Slot(kbd_tail + i - 1)]]
      /\ kbd_tail' = Slot(kbd_tail + copied)
      /\ kbd_count' = kbd_count - copied
      /\ kbd_buf' = kbd_buf
      /\ kbd_head' = kbd_head
  BY DEF KbdBufRead
<1> HIDE DEF copied
<1>3. KeyboardTypeOK'
  BY <1>q, <1>1, <1>2, SlotWrap DEF KeyboardTypeOK
<1>4. CountMatchesPositions'
  <2>1. Slot(kbd_tail + kbd_count) = Slot(Slot(kbd_tail + copied) + (kbd_count - copied))
    BY <1>q, <1>1, SlotWrap
  <2> QED
    BY <1>q, <1>2, <2>1 DEF CountMatchesPositions, Slot
<1>5. \A i \in 1..kbd_count - copied :
        Slot(Slot(kbd_tail + copied) + i - 1) = Slot(kbd_tail + (copied + i) - 1)
  BY <1>q, <1>1, SlotWrap
<1>6. Waiting' = [i \in 1..kbd_count - copied |-> Waiting[copied + i]]
  <2>1. Waiting' = [i \in 1..kbd_count - copied |->
                      kbd_buf[Slot(Slot(kbd_tail + copied) + i - 1)]]
    BY <1>2 DEF Waiting, Slot
  <2>2. \A i \in 1..kbd_count - copied :
          Waiting[copied + i] = kbd_buf[Slot(kbd_tail + (copied + i) - 1)]
    BY <1>q, <1>1 DEF Waiting
  <2> QED
    BY <1>5, <2>1, <2>2
<1>7. \A i \in 1..kbd_count : Waiting[i] \in Char
  BY DEF KInv, OnlyKeysWait
<1>8. Waiting' \in Seq(Char) /\ Len(Waiting') = kbd_count - copied
  BY <1>q, <1>1, <1>6, <1>7
<1>9. OnlyKeysWait'
  BY <1>2, <1>8, ElementOfSeq DEF OnlyKeysWait
<1>10. /\ buffer_sys' = [i \in 1..copied |-> Waiting[i]]
       /\ buffer_sys' \in Seq(Char) /\ Len(buffer_sys') = copied
  <2>1. \A i \in 1..copied : Waiting[i] = kbd_buf[Slot(kbd_tail + i - 1)]
    BY <1>q, <1>1 DEF Waiting
  <2>2. buffer_sys' = [i \in 1..copied |-> Waiting[i]]
    BY <1>2, <2>1
  <2> QED
    BY <1>q, <1>1, <1>7, <2>2
<1>11. Waiting = buffer_sys' \o Waiting'
  <2>1. /\ buffer_sys' \o Waiting' \in Seq(Char)
        /\ Len(buffer_sys' \o Waiting') = kbd_count
        /\ \A i \in 1..kbd_count : (buffer_sys' \o Waiting')[i] =
             IF i <= copied THEN buffer_sys'[i] ELSE Waiting'[i - copied]
    BY <1>q, <1>1, <1>8, <1>10, ConcatProperties
  <2>2. \A i \in 1..kbd_count : (buffer_sys' \o Waiting')[i] = Waiting[i]
    <3>1. ASSUME NEW i \in 1..kbd_count, i <= copied
          PROVE  (buffer_sys' \o Waiting')[i] = Waiting[i]
      BY <3>1, <1>q, <1>1, <1>10, <2>1
    <3>2. ASSUME NEW i \in 1..kbd_count, ~ (i <= copied)
          PROVE  (buffer_sys' \o Waiting')[i] = Waiting[i]
      <4>1. i - copied \in 1..kbd_count - copied /\ copied + (i - copied) = i
        BY <3>2, <1>q, <1>1
      <4>2. Waiting'[i - copied] = Waiting[i]
        BY <4>1, <1>6
      <4> QED
        BY <4>2, <3>2, <2>1
    <3> QED
      BY <3>1, <3>2
  <2> QED
    BY <2>1, <2>2, WaitingSeq, SeqEqual
<1>12. Waiting # << >> => buffer_sys' # << >>
  <2>1. Waiting # << >> => kbd_count > 0
    BY <1>q, WaitingSeq, EmptySeq
  <2> QED
    BY <2>1, <1>1, <1>10, EmptySeq
<1> QED
  BY <1>3, <1>4, <1>9, <1>11, <1>12 DEF KInv

LEMMA FlushClears ==
  ASSUME KInv, KbdBufFlush
  PROVE  KInv' /\ Waiting' = << >> /\ buffer_sys' = buffer_sys
BY KeyboardAssumption, SlotWrap
   DEF KbdBufFlush, KInv, KeyboardTypeOK, CountMatchesPositions, OnlyKeysWait, Waiting, Slot

LEMMA KStep ==
  ASSUME KInv, [KeyboardNext]_kbdVars
  PROVE  KInv'
<1>1. CASE UNCHANGED kbdVars
  BY <1>1 DEF kbdVars, KInv, KeyboardTypeOK, CountMatchesPositions, OnlyKeysWait, Waiting
<1> QED
  BY <1>1, KeyboardAssumption, WriteAppends, ReadTakesPrefix, FlushClears DEF KeyboardNext

\* The two positions and the count always agree.
THEOREM KeyboardCounts == KeyboardSpec => []CountMatchesPositions
<1>1. KInv /\ [KeyboardNext]_kbdVars => KInv'
  BY KStep
<1>2. KInv => CountMatchesPositions
  BY DEF KInv
<1> QED
  BY <1>1, <1>2, KInit, PTL DEF KeyboardSpec

\* No slot is delivered that holds no pressed key.
THEOREM KeyboardOnlyKeys == KeyboardSpec => []OnlyKeysWait
<1>1. KInv /\ [KeyboardNext]_kbdVars => KInv'
  BY KStep
<1>2. KInv => OnlyKeysWait
  BY DEF KInv
<1> QED
  BY <1>1, <1>2, KInit, PTL DEF KeyboardSpec

\* The circular buffer implements the queue of keys.
THEOREM KeyboardImplementsFifo == KeyboardSpec => ImplementsFifo
<1>1. KeyboardInit => Fifo!FifoInit
  BY KInit, WaitingSeq, EmptySeq DEF KeyboardInit, Fifo!FifoInit, Waiting
<1>2. KInv /\ [KeyboardNext]_kbdVars => [Fifo!FifoNext]_(Fifo!fifoVars)
  <2> SUFFICES ASSUME KInv, [KeyboardNext]_kbdVars
               PROVE  [Fifo!FifoNext]_(Fifo!fifoVars)
    OBVIOUS
  <2>1. ASSUME NEW c \in Char, KbdBufWrite(c)
        PROVE  Fifo!FifoNext
    BY <2>1, WriteAppends, WaitingSeq DEF Fifo!FifoNext, Fifo!Put
  <2>2. ASSUME NEW n \in 1..BUFF_SIZE, KbdBufRead(n)
        PROVE  Fifo!FifoNext
    BY <2>2, KeyboardAssumption, ReadTakesPrefix DEF Fifo!FifoNext, Fifo!Get
  <2>3. CASE KbdBufFlush
    BY <2>3, FlushClears DEF Fifo!FifoNext, Fifo!Clear
  <2>4. CASE UNCHANGED kbdVars
    BY <2>4 DEF kbdVars, Waiting, Fifo!fifoVars
  <2> QED
    BY <2>1, <2>2, <2>3, <2>4 DEF KeyboardNext
<1>3. KInv /\ [KeyboardNext]_kbdVars => KInv'
  BY KStep
<1> QED
  BY <1>1, <1>2, <1>3, KInit, PTL DEF KeyboardSpec, ImplementsFifo, Fifo!FifoSpec

-----------------------------------------------------------------------------
(* The composed system.                                                    *)

\* What PlacedOnce needs to be inductive: who the processes are, and that
\* blocked readers are live and inside sys_read.
Placement ==
  /\ RRSafe
  /\ live \subseteq Task \ {Idle}
  /\ in_read \subseteq live
  /\ kbd_blocked \in Seq(Task)
  /\ PlacedOnce

LEMMA PlacementInit == KbdReadInit => Placement
<1> SUFFICES ASSUME KbdReadInit PROVE Placement
  OBVIOUS
<1>1. << >> \in Seq(Task) /\ DOMAIN << >> = 1..0
  BY EmptySeq
<1>2. RRSafe
  BY RRSafeInit DEF KbdReadInit, RRSafe
<1> QED
  BY <1>1, <1>2, RRAssumption
     DEF KbdReadInit, RRInit, Placement, PlacedOnce, Queued, Range, IsInjective

\* Waking the first reader moves it from one queue to the other.
LEMMA WakeReaderMoves ==
  ASSUME Placement, WakeReader
  PROVE  /\ [RRNext]_rrVars
         /\ kbd_blocked' \in Seq(Task)
         /\ IsInjective(kbd_blocked')
         /\ Range(kbd_blocked') \subseteq Range(kbd_blocked)
         /\ Range(kbd_blocked') \cap (Queued' \cup {cur'}) = {}
         /\ Queued' \cup {cur', Idle} \cup Range(kbd_blocked')
              = Queued \cup {cur, Idle} \cup Range(kbd_blocked)
<1>q. /\ readyqueue \in Seq(Task) /\ IsInjective(readyqueue)
      /\ kbd_blocked \in Seq(Task) /\ IsInjective(kbd_blocked)
      /\ Range(kbd_blocked) \cap (Range(readyqueue) \cup {cur}) = {}
      /\ Range(kbd_blocked) \subseteq Task \ {Idle}
  BY DEF Placement, RRSafe, RRTypeOK, OnePlace, PlacedOnce, Queued
<1>1. CASE kbd_blocked # << >> /\ MakeReady(Head(kbd_blocked)) /\ kbd_blocked' = Tail(kbd_blocked)
  <2> DEFINE t == Head(kbd_blocked)
  <2>1. /\ t \in Task
        /\ Tail(kbd_blocked) \in Seq(Task)
        /\ IsInjective(Tail(kbd_blocked))
        /\ Range(kbd_blocked) = Range(Tail(kbd_blocked)) \cup {t}
        /\ t \notin Range(Tail(kbd_blocked))
    BY <1>q, <1>1, TakeFirst
  <2>2. t \notin Range(readyqueue) \cup {cur, Idle}
    BY <1>q, <2>1
  <2>3. readyqueue' = Append(readyqueue, t) /\ cur' = cur
    BY <1>1 DEF MakeReady
  <2>4. Range(readyqueue') = Range(readyqueue) \cup {t}
    BY <1>q, <2>1, <2>2, <2>3, AppendFresh
  <2>5. RRNext
    BY <1>1, <2>1, <2>2 DEF RRNext, Arrive, Queued
  <2> HIDE DEF t
  <2> QED
    BY <1>q, <1>1, <2>1, <2>2, <2>3, <2>4, <2>5 DEF Queued
<1>2. CASE UNCHANGED <<rrVars, kbd_blocked>>
  BY <1>q, <1>2 DEF rrVars, Queued
<1> QED
  BY <1>1, <1>2 DEF WakeReader

\* Giving up the CPU, by the process p that has it.
LEMMA LeaveMoves ==
  ASSUME Placement, cur # Idle, SchedNext(readyqueue)
  PROVE  /\ [RRNext]_rrVars
         /\ cur \notin Queued' \cup {cur'}
         /\ Queued' \cup {cur', Idle} = Queued \cup {Idle}
<1>1. /\ readyqueue \in Seq(Task) /\ IsInjective(readyqueue)
      /\ cur \notin Range(readyqueue)
  BY DEF Placement, RRSafe, RRTypeOK, OnePlace, Queued
<1>2. Queued' \cup {cur', Idle} = Queued \cup {Idle}
  BY <1>1, SchedNextSafe DEF Queued
<1>3. RRNext
  BY DEF RRNext, Leave
<1> QED
  BY <1>1, <1>2, <1>3 DEF Queued

LEMMA PlacementStep ==
  ASSUME Placement, [KbdReadNext]_kbdReadVars
  PROVE  Placement' /\ [RRNext]_rrVars
<1>q. /\ readyqueue \in Seq(Task) /\ IsInjective(readyqueue)
      /\ cur \in Task /\ cur \notin Range(readyqueue)
      /\ kbd_blocked \in Seq(Task) /\ IsInjective(kbd_blocked)
      /\ Range(kbd_blocked) \cap (Queued \cup {cur}) = {}
      /\ live \cup {Idle} = Queued \cup {cur, Idle} \cup Range(kbd_blocked)
      /\ Range(kbd_blocked) \subseteq in_read
      /\ in_read \subseteq live
      /\ live \subseteq Task \ {Idle}
  BY DEF Placement, RRSafe, RRTypeOK, OnePlace, PlacedOnce, Queued
<1>r. RRSafe /\ ([RRNext]_rrVars => RRSafe')
  BY RRSafeStep DEF Placement, RRSafe
<1>1. CASE ClockInterrupt
  <2>1. Tick /\ UNCHANGED <<live, kbd_blocked, in_read>>
    BY <1>1 DEF ClockInterrupt
  <2>2. [RRNext]_rrVars
    BY <2>1 DEF RRNext
  <2>3. Queued' \cup {cur', Idle} = Queued \cup {cur, Idle}
    <3>1. CASE SchedNext(Append(readyqueue, cur))
      <4>1. /\ Append(readyqueue, cur) \in Seq(Task)
            /\ IsInjective(Append(readyqueue, cur))
            /\ Range(Append(readyqueue, cur)) = Range(readyqueue) \cup {cur}
        BY <1>q, AppendFresh
      <4> QED
        BY <3>1, <4>1, SchedNextSafe DEF Queued
    <3>2. CASE UNCHANGED <<cur, readyqueue>>
      BY <3>2 DEF Queued
    <3> QED
      BY <2>1, <3>1, <3>2 DEF Tick, Schedule
  <2>4. Range(kbd_blocked) \cap (Queued' \cup {cur'}) = {}
    BY <1>q, <2>3
  <2> QED
    BY <1>q, <1>r, <2>1, <2>2, <2>3, <2>4 DEF Placement, PlacedOnce
<1>2. ASSUME NEW c \in Char, KeyboardInterrupt(c)
      PROVE  Placement' /\ [RRNext]_rrVars
  <2>1. UNCHANGED <<live, in_read>>
    BY <1>2 DEF KeyboardInterrupt
  <2>2. CASE WakeReader
    BY <1>q, <1>r, <2>1, <2>2, WakeReaderMoves DEF Placement, PlacedOnce
  <2>3. CASE UNCHANGED <<rrVars, kbd_blocked>>
    BY <1>q, <1>r, <2>1, <2>3 DEF Placement, PlacedOnce, rrVars, Queued
  <2> QED
    BY <1>2, <2>2, <2>3 DEF KeyboardInterrupt
<1>3. ASSUME NEW n \in 1..BUFF_SIZE + 1, ReadBlock(n)
      PROVE  Placement' /\ [RRNext]_rrVars
  <2>1. /\ cur # Idle /\ SchedNext(readyqueue)
        /\ kbd_blocked' = Append(kbd_blocked, cur)
        /\ in_read' = in_read \cup {cur} /\ live' = live
    BY <1>3 DEF ReadBlock, InUserMode
  <2>2. /\ Append(kbd_blocked, cur) \in Seq(Task)
        /\ IsInjective(Append(kbd_blocked, cur))
        /\ Range(Append(kbd_blocked, cur)) = Range(kbd_blocked) \cup {cur}
    BY <1>q, AppendFresh
  <2>3. /\ [RRNext]_rrVars
        /\ cur \notin Queued' \cup {cur'}
        /\ Queued' \cup {cur', Idle} = Queued \cup {Idle}
    BY <2>1, LeaveMoves
  <2>4. Range(kbd_blocked) \cap (Queued' \cup {cur'}) = {}
    BY <1>q, <2>3
  <2> QED
    BY <1>q, <1>r, <2>1, <2>2, <2>3, <2>4 DEF Placement, PlacedOnce
<1>4. CASE ReadFinish
  <2>1. UNCHANGED <<rrVars, live, kbd_blocked>> /\ in_read' = in_read \ {cur}
    BY <1>4 DEF ReadFinish
  <2> QED
    BY <1>q, <1>r, <2>1 DEF Placement, PlacedOnce, rrVars, Queued
<1>5. ASSUME NEW t \in Task, Fork(t)
      PROVE  Placement' /\ [RRNext]_rrVars
  <2>1. /\ t \notin live \cup {Idle} /\ live' = live \cup {t}
        /\ readyqueue' = Append(readyqueue, t) /\ cur' = cur
        /\ UNCHANGED <<kbd_blocked, in_read>>
    BY <1>5 DEF Fork, MakeReady
  <2>2. t \notin Queued \cup {cur, Idle} \cup Range(kbd_blocked)
    BY <1>q, <2>1
  <2>3. Queued' = Queued \cup {t}
    BY <1>q, <2>1, <2>2, AppendFresh DEF Queued
  <2>4. RRNext
    BY <1>5, <2>2 DEF Fork, RRNext, Arrive
  <2> QED
    BY <1>q, <1>r, <2>1, <2>2, <2>3, <2>4 DEF Placement, PlacedOnce
<1>6. CASE Exit
  <2>1. /\ cur # Idle /\ cur \notin in_read /\ SchedNext(readyqueue)
        /\ live' = live \ {cur}
        /\ UNCHANGED <<kbd_blocked, in_read>>
    BY <1>6 DEF Exit, InUserMode
  <2>2. /\ [RRNext]_rrVars
        /\ Queued' \cup {cur', Idle} = Queued \cup {Idle}
    BY <2>1, LeaveMoves
  <2>3. Range(kbd_blocked) \cap (Queued' \cup {cur'}) = {}
    BY <1>q, <2>2
  <2>4. live' \cup {Idle} = Queued' \cup {cur', Idle} \cup Range(kbd_blocked')
    BY <1>q, <2>1, <2>2 DEF Queued
  <2> QED
    BY <1>q, <1>r, <2>1, <2>2, <2>3, <2>4 DEF Placement, PlacedOnce
<1>7. CASE UNCHANGED <<rrVars, live, kbd_blocked, in_read>>
  BY <1>q, <1>r, <1>7 DEF Placement, PlacedOnce, rrVars, Queued
<1>8. ASSUME ReadFlush \/ (\E n \in 1..BUFF_SIZE + 1 : ReadNow(n))
                \/ UNCHANGED kbdReadVars
      PROVE  UNCHANGED <<rrVars, live, kbd_blocked, in_read>>
  BY <1>8 DEF ReadFlush, ReadNow, kbdReadVars
<1> QED
  BY <1>1, <1>2, <1>3, <1>4, <1>5, <1>6, <1>7, <1>8 DEF KbdReadNext

\* No process is lost between the queues, and none is linked twice.
THEOREM KbdReadPlacedOnce == KbdReadSpec => []PlacedOnce
<1>1. Placement /\ [KbdReadNext]_kbdReadVars => Placement'
  BY PlacementStep
<1>2. Placement => PlacedOnce
  BY DEF Placement
<1> QED
  BY <1>1, <1>2, PlacementInit, PTL DEF KbdReadSpec

\* Reading, waking, forking and exiting are steps of the scheduler's most
\* general client.
THEOREM KbdReadClient == KbdReadSpec => ClientOfScheduler
<1>1. Placement /\ [KbdReadNext]_kbdReadVars => Placement'
  BY PlacementStep
<1>2. Placement /\ [KbdReadNext]_kbdReadVars => [RRNext]_rrVars
  BY PlacementStep
<1>3. KbdReadInit => RRInit
  BY DEF KbdReadInit
<1> QED
  BY <1>1, <1>2, <1>3, PlacementInit, PTL DEF KbdReadSpec, ClientOfScheduler, RRSafety

\* So a ready process is never overtaken and waits a bounded number of ticks,
\* whatever is typed and whoever reads.
THEOREM KbdReadFair == KbdReadSpec => NoOvertaking /\ BoundedWaiting /\ TurnHonoured
BY KbdReadClient, RRNoOvertaking, RRBoundedWaiting, RRTurnHonoured, PTL DEF ClientOfScheduler
-----------------------------------------------------------------------------
(* The buffer under the readers.                                           *)

\* A reader that is past its context switch asks the buffer for what it noted in
\* its task_struct, long before and copied by fork: never nothing, never more
\* than buffer_sys holds.
Readers ==
  /\ Placement
  /\ kbd_chars_needed \in [Task -> 0..BUFF_SIZE]
  /\ \A t \in in_read : kbd_chars_needed[t] # 0

LEMMA ToReadRange ==
  ASSUME NEW n \in 1..BUFF_SIZE + 1
  PROVE  ToRead(n) \in 1..BUFF_SIZE
BY KeyboardAssumption, MinPair DEF ToRead

LEMMA ReadersInit == KbdReadInit => Readers
BY PlacementInit, KeyboardAssumption DEF KbdReadInit, Readers

LEMMA ReadersStep ==
  ASSUME Readers, [KbdReadNext]_kbdReadVars
  PROVE  Readers' /\ [KeyboardNext]_kbdVars
<1>q. /\ kbd_chars_needed \in [Task -> 0..BUFF_SIZE]
      /\ \A t \in in_read : kbd_chars_needed[t] # 0
      /\ cur \in Task /\ in_read \subseteq live /\ live \subseteq Task
      /\ Placement /\ Placement'
  BY PlacementStep DEF Readers, Placement, RRSafe, RRTypeOK
<1>1. CASE ClockInterrupt \/ Exit
  <2>1. UNCHANGED <<kbdVars, kbd_chars_needed, in_read>>
    BY <1>1 DEF ClockInterrupt, Exit
  <2> QED
    BY <1>q, <2>1 DEF Readers
<1>2. ASSUME NEW c \in Char, KeyboardInterrupt(c)
      PROVE  Readers' /\ [KeyboardNext]_kbdVars
  <2>1. KbdBufWrite(c) /\ UNCHANGED <<kbd_chars_needed, in_read>>
    BY <1>2 DEF KeyboardInterrupt
  <2> QED
    BY <1>q, <2>1 DEF Readers, KeyboardNext
<1>3. CASE ReadFlush
  <2>1. KbdBufFlush /\ UNCHANGED <<kbd_chars_needed, in_read>>
    BY <1>3 DEF ReadFlush
  <2> QED
    BY <1>q, <2>1 DEF Readers, KeyboardNext
<1>4. ASSUME NEW n \in 1..BUFF_SIZE + 1, ReadNow(n)
      PROVE  Readers' /\ [KeyboardNext]_kbdVars
  <2>1. KbdBufRead(ToRead(n)) /\ UNCHANGED <<kbd_chars_needed, in_read>>
    BY <1>4 DEF ReadNow
  <2> QED
    BY <1>q, <2>1, ToReadRange DEF Readers, KeyboardNext
<1>5. ASSUME NEW n \in 1..BUFF_SIZE + 1, ReadBlock(n)
      PROVE  Readers' /\ [KeyboardNext]_kbdVars
  <2>1. /\ KbdBufRead(ToRead(n))
        /\ kbd_chars_needed' = [kbd_chars_needed EXCEPT ![cur] = ToRead(n)]
        /\ in_read' = in_read \cup {cur}
    BY <1>5 DEF ReadBlock
  <2>2. ToRead(n) \in 1..BUFF_SIZE /\ ToRead(n) \in 0..BUFF_SIZE /\ ToRead(n) # 0
    BY ToReadRange, KeyboardAssumption
  <2>3. KeyboardNext
    BY <2>1, <2>2 DEF KeyboardNext
  <2>4. /\ kbd_chars_needed' \in [Task -> 0..BUFF_SIZE]
        /\ \A t \in in_read' : kbd_chars_needed'[t] # 0
    BY <1>q, <2>1, <2>2
  <2> QED
    BY <1>q, <2>3, <2>4 DEF Readers
<1>6. CASE ReadFinish
  <2>1. /\ cur \in in_read /\ KbdBufRead(kbd_chars_needed[cur])
        /\ in_read' = in_read \ {cur} /\ UNCHANGED kbd_chars_needed
    BY <1>6 DEF ReadFinish
  <2>2. kbd_chars_needed[cur] \in 1..BUFF_SIZE
    BY <1>q, <2>1, KeyboardAssumption
  <2>3. KeyboardNext
    BY <2>1, <2>2 DEF KeyboardNext
  <2> QED
    BY <1>q, <2>1, <2>3 DEF Readers
<1>7. ASSUME NEW t \in Task, Fork(t)
      PROVE  Readers' /\ [KeyboardNext]_kbdVars
  <2>1. /\ t \notin live
        /\ kbd_chars_needed' = [kbd_chars_needed EXCEPT ![t] = kbd_chars_needed[cur]]
        /\ UNCHANGED <<kbdVars, in_read>>
    BY <1>7 DEF Fork
  <2>2. /\ kbd_chars_needed' \in [Task -> 0..BUFF_SIZE]
        /\ \A u \in in_read : kbd_chars_needed'[u] # 0
    BY <1>q, <2>1
  <2> QED
    BY <1>q, <2>1, <2>2 DEF Readers
<1>8. CASE UNCHANGED kbdReadVars
  BY <1>q, <1>8 DEF Readers, kbdReadVars
<1> QED
  BY <1>1, <1>2, <1>3, <1>4, <1>5, <1>6, <1>7, <1>8 DEF KbdReadNext

\* sys_read and the keyboard interrupt use the buffer as KeyboardNext says, so the
\* readers get a bounded FIFO of keys whose counters agree, whoever they are and
\* however their reads are cut by context switches.
THEOREM KbdReadBuffer == KbdReadSpec => ImplementsFifo /\ []CountMatchesPositions /\ []OnlyKeysWait
<1>1. Readers /\ [KbdReadNext]_kbdReadVars => Readers' /\ [KeyboardNext]_kbdVars
  BY ReadersStep
<1>2. KbdReadInit => KeyboardInit
  BY DEF KbdReadInit
<1> QED
  BY <1>1, <1>2, ReadersInit, KeyboardImplementsFifo, KeyboardCounts, KeyboardOnlyKeys, PTL
     DEF KbdReadSpec, KeyboardSpec

\* Queues, buffer and the fields of readers keep their types.
THEOREM KbdReadTypeCorrect == KbdReadSpec => []KbdReadTypeOK
<1> DEFINE Inv == Readers /\ KInv
<1>1. KbdReadInit => Inv
  BY ReadersInit, KInit DEF KbdReadInit
<1>2. Inv /\ [KbdReadNext]_kbdReadVars => Inv'
  BY ReadersStep, KStep
<1>3. Inv => KbdReadTypeOK
  <2> SUFFICES ASSUME Inv PROVE KbdReadTypeOK
    OBVIOUS
  <2>1. /\ kbd_blocked \in Seq(Task)
        /\ \A i \in 1..Len(kbd_blocked) : kbd_blocked[i] \in live
    BY DEF Readers, Placement, PlacedOnce, Range
  <2>2. kbd_blocked \in Seq(live)
    BY <2>1
  <2> QED
    BY <2>2 DEF Readers, Placement, RRSafe, KInv, KbdReadTypeOK
<1> QED
  BY <1>1, <1>2, <1>3, PTL DEF KbdReadSpec

-----------------------------------------------------------------------------
(* Sums over a finite set.  SumFunctionOnSet takes the elements in an order *)
(* that CHOOSE fixes; that the order does not matter is what is proved.    *)

LEMMA LeastNumber ==
  ASSUME NEW S \in SUBSET Nat, S # {}
  PROVE  \E n \in S : \A m \in S : ~ (m < n)
<1>1. PICK n \in S : \A m \in S : <<m, n>> \notin OpToRel(<, Nat)
  BY NatLessThanWellFounded, WFMin
<1>2. \A m \in Nat : m < n => <<m, n>> \in OpToRel(<, Nat)
  BY DEF OpToRel
<1> QED
  BY <1>1, <1>2

\* Among the sets of B there is one from which nothing can be taken away.
LEMMA SmallestSet ==
  ASSUME NEW S, IsFiniteSet(S), NEW B \in SUBSET SUBSET S, B # {}
  PROVE  \E s \in B : \A x \in s : s \ {x} \notin B
<1> DEFINE N == {Cardinality(s) : s \in B}
<1>1. \A s \in SUBSET S : IsFiniteSet(s) /\ Cardinality(s) \in Nat
  BY FS_Subset, FS_CardinalityType
<1>2. N \in SUBSET Nat /\ N # {}
  BY <1>1
<1>3. PICK n \in N : \A m \in N : ~ (m < n)
  BY <1>2, LeastNumber, Zenon
<1>5. PICK s \in B : Cardinality(s) = n
  BY <1>3
<1>6. ASSUME NEW x \in s, s \ {x} \in B
      PROVE  FALSE
  <2>1. Cardinality(s \ {x}) = n - 1 /\ n \in Nat
    BY <1>1, <1>5, FS_RemoveElement
  <2>2. Cardinality(s \ {x}) \in N
    BY <1>6
  <2> HIDE DEF N
  <2> QED
    BY <1>3, <2>1, <2>2
<1> QED
  BY <1>6

Some(s) == CHOOSE x \in s : TRUE

LEMMA SomeIn ==
  ASSUME NEW s, s # {}
  PROVE  Some(s) \in s
BY DEF Some

\* The recursion by which SumFunctionOnSet(f, S) is defined.
Summand(g, f, s) == IF s = {} THEN 0 ELSE f[Some(s)] + g[s \ {Some(s)}]
IsSum(g, f, S) == g = [s \in SUBSET S |-> Summand(g, f, s)]

\* It has a solution: one for the sets of up to n elements can be prolonged.
LEMMA SumExists ==
  ASSUME NEW S, IsFiniteSet(S), NEW f
  PROVE  \E g : IsSum(g, f, S)
<1> DEFINE UpTo(g, n) == \A s \in SUBSET S : Cardinality(s) <= n => g[s] = Summand(g, f, s)
           P(n) == \E g : UpTo(g, n)
           Bad == {n \in Nat : ~ P(n)}
<1>1. \A s \in SUBSET S : IsFiniteSet(s) /\ Cardinality(s) \in Nat
  BY FS_Subset, FS_CardinalityType
<1>2. P(0)
  <2> DEFINE g == [s \in SUBSET S |-> 0]
  <2>1. \A s \in SUBSET S : Cardinality(s) <= 0 => s = {}
    BY <1>1, FS_EmptySet
  <2>2. UpTo(g, 0)
    BY <2>1 DEF Summand
  <2> QED
    BY <2>2
<1>3. ASSUME NEW n \in Nat, P(n)
      PROVE  P(n + 1)
  <2>1. PICK g : UpTo(g, n)
    BY <1>3
  <2> DEFINE h == [s \in SUBSET S |-> IF Cardinality(s) <= n THEN g[s] ELSE Summand(g, f, s)]
  <2>2. ASSUME NEW s \in SUBSET S, Cardinality(s) <= n + 1
        PROVE  h[s] = Summand(h, f, s)
    <3>1. h[s] = Summand(g, f, s)
      BY <2>1
    <3>2. CASE s = {}
      BY <3>1, <3>2 DEF Summand
    <3>3. CASE s # {}
      <4>1. Some(s) \in s
        BY <3>3, SomeIn
      <4>2. s \ {Some(s)} \in SUBSET S /\ Cardinality(s \ {Some(s)}) = Cardinality(s) - 1
        BY <1>1, <4>1, FS_RemoveElement
      <4>3. Cardinality(s \ {Some(s)}) <= n
        BY <1>1, <2>2, <4>2
      <4>4. h[s \ {Some(s)}] = g[s \ {Some(s)}]
        BY <4>2, <4>3
      <4> HIDE DEF h
      <4> QED
        BY <3>1, <4>4 DEF Summand
    <3> QED
      BY <3>2, <3>3
  <2> HIDE DEF h
  <2>3. UpTo(h, n + 1)
    BY <2>2
  <2> QED
    BY <2>3
<1>4. Bad = {}
  <2> SUFFICES ASSUME Bad # {} PROVE FALSE
    OBVIOUS
  <2>0. Bad \in SUBSET Nat
    OBVIOUS
  <2>1. PICK n \in Bad : \A m \in Bad : ~ (m < n)
    BY <2>0, LeastNumber, Zenon
  <2>2. n \in Nat /\ ~ P(n)
    OBVIOUS
  <2>3. n # 0 /\ n - 1 \in Nat /\ n - 1 < n /\ n = (n - 1) + 1
    BY <1>2, <2>2
  <2>5. P(n - 1)
    BY <2>1, <2>3
  <2> HIDE DEF P
  <2> QED
    BY <1>3, <2>2, <2>3, <2>5
<1>5. PICK g : UpTo(g, Cardinality(S))
  BY <1>4, <1>1
<1> DEFINE h == [s \in SUBSET S |-> g[s]]
<1>6. ASSUME NEW s \in SUBSET S
      PROVE  h[s] = Summand(h, f, s)
  <2>1. g[s] = Summand(g, f, s)
    BY <1>5, <1>1, FS_Subset
  <2>2. s # {} => s \ {Some(s)} \in SUBSET S
    OBVIOUS
  <2> QED
    BY <2>1, <2>2 DEF Summand
<1>7. h = [s \in SUBSET S |-> h[s]]
  OBVIOUS
<1> HIDE DEF h
<1> QED
  BY <1>6, <1>7 DEF IsSum

LEMMA SumDefined ==
  ASSUME NEW S, IsFiniteSet(S), NEW f
  PROVE  \E g : IsSum(g, f, S) /\ SumFunctionOnSet(f, S) = g[S]
<1> DEFINE Q(g) == IsSum(g, f, S)
<1>1. SumFunctionOnSet(f, S) = (CHOOSE g : Q(g))[S]
  BY Zenon DEF SumFunctionOnSet, FoldFunctionOnSet, MapThenFoldSet, IsSum, Summand, Some
<1>2. \E g : Q(g)
  BY SumExists
<1> HIDE DEF Q
<1>3. Q(CHOOSE g : Q(g))
  BY <1>2, Zenon
<1> QED
  BY <1>1, <1>3, Zenon DEF Q

\* It has one solution: the sum over a subset is the same in a larger set.
LEMMA SumUnique ==
  ASSUME NEW S, IsFiniteSet(S), NEW T \in SUBSET S, NEW f, NEW g, NEW h,
         IsSum(g, f, S), IsSum(h, f, T)
  PROVE  \A s \in SUBSET T : g[s] = h[s]
<1> DEFINE B == {s \in SUBSET T : g[s] # h[s]}
<1>1. SUFFICES ASSUME B # {} PROVE FALSE
  OBVIOUS
<1>2. IsFiniteSet(T)
  BY FS_Subset
<1>3. PICK s \in B : \A x \in s : s \ {x} \notin B
  BY <1>1, <1>2, SmallestSet, Zenon
<1>4. /\ g[s] = Summand(g, f, s)
      /\ h[s] = Summand(h, f, s)
  BY DEF IsSum
<1>5. CASE s = {}
  BY <1>4, <1>5 DEF Summand
<1>6. CASE s # {}
  <2>1. Some(s) \in s
    BY <1>6, SomeIn
  <2>2. g[s \ {Some(s)}] = h[s \ {Some(s)}]
    BY <1>3, <2>1
  <2> QED
    BY <1>4, <1>6, <2>2 DEF Summand
<1> QED
  BY <1>5, <1>6

LEMMA SumOfNone ==
  ASSUME NEW f
  PROVE  SumFunctionOnSet(f, {}) = 0
<1>1. PICK g : IsSum(g, f, {}) /\ SumFunctionOnSet(f, {}) = g[{}]
  BY SumDefined, FS_EmptySet
<1> QED
  BY <1>1 DEF IsSum, Summand

LEMMA SumOfSome ==
  ASSUME NEW S, IsFiniteSet(S), S # {}, NEW f
  PROVE  SumFunctionOnSet(f, S) = f[Some(S)] + SumFunctionOnSet(f, S \ {Some(S)})
<1> DEFINE T == S \ {Some(S)}
<1>1. PICK g : IsSum(g, f, S) /\ SumFunctionOnSet(f, S) = g[S]
  BY SumDefined
<1>2. IsFiniteSet(T) /\ T \in SUBSET S
  BY FS_Subset
<1>3. PICK h : IsSum(h, f, T) /\ SumFunctionOnSet(f, T) = h[T]
  BY <1>2, SumDefined
<1>4. g[T] = h[T]
  BY <1>1, <1>2, <1>3, SumUnique
<1>5. g[S] = f[Some(S)] + g[T]
  BY <1>1 DEF IsSum, Summand
<1> QED
  BY <1>1, <1>3, <1>4, <1>5

LEMMA SumIsNat ==
  ASSUME NEW S, IsFiniteSet(S), NEW f, \A x \in S : f[x] \in Nat
  PROVE  \A s \in SUBSET S : SumFunctionOnSet(f, s) \in Nat
<1> DEFINE B == {s \in SUBSET S : SumFunctionOnSet(f, s) \notin Nat}
<1>1. SUFFICES ASSUME B # {} PROVE FALSE
  OBVIOUS
<1>2. PICK s \in B : \A x \in s : s \ {x} \notin B
  BY <1>1, SmallestSet, Zenon
<1>3. s # {}
  BY SumOfNone
<1>4. IsFiniteSet(s) /\ Some(s) \in s
  BY <1>3, SomeIn, FS_Subset
<1>5. SumFunctionOnSet(f, s \ {Some(s)}) \in Nat
  BY <1>2, <1>4
<1>6. SumFunctionOnSet(f, s) = f[Some(s)] + SumFunctionOnSet(f, s \ {Some(s)})
  BY <1>3, <1>4, SumOfSome
<1> QED
  BY <1>4, <1>5, <1>6

\* Whichever element is taken out first.
LEMMA SumTakeOut ==
  ASSUME NEW S, IsFiniteSet(S), NEW f, \A x \in S : f[x] \in Nat
  PROVE  \A s \in SUBSET S : \A x \in s :
           SumFunctionOnSet(f, s) = f[x] + SumFunctionOnSet(f, s \ {x})
<1> DEFINE Sum(s) == SumFunctionOnSet(f, s)
           B == {s \in SUBSET S : \E x \in s : Sum(s) # f[x] + Sum(s \ {x})}
<1>1. SUFFICES ASSUME B # {} PROVE FALSE
  OBVIOUS
<1>2. PICK s \in B : \A x \in s : s \ {x} \notin B
  BY <1>1, SmallestSet, Zenon
<1>3. PICK x \in s : Sum(s) # f[x] + Sum(s \ {x})
  BY Zenon
<1> DEFINE p == Some(s)
<1>4. p \in s /\ IsFiniteSet(s) /\ Sum(s) = f[p] + Sum(s \ {p})
  BY SomeIn, FS_Subset, SumOfSome
<1>5. p # x
  BY <1>3, <1>4
<1>6. /\ Sum(s \ {p}) = f[x] + Sum((s \ {p}) \ {x})
      /\ Sum(s \ {x}) = f[p] + Sum((s \ {x}) \ {p})
  BY <1>2, <1>4, <1>5
<1>7. (s \ {p}) \ {x} = (s \ {x}) \ {p}
  OBVIOUS
<1>8. f[x] \in Nat /\ f[p] \in Nat /\ Sum((s \ {x}) \ {p}) \in Nat
  BY <1>4, SumIsNat
<1> HIDE DEF Sum, p
<1> QED
  BY <1>3, <1>4, <1>6, <1>7, <1>8

\* Only the values in the set matter.
LEMMA SumSame ==
  ASSUME NEW S, IsFiniteSet(S), NEW f, NEW g, \A x \in S : f[x] = g[x]
  PROVE  SumFunctionOnSet(f, S) = SumFunctionOnSet(g, S)
<1> DEFINE B == {s \in SUBSET S : SumFunctionOnSet(f, s) # SumFunctionOnSet(g, s)}
<1>1. SUFFICES ASSUME B # {} PROVE FALSE
  OBVIOUS
<1>2. PICK s \in B : \A x \in s : s \ {x} \notin B
  BY <1>1, SmallestSet, Zenon
<1>3. s # {}
  BY SumOfNone
<1>4. IsFiniteSet(s) /\ Some(s) \in s
  BY <1>3, SomeIn, FS_Subset
<1>5. SumFunctionOnSet(f, s \ {Some(s)}) = SumFunctionOnSet(g, s \ {Some(s)})
  BY <1>2, <1>4
<1>6. /\ SumFunctionOnSet(f, s) = f[Some(s)] + SumFunctionOnSet(f, s \ {Some(s)})
      /\ SumFunctionOnSet(g, s) = g[Some(s)] + SumFunctionOnSet(g, s \ {Some(s)})
  BY <1>3, <1>4, SumOfSome
<1> QED
  BY <1>4, <1>5, <1>6

-----------------------------------------------------------------------------
(* No wake-up is lost.                                                     *)

\* What the readers that were woken wait for, together.
Promised == SumFunctionOnSet(kbd_chars_needed, Woken)

\* Live processes are counted one by one, so there are finitely many readers.
Wakeups ==
  /\ Readers
  /\ KInv
  /\ IsFiniteSet(live)
  /\ NoLostWakeup

Claims ==
  /\ \A t \in in_read : kbd_chars_needed[t] \in Nat \ {0}
  /\ kbd_blocked # << >> => Head(kbd_blocked) \in in_read
  /\ IsFiniteSet(in_read)
  /\ Promised \in Nat
  /\ \A t \in Woken : Promised = kbd_chars_needed[t]
                        + SumFunctionOnSet(kbd_chars_needed, Woken \ {t})

LEMMA ClaimsHold == Readers /\ IsFiniteSet(live) => Claims
<1> SUFFICES ASSUME Readers, IsFiniteSet(live) PROVE Claims
  OBVIOUS
<1>1. \A t \in in_read : kbd_chars_needed[t] \in Nat \ {0}
  BY KeyboardAssumption DEF Readers, Placement
<1>2. kbd_blocked # << >> => Head(kbd_blocked) \in in_read
  BY HeadTailProperties DEF Readers, Placement, PlacedOnce, Range
<1>3. IsFiniteSet(in_read) /\ Woken \in SUBSET in_read
  BY FS_Subset DEF Readers, Placement, Woken
<1> QED
  BY <1>1, <1>2, <1>3, SumIsNat, SumTakeOut DEF Claims, Promised

LEMMA WakeupsInit == KbdReadInit => Wakeups
BY ReadersInit, KInit, FS_Singleton DEF KbdReadInit, Wakeups, NoLostWakeup

\* The interrupt looks at one reader per key: one that stays blocked lacks keys
\* still, and the keys of one that is woken are promised to it.
LEMMA KeyWakes ==
  ASSUME Wakeups, Readers', IsFiniteSet(live'), NEW c \in Char, KeyboardInterrupt(c)
  PROVE  NoLostWakeup'
<1>0. Readers /\ IsFiniteSet(live) /\ NoLostWakeup /\ KInv
  BY DEF Wakeups
<1>c. Claims /\ Claims'
  <2>1. Readers' /\ IsFiniteSet(live)' => Claims'
    BY ClaimsHold, PTL
  <2> QED
    BY <1>0, <2>1, ClaimsHold
<1>1. kbd_count \in Nat /\ KEYBOARD_BUF_SIZE \in Nat /\ Promised \in Nat /\ Promised' \in Nat
  BY <1>0, <1>c, KeyboardAssumption DEF Claims, KInv, KeyboardTypeOK
<1>2. UNCHANGED <<kbd_chars_needed, in_read>>
  BY DEF KeyboardInterrupt
<1>3. kbd_blocked # << >> => kbd_count < kbd_chars_needed[Head(kbd_blocked)] + Promised
  BY <1>0 DEF NoLostWakeup, Promised
<1>4. CASE kbd_count' = kbd_count /\ UNCHANGED kbd_blocked
  BY <1>0, <1>2, <1>4 DEF NoLostWakeup, Woken
<1>5. CASE kbd_count' = kbd_count + 1 /\ WakeReader
  <2>1. CASE /\ kbd_blocked # << >>
             /\ MakeReady(Head(kbd_blocked))
             /\ kbd_blocked' = Tail(kbd_blocked)
    <3> DEFINE t == Head(kbd_blocked)
    <3>1. /\ Range(kbd_blocked) = Range(kbd_blocked') \cup {t}
          /\ t \notin Range(kbd_blocked')
          /\ t \in in_read
      BY <1>0, <1>c, <2>1, TakeFirst DEF Claims, Readers, Placement, PlacedOnce
    <3>2. t \in Woken' /\ Woken' \ {t} = Woken
      BY <3>1, <1>2 DEF Woken
    <3>3. Promised' = kbd_chars_needed'[t] + SumFunctionOnSet(kbd_chars_needed', Woken' \ {t})
      BY <3>2, <1>c DEF Claims
    <3>4. Promised' = kbd_chars_needed[t] + Promised
      BY <3>2, <3>3, <1>2 DEF Promised
    <3>5. kbd_chars_needed[t] \in Nat
      BY <1>c, <3>1 DEF Claims
    <3>6. kbd_blocked' # << >> => kbd_chars_needed'[Head(kbd_blocked')] \in Nat \ {0}
      BY <1>c DEF Claims
    <3>7. kbd_count < kbd_chars_needed[t] + Promised
      BY <2>1, <1>3
    <3>8. kbd_blocked' # << >> => kbd_count' < kbd_chars_needed'[Head(kbd_blocked')] + Promised'
      <4> HIDE DEF t
      <4> QED
        BY <1>1, <1>5, <3>4, <3>5, <3>6, <3>7
    <3> QED
      BY <3>8 DEF NoLostWakeup, Promised
  <2>2. CASE /\ ~ (kbd_blocked # << >> /\ kbd_count' >= kbd_chars_needed[Head(kbd_blocked)])
             /\ UNCHANGED kbd_blocked
    <3>1. kbd_blocked # << >> => kbd_chars_needed[Head(kbd_blocked)] \in Nat
      BY <1>c DEF Claims
    <3>2. kbd_blocked # << >> => kbd_count' < kbd_chars_needed[Head(kbd_blocked)] + Promised'
      BY <1>1, <1>5, <2>2, <3>1
    <3> QED
      BY <1>2, <2>2, <3>2 DEF NoLostWakeup, Promised
  <2> QED
    BY <1>5, <2>1, <2>2 DEF WakeReader
<1>6. CASE kbd_count >= KEYBOARD_BUF_SIZE
  <2>1. UNCHANGED kbdVars /\ UNCHANGED kbd_blocked
    BY <1>1, <1>6 DEF KeyboardInterrupt, KbdBufWrite
  <2> QED
    BY <1>4, <2>1 DEF kbdVars
<1>7. CASE kbd_count < KEYBOARD_BUF_SIZE
  BY <1>1, <1>5, <1>7 DEF KeyboardInterrupt, KbdBufWrite
<1> QED
  BY <1>1, <1>6, <1>7

LEMMA WakeupsStep ==
  ASSUME Wakeups, [KbdReadNext]_kbdReadVars
  PROVE  Wakeups'
<1>q. /\ Readers /\ KInv /\ IsFiniteSet(live) /\ NoLostWakeup
      /\ Readers' /\ KInv'
  BY ReadersStep, KStep DEF Wakeups
<1>f. IsFiniteSet(live)'
  <2>1. ASSUME NEW t \in Task, Fork(t)
        PROVE  IsFiniteSet(live')
    BY <1>q, <2>1, FS_AddElement DEF Fork
  <2>2. CASE live' \subseteq live
    BY <1>q, <2>2, FS_Subset
  <2>3. [KbdReadNext]_kbdReadVars => live' \subseteq live \/ \E t \in Task : Fork(t)
    BY DEF KbdReadNext, kbdReadVars, ClockInterrupt, KeyboardInterrupt, ReadFlush,
           ReadNow, ReadBlock, ReadFinish, Exit
  <2> QED
    BY <2>1, <2>2, <2>3
<1>c. Claims /\ Claims'
  <2>1. Readers' /\ IsFiniteSet(live)' => Claims'
    BY ClaimsHold, PTL
  <2> QED
    BY <1>q, <1>f, <2>1, ClaimsHold
<1>n. /\ kbd_count \in Nat /\ kbd_count' \in Nat
      /\ Promised \in Nat /\ Promised' \in Nat
      /\ kbd_blocked' # << >> => kbd_chars_needed'[Head(kbd_blocked')] \in Nat \ {0}
      /\ kbd_blocked # << >> => kbd_count < kbd_chars_needed[Head(kbd_blocked)] + Promised
  BY <1>q, <1>c DEF KInv, KeyboardTypeOK, Claims, NoLostWakeup, Promised
<1>g. SUFFICES NoLostWakeup'
  BY <1>q, <1>f DEF Wakeups
<1>1. ASSUME UNCHANGED <<kbd_blocked, kbd_chars_needed, in_read>>, kbd_count' <= kbd_count
      PROVE  NoLostWakeup'
  <2>1. Promised' = Promised
    BY <1>1 DEF Promised, Woken
  <2>2. kbd_blocked # << >> => kbd_chars_needed[Head(kbd_blocked)] \in Nat
    BY <1>c DEF Claims
  <2>3. kbd_blocked # << >> => kbd_count' < kbd_chars_needed[Head(kbd_blocked)] + Promised
    BY <1>n, <1>1, <2>2
  <2> QED
    BY <1>1, <2>1, <2>3 DEF NoLostWakeup, Promised
<1>2. CASE ClockInterrupt \/ Exit \/ UNCHANGED kbdReadVars
  <2>1. UNCHANGED <<kbd_blocked, kbd_chars_needed, in_read>> /\ kbd_count' = kbd_count
    BY <1>2 DEF ClockInterrupt, Exit, kbdReadVars, kbdVars
  <2> QED
    BY <1>1, <1>n, <2>1
<1>3. CASE ReadFlush
  <2>1. UNCHANGED <<kbd_blocked, kbd_chars_needed, in_read>> /\ kbd_count' = 0
    BY <1>3 DEF ReadFlush, KbdBufFlush
  <2> QED
    BY <1>1, <1>n, <2>1
<1>r. ASSUME NEW n \in Nat, KbdBufRead(n)
      PROVE  kbd_count' = (IF n <= kbd_count THEN kbd_count - n ELSE 0)
  BY <1>r, <1>n, MinPair DEF KbdBufRead
<1>4. ASSUME NEW n \in 1..BUFF_SIZE + 1, ReadNow(n)
      PROVE  NoLostWakeup'
  <2>1. UNCHANGED <<kbd_blocked, kbd_chars_needed, in_read>> /\ KbdBufRead(ToRead(n))
    BY <1>4 DEF ReadNow
  <2>2. kbd_count' <= kbd_count
    BY <1>n, <1>r, <2>1, ToReadRange, KeyboardAssumption
  <2> QED
    BY <1>1, <2>1, <2>2
<1>5. ASSUME NEW n \in 1..BUFF_SIZE + 1, ReadBlock(n)
      PROVE  NoLostWakeup'
  <2>1. kbd_count = 0 /\ KbdBufRead(ToRead(n))
    BY <1>5 DEF ReadBlock
  <2>2. kbd_count' = 0
    BY <1>n, <1>r, <2>1, ToReadRange, KeyboardAssumption
  <2>3. kbd_blocked' # << >> => kbd_count' < kbd_chars_needed'[Head(kbd_blocked')] + Promised'
    BY <1>n, <2>2
  <2> QED
    BY <2>3 DEF NoLostWakeup, Promised
<1>6. CASE ReadFinish
  <2>1. /\ cur \in in_read /\ in_read' = in_read \ {cur}
        /\ UNCHANGED <<kbd_blocked, kbd_chars_needed>>
        /\ KbdBufRead(kbd_chars_needed[cur])
    BY <1>6 DEF ReadFinish
  <2>2. cur \in Woken /\ Woken' = Woken \ {cur}
    BY <1>q, <2>1 DEF Woken, Readers, Placement, PlacedOnce
  <2>3. Promised = kbd_chars_needed[cur] + Promised'
    BY <1>c, <2>1, <2>2 DEF Claims, Promised
  <2>4. kbd_chars_needed[cur] \in Nat
    BY <1>c, <2>1 DEF Claims
  <2>5. kbd_count' = IF kbd_chars_needed[cur] <= kbd_count
                     THEN kbd_count - kbd_chars_needed[cur] ELSE 0
    BY <1>r, <2>1, <2>4
  <2>6. kbd_blocked' # << >> => kbd_count' < kbd_chars_needed'[Head(kbd_blocked')] + Promised'
    BY <1>n, <2>1, <2>3, <2>4, <2>5
  <2> QED
    BY <2>6 DEF NoLostWakeup, Promised
<1>7. ASSUME NEW t \in Task, Fork(t)
      PROVE  NoLostWakeup'
  <2>1. /\ t \notin live
        /\ kbd_chars_needed' = [kbd_chars_needed EXCEPT ![t] = kbd_chars_needed[cur]]
        /\ UNCHANGED <<kbdVars, kbd_blocked, in_read>>
    BY <1>7 DEF Fork
  <2>2. \A u \in in_read : kbd_chars_needed'[u] = kbd_chars_needed[u]
    BY <1>q, <2>1 DEF Readers, Placement
  <2>3. Woken' = Woken /\ IsFiniteSet(Woken) /\ \A u \in Woken : u \in in_read
    BY <1>c, <2>1, FS_Subset DEF Woken, Claims
  <2>4. \A u \in Woken : kbd_chars_needed'[u] = kbd_chars_needed[u]
    BY <2>2, <2>3
  <2>5. SumFunctionOnSet(kbd_chars_needed', Woken) = SumFunctionOnSet(kbd_chars_needed, Woken)
    BY <2>3, <2>4, SumSame
  <2>6. kbd_blocked # << >> => kbd_chars_needed'[Head(kbd_blocked)] = kbd_chars_needed[Head(kbd_blocked)]
    BY <1>c, <2>2 DEF Claims
  <2> QED
    BY <1>n, <2>1, <2>3, <2>5, <2>6 DEF NoLostWakeup, Promised, kbdVars
<1>8. ASSUME NEW c \in Char, KeyboardInterrupt(c)
      PROVE  NoLostWakeup'
  BY <1>8, <1>q, <1>f, KeyWakes
<1> QED
  BY <1>2, <1>3, <1>4, <1>5, <1>6, <1>7, <1>8 DEF KbdReadNext

\* No wake-up is lost: what the first blocked reader lacks is only what others were
\* woken for.
THEOREM KbdReadNoLostWakeup == KbdReadSpec => []NoLostWakeup
<1>1. Wakeups /\ [KbdReadNext]_kbdReadVars => Wakeups'
  BY WakeupsStep
<1>2. Wakeups => NoLostWakeup
  BY DEF Wakeups
<1> QED
  BY <1>1, <1>2, WakeupsInit, PTL DEF KbdReadSpec

-----------------------------------------------------------------------------
(* Readers in order: the CPU, the ready queue and kbd_blocked are one line. *)

\* t stands before u in q.
Precedes(q, t, u) == \E i, j \in 1..Len(q) : i < j /\ q[i] = t /\ q[j] = u

LEMMA JoinedOrder ==
  ASSUME NEW S, NEW a \in Seq(S), NEW b \in Seq(S)
  PROVE  /\ a \o b \in Seq(S)
         /\ Range(a \o b) = Range(a) \cup Range(b)
         /\ \A t, u : Precedes(a \o b, t, u) <=>
              Precedes(a, t, u) \/ Precedes(b, t, u) \/ (t \in Range(a) /\ u \in Range(b))
<1>1. /\ a \o b \in Seq(S)
      /\ Len(a \o b) = Len(a) + Len(b)
      /\ \A i \in 1..Len(a) + Len(b) :
           (a \o b)[i] = IF i <= Len(a) THEN a[i] ELSE b[i - Len(a)]
  BY ConcatProperties
<1>2. /\ Len(a) \in Nat /\ Len(b) \in Nat
      /\ DOMAIN a = 1..Len(a) /\ DOMAIN b = 1..Len(b)
      /\ DOMAIN (a \o b) = 1..(Len(a) + Len(b))
  BY <1>1, LenProperties
<1>3. /\ \A i \in 1..Len(a) : i \in 1..Len(a) + Len(b) /\ (a \o b)[i] = a[i]
      /\ \A i \in 1..Len(b) : /\ i + Len(a) \in 1..Len(a) + Len(b)
                              /\ (a \o b)[i + Len(a)] = b[i]
      /\ \A i \in 1..Len(a) + Len(b) :
           i \in 1..Len(a) \/ (i - Len(a) \in 1..Len(b) /\ i = (i - Len(a)) + Len(a))
  BY <1>1, <1>2
<1>4. Range(a \o b) = Range(a) \cup Range(b)
  <2>1. \A i \in 1..Len(a) + Len(b) : (a \o b)[i] \in Range(a) \cup Range(b)
    BY <1>2, <1>3 DEF Range
  <2>2. \A i \in 1..Len(a) : a[i] \in Range(a \o b)
    BY <1>2, <1>3 DEF Range
  <2>3. \A i \in 1..Len(b) : b[i] \in Range(a \o b)
    <3> SUFFICES ASSUME NEW i \in 1..Len(b) PROVE b[i] \in Range(a \o b)
      OBVIOUS
    <3>1. i + Len(a) \in DOMAIN (a \o b) /\ (a \o b)[i + Len(a)] = b[i]
      BY <1>2, <1>3
    <3> QED
      BY <3>1 DEF Range
  <2> QED
    BY <1>2, <2>1, <2>2, <2>3 DEF Range
<1>5. ASSUME NEW t, NEW u, Precedes(a \o b, t, u)
      PROVE  Precedes(a, t, u) \/ Precedes(b, t, u) \/ (t \in Range(a) /\ u \in Range(b))
  <2>1. PICK i, j \in 1..Len(a) + Len(b) : i < j /\ (a \o b)[i] = t /\ (a \o b)[j] = u
    BY <1>1, <1>5 DEF Precedes
  <2>2. CASE j \in 1..Len(a)
    BY <1>2, <1>3, <2>1, <2>2 DEF Precedes
  <2>3. CASE i \in 1..Len(a) /\ j - Len(a) \in 1..Len(b)
    <3>1. t = a[i] /\ u = b[j - Len(a)]
      BY <1>2, <1>3, <2>1, <2>3
    <3> QED
      BY <1>2, <2>3, <3>1 DEF Range
  <2>4. CASE i - Len(a) \in 1..Len(b) /\ j - Len(a) \in 1..Len(b)
    <3>1. t = b[i - Len(a)] /\ u = b[j - Len(a)] /\ i - Len(a) < j - Len(a)
      BY <1>2, <1>3, <2>1, <2>4
    <3> QED
      BY <2>4, <3>1 DEF Precedes
  <2> QED
    BY <1>2, <1>3, <2>1, <2>2, <2>3, <2>4
<1>6. ASSUME NEW t, NEW u,
             Precedes(a, t, u) \/ Precedes(b, t, u) \/ (t \in Range(a) /\ u \in Range(b))
      PROVE  Precedes(a \o b, t, u)
  <2>1. CASE Precedes(a, t, u)
    BY <1>1, <1>2, <1>3, <2>1 DEF Precedes
  <2>2. CASE Precedes(b, t, u)
    <3>1. PICK i, j \in 1..Len(b) : i < j /\ b[i] = t /\ b[j] = u
      BY <2>2 DEF Precedes
    <3>2. /\ i + Len(a) \in 1..Len(a \o b) /\ j + Len(a) \in 1..Len(a \o b)
          /\ i + Len(a) < j + Len(a)
          /\ (a \o b)[i + Len(a)] = t /\ (a \o b)[j + Len(a)] = u
      BY <1>1, <1>2, <1>3, <3>1
    <3> QED
      BY <3>2 DEF Precedes
  <2>3. CASE t \in Range(a) /\ u \in Range(b)
    <3>1. PICK i \in 1..Len(a), j \in 1..Len(b) : a[i] = t /\ b[j] = u
      BY <1>2, <2>3 DEF Range
    <3>2. /\ i \in 1..Len(a \o b) /\ j + Len(a) \in 1..Len(a \o b)
          /\ i < j + Len(a)
          /\ (a \o b)[i] = t /\ (a \o b)[j + Len(a)] = u
      BY <1>1, <1>2, <1>3, <3>1
    <3> QED
      BY <3>2 DEF Precedes
  <2> QED
    BY <1>6, <2>1, <2>2, <2>3
<1> QED
  BY <1>1, <1>4, <1>5, <1>6

LEMMA OneInLine ==
  ASSUME NEW S, NEW x \in S
  PROVE  /\ <<x>> \in Seq(S)
         /\ Range(<<x>>) = {x}
         /\ \A t, u : ~ Precedes(<<x>>, t, u)
<1>1. <<x>> \in Seq(S) /\ Len(<<x>>) = 1 /\ DOMAIN <<x>> = 1..1 /\ <<x>>[1] = x
  OBVIOUS
<1> QED
  BY <1>1 DEF Range, Precedes

\* list_add_tail, and list_first with list_del.
LEMMA AppendedOrder ==
  ASSUME NEW S, NEW q \in Seq(S), NEW x \in S
  PROVE  \A t, u : Precedes(Append(q, x), t, u) <=>
                     Precedes(q, t, u) \/ (t \in Range(q) /\ u = x)
<1>1. Append(q, x) = q \o <<x>>
  BY AppendIsConcat
<1>2. /\ <<x>> \in Seq(S)
      /\ Range(<<x>>) = {x}
      /\ \A t, u : ~ Precedes(<<x>>, t, u)
  BY OneInLine, Zenon
<1>3. \A t, u : Precedes(q \o <<x>>, t, u) <=>
        Precedes(q, t, u) \/ Precedes(<<x>>, t, u) \/ (t \in Range(q) /\ u \in Range(<<x>>))
  BY <1>2, JoinedOrder, Zenon
<1> QED
  BY <1>1, <1>2, <1>3, Zenon

LEMMA TakenOrder ==
  ASSUME NEW S, NEW q \in Seq(S), q # << >>
  PROVE  \A t, u : Precedes(q, t, u) <=>
                     Precedes(Tail(q), t, u) \/ (t = Head(q) /\ u \in Range(Tail(q)))
<1>1. Head(q) \in S /\ Tail(q) \in Seq(S) /\ q = <<Head(q)>> \o Tail(q)
  BY HeadTailProperties
<1> DEFINE x == Head(q)
           r == Tail(q)
<1>2. /\ <<x>> \in Seq(S)
      /\ Range(<<x>>) = {x}
      /\ \A t, u : ~ Precedes(<<x>>, t, u)
  BY <1>1, OneInLine, Zenon
<1>3. \A t, u : Precedes(<<x>> \o r, t, u) <=>
        Precedes(<<x>>, t, u) \/ Precedes(r, t, u) \/ (t \in Range(<<x>>) /\ u \in Range(r))
  BY <1>1, <1>2, JoinedOrder, Zenon
<1> QED
  BY <1>1, <1>2, <1>3, Zenon

\* Who is before whom in the line of the three.
InLine(t, u) ==
  \/ t = cur /\ u \in Queued \cup Range(kbd_blocked)
  \/ Precedes(readyqueue, t, u)
  \/ t \in Queued /\ u \in Range(kbd_blocked)
  \/ Precedes(kbd_blocked, t, u)

OneLine ==
  \A t, u \in Task : ReadsBefore(t, u) <=> {t, u} \subseteq in_read /\ InLine(t, u)

LEMMA LineOrder == Placement => OneLine
<1> SUFFICES ASSUME Placement, NEW t \in Task, NEW u \in Task
             PROVE  ReadsBefore(t, u) <=> {t, u} \subseteq in_read /\ InLine(t, u)
  BY DEF OneLine
<1>1. cur \in Task /\ readyqueue \in Seq(Task) /\ kbd_blocked \in Seq(Task)
  BY DEF Placement, RRSafe, RRTypeOK
<1>2. /\ <<cur>> \in Seq(Task)
      /\ Range(<<cur>>) = {cur}
      /\ ~ Precedes(<<cur>>, t, u)
  BY <1>1, OneInLine, Zenon
<1> DEFINE a == <<cur>> \o readyqueue
<1>3. /\ a \in Seq(Task)
      /\ Range(a) = Range(<<cur>>) \cup Range(readyqueue)
      /\ Precedes(a, t, u) <=>
           \/ Precedes(<<cur>>, t, u) \/ Precedes(readyqueue, t, u)
           \/ (t \in Range(<<cur>>) /\ u \in Range(readyqueue))
  BY <1>1, <1>2, JoinedOrder, Zenon
<1>4. Precedes(a \o kbd_blocked, t, u) <=>
        \/ Precedes(a, t, u) \/ Precedes(kbd_blocked, t, u)
        \/ (t \in Range(a) /\ u \in Range(kbd_blocked))
  <2> HIDE DEF a
  <2> QED
    BY <1>1, <1>3, JoinedOrder, Zenon
<1>5. ReadsBefore(t, u) <=> {t, u} \subseteq in_read /\ Precedes(a \o kbd_blocked, t, u)
  BY DEF ReadsBefore, Precedes
<1> HIDE DEF a
<1>6. Precedes(a \o kbd_blocked, t, u) <=> InLine(t, u)
  BY <1>2, <1>3, <1>4 DEF InLine, Queued
<1> QED
  BY <1>5, <1>6

\* sched_next_rr moves the line up.
LEMMA LineMovesUp ==
  ASSUME NEW rq \in Seq(Task), SchedNext(rq)
  PROVE  /\ Range(rq) \subseteq Queued' \cup {cur'}
         /\ \A t, u : Precedes(rq, t, u) =>
              Precedes(readyqueue', t, u) \/ (t = cur' /\ u \in Queued')
<1>1. CASE rq = << >>
  <2>1. Len(rq) = 0 /\ DOMAIN rq = 1..0
    BY <1>1, EmptySeq, LenProperties
  <2> QED
    BY <2>1 DEF Range, Precedes
<1>2. CASE rq # << >>
  <2>1. cur' = Head(rq) /\ readyqueue' = Tail(rq)
    BY <1>2 DEF SchedNext
  <2>2. /\ Tail(rq) \in Seq(Task) /\ Len(Tail(rq)) = Len(rq) - 1
        /\ \A i \in 1..Len(Tail(rq)) : Tail(rq)[i] = rq[i + 1]
        /\ Head(rq) = rq[1] /\ Len(rq) \in Nat
    BY <1>2, HeadTailProperties, LenProperties
  <2>3. \A i \in 1..Len(rq) : i = 1 \/ (i - 1 \in 1..Len(Tail(rq)) /\ rq[i] = Tail(rq)[i - 1])
    BY <2>2
  <2>4. \A i \in 1..Len(rq) : rq[i] \in Range(Tail(rq)) \cup {Head(rq)}
    BY <2>2, <2>3, LenProperties DEF Range
  <2>5. Range(rq) \subseteq Queued' \cup {cur'}
    BY <2>1, <2>4, LenProperties DEF Range, Queued
  <2>6. \A t, u : Precedes(rq, t, u) =>
          Precedes(Tail(rq), t, u) \/ (t = Head(rq) /\ u \in Range(Tail(rq)))
    BY <1>2, TakenOrder, Zenon
  <2> QED
    BY <2>1, <2>5, <2>6 DEF Queued
<1> QED
  BY <1>1, <1>2

LEMMA OrderStep ==
  ASSUME Placement, [KbdReadNext]_kbdReadVars, NEW t \in Task, NEW u \in Task, ReadsBefore(t, u)
  PROVE  ReadsBefore(t, u)' \/ t \notin in_read'
<1>q. /\ readyqueue \in Seq(Task) /\ IsInjective(readyqueue)
      /\ cur \in Task /\ cur \notin Range(readyqueue)
      /\ kbd_blocked \in Seq(Task) /\ IsInjective(kbd_blocked)
      /\ cur \notin Range(kbd_blocked)
      /\ in_read \subseteq live
  BY DEF Placement, RRSafe, RRTypeOK, OnePlace, PlacedOnce, Queued
<1>p. /\ {t, u} \subseteq in_read /\ InLine(t, u)
      /\ ({t, u} \subseteq in_read' /\ InLine(t, u)' => ReadsBefore(t, u)')
  <2>1. Placement' => OneLine'
    BY LineOrder, PTL
  <2>2. Placement'
    BY PlacementStep
  <2> QED
    BY <2>1, <2>2, LineOrder DEF OneLine
<1>r. \A x \in Task : \A a, b : Precedes(Append(readyqueue, x), a, b) <=>
        Precedes(readyqueue, a, b) \/ (a \in Range(readyqueue) /\ b = x)
  BY <1>q, AppendedOrder, Zenon
<1>s. u # cur
  <2>1. \A a, b : Precedes(readyqueue, a, b) => b \in Range(readyqueue)
    BY <1>q, LenProperties DEF Precedes, Range
  <2>2. \A a, b : Precedes(kbd_blocked, a, b) => b \in Range(kbd_blocked)
    BY <1>q, LenProperties DEF Precedes, Range
  <2> QED
    BY <1>q, <1>p, <2>1, <2>2 DEF InLine, Queued
<1>1. CASE UNCHANGED <<cur, readyqueue, kbd_blocked, in_read>>
  BY <1>1, <1>p DEF InLine, Queued
<1>2. CASE ClockInterrupt
  <2>1. cur \notin in_read /\ Tick /\ UNCHANGED <<kbd_blocked, in_read>>
    BY <1>2 DEF ClockInterrupt, InterruptsOn
  <2>2. CASE SchedNext(Append(readyqueue, cur))
    <3> DEFINE rq == Append(readyqueue, cur)
    <3>1. rq \in Seq(Task) /\ Range(rq) = Range(readyqueue) \cup {cur}
      BY <1>q, AppendFresh
    <3>2. Range(rq) \subseteq Queued' \cup {cur'}
      BY <2>2, <3>1, LineMovesUp
    <3>3. Precedes(rq, t, u) =>
            Precedes(readyqueue', t, u) \/ (t = cur' /\ u \in Queued')
      BY <2>2, <3>1, LineMovesUp
    <3>4. t # cur
      BY <2>1, <1>p
    <3>5. Precedes(readyqueue, t, u) => Precedes(rq, t, u)
      BY <1>q, <1>r
    <3> HIDE DEF rq
    <3>6. InLine(t, u)'
      BY <1>p, <2>1, <3>1, <3>2, <3>3, <3>4, <3>5 DEF InLine, Queued
    <3> QED
      BY <1>p, <2>1, <3>6
  <2>3. CASE UNCHANGED <<cur, readyqueue>>
    BY <1>1, <2>1, <2>3
  <2> QED
    BY <2>1, <2>2, <2>3 DEF Tick, Schedule
<1>3. ASSUME cur \notin in_read, SchedNext(readyqueue), in_read \subseteq in_read',
             kbd_blocked' = kbd_blocked \/ kbd_blocked' = Append(kbd_blocked, cur)
      PROVE  ReadsBefore(t, u)'
  <2>1. Range(readyqueue) \subseteq Queued' \cup {cur'}
    BY <1>q, <1>3, LineMovesUp
  <2>2. Precedes(readyqueue, t, u) =>
          Precedes(readyqueue', t, u) \/ (t = cur' /\ u \in Queued')
    BY <1>q, <1>3, LineMovesUp
  <2>3. t # cur
    BY <1>3, <1>p
  <2> DEFINE kb == Append(kbd_blocked, cur)
  <2>a. Range(kb) = Range(kbd_blocked) \cup {cur}
    BY <1>q, AppendFresh
  <2>b. Precedes(kbd_blocked, t, u) => Precedes(kb, t, u)
    BY <1>q, AppendedOrder
  <2> HIDE DEF kb
  <2>c. kbd_blocked' = kbd_blocked \/ kbd_blocked' = kb
    BY <1>3 DEF kb
  <2>4. Range(kbd_blocked) \subseteq Range(kbd_blocked')
    BY <2>a, <2>c
  <2>5. Precedes(kbd_blocked, t, u) => Precedes(kbd_blocked', t, u)
    BY <2>b, <2>c
  <2>6. InLine(t, u)'
    BY <1>p, <2>1, <2>2, <2>3, <2>4, <2>5 DEF InLine, Queued
  <2> QED
    BY <1>3, <1>p, <2>6
<1>4. ASSUME NEW n \in 1..BUFF_SIZE + 1, ReadBlock(n)
      PROVE  ReadsBefore(t, u)'
  BY <1>3, <1>4 DEF ReadBlock, InUserMode
<1>5. CASE Exit
  BY <1>3, <1>5 DEF Exit, InUserMode
<1>6. CASE ReadFinish
  <2>1. in_read' = in_read \ {cur} /\ UNCHANGED <<cur, readyqueue, kbd_blocked>>
    BY <1>6 DEF ReadFinish, rrVars
  <2> QED
    BY <1>p, <1>s, <2>1 DEF InLine, Queued
<1>7. ASSUME NEW x \in Task, x \notin Range(readyqueue), readyqueue' = Append(readyqueue, x), cur' = cur
      PROVE  /\ Queued' = Queued \cup {x}
             /\ \A a, b : Precedes(readyqueue', a, b) <=>
                  Precedes(readyqueue, a, b) \/ (a \in Range(readyqueue) /\ b = x)
  BY <1>q, <1>r, <1>7, AppendFresh DEF Queued
<1>8. ASSUME NEW x \in Task, Fork(x)
      PROVE  ReadsBefore(t, u)'
  <2>1. /\ x \notin live \cup {Idle}
        /\ readyqueue' = Append(readyqueue, x) /\ cur' = cur
        /\ UNCHANGED <<kbd_blocked, in_read>>
    BY <1>8 DEF Fork, MakeReady
  <2>2. x \notin Range(readyqueue)
    BY <2>1 DEF Placement, PlacedOnce, Queued
  <2> QED
    BY <1>p, <1>7, <2>1, <2>2 DEF InLine, Queued
<1>9. ASSUME NEW c \in Char, KeyboardInterrupt(c)
      PROVE  ReadsBefore(t, u)'
  <2>1. UNCHANGED in_read
    BY <1>9 DEF KeyboardInterrupt
  <2>2. CASE kbd_blocked # << >> /\ MakeReady(Head(kbd_blocked)) /\ kbd_blocked' = Tail(kbd_blocked)
    <3> DEFINE x == Head(kbd_blocked)
    <3>1. /\ x \in Task
          /\ Range(kbd_blocked) = Range(kbd_blocked') \cup {x}
      BY <1>q, <2>2, TakeFirst
    <3>2. x \notin Range(readyqueue)
      BY <3>1 DEF Placement, PlacedOnce, Queued
    <3>3. Precedes(kbd_blocked, t, u) <=>
            Precedes(kbd_blocked', t, u) \/ (t = x /\ u \in Range(kbd_blocked'))
      BY <1>q, <2>2, TakenOrder
    <3>4. readyqueue' = Append(readyqueue, x) /\ cur' = cur
      BY <2>2 DEF MakeReady
    <3> HIDE DEF x
    <3>5. InLine(t, u)'
      BY <1>p, <1>7, <3>1, <3>2, <3>3, <3>4 DEF InLine, Queued
    <3> QED
      BY <1>p, <2>1, <3>5
  <2>3. CASE UNCHANGED <<rrVars, kbd_blocked>>
    BY <1>p, <1>1, <2>1, <2>3 DEF rrVars
  <2> QED
    BY <1>9, <2>2, <2>3 DEF KeyboardInterrupt, WakeReader
<1>10. CASE ReadFlush \/ (\E n \in 1..BUFF_SIZE + 1 : ReadNow(n)) \/ UNCHANGED kbdReadVars
  BY <1>1, <1>10 DEF ReadFlush, ReadNow, kbdReadVars, rrVars
<1> QED
  BY <1>2, <1>4, <1>5, <1>6, <1>8, <1>9, <1>10 DEF KbdReadNext

\* Readers are served in the order in which they blocked.
THEOREM KbdReadersInOrder == KbdReadSpec => ReadersInOrder
<1>1. Placement /\ [KbdReadNext]_kbdReadVars => Placement'
  BY PlacementStep
<1>2. Placement /\ [KbdReadNext]_kbdReadVars =>
        [\A t, u \in Task :
           ReadsBefore(t, u) => ReadsBefore(t, u)' \/ t \notin in_read']_kbdReadVars
  BY OrderStep
<1> QED
  BY <1>1, <1>2, PlacementInit, PTL DEF KbdReadSpec, ReadersInOrder
===============================================================================
