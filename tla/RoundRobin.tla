------------------------------ MODULE RoundRobin ------------------------------
(***************************************************************************)
(* The CPU scheduler of zeos/sched.c: one ready queue, one global quantum  *)
(* counter, an idle task that runs when the queue is empty.                *)
(*                                                                         *)
(* This module holds the operators the system calls are built from         *)
(* (SchedNext, Schedule, MakeReady) and, below them, the most general      *)
(* client of the scheduler: the running task may give up the CPU at any    *)
(* time, any task that is neither running nor queued may be made ready.    *)
(* The composed modules are shown to be clients of this kind.              *)
(*                                                                         *)
(* A task is a task_struct.  The intrusive list readyqueue is a sequence:  *)
(* list_add_tail is Append, list_first followed by list_del is Head/Tail.  *)
(***************************************************************************)
EXTENDS Integers, Sequences, Functions

CONSTANTS
  Task,       \* every task_struct, the idle task included
  Idle,       \* idle_task
  InitTask,   \* init_task, the process with PID 1
  Quantum     \* ticks per turn: 10 for every task (set_quantum, sys_fork)

ASSUME RRAssumption ==
  /\ Idle \in Task
  /\ InitTask \in Task \ {Idle}
  /\ Quantum \in Nat \ {0}

VARIABLES
  cur,               \* current(): the task whose kernel stack is in use
  readyqueue,        \* tasks waiting for the CPU, first to run first
  remaining_quantum  \* ticks left in the turn of cur

rrVars == <<cur, readyqueue, remaining_quantum>>

Queued == Range(readyqueue)

-----------------------------------------------------------------------------
(* The operators of sched.c.                                               *)

\* After main() the CPU is in user mode in the init task; remaining_quantum
\* is in BSS and is still 0, so the first tick always reschedules.
RRInit ==
  /\ cur = InitTask
  /\ readyqueue = << >>
  /\ remaining_quantum = 0

\* Mutants of the operators below: a stack instead of a queue, a list_first
\* without list_del, a list_add where list_add_tail belongs, a schedule() that
\* never looks at the quantum.
SchedNextLast(rq) ==
  /\ \/ rq = << >> /\ cur' = Idle /\ readyqueue' = rq
     \/ rq # << >> /\ cur' = rq[Len(rq)] /\ readyqueue' = SubSeq(rq, 1, Len(rq) - 1)
  /\ remaining_quantum' = Quantum
SchedNextKeepsHead(rq) ==
  /\ \/ rq = << >> /\ cur' = Idle /\ readyqueue' = rq
     \/ rq # << >> /\ cur' = Head(rq) /\ readyqueue' = rq
  /\ remaining_quantum' = Quantum
MakeReadyFirst(t) ==
  /\ readyqueue' = <<t>> \o readyqueue
  /\ UNCHANGED <<cur, remaining_quantum>>
NeedsSchedAlways(left) == TRUE

\* sched_next_rr, called with the ready queue rq: the first task of rq, or the
\* idle task, gets the CPU and a full turn.  (When it is the current task
\* already, the code skips task_switch; the state is the same.)
SchedNext(rq) ==
  /\ \/ rq = << >> /\ cur' = Idle /\ readyqueue' = rq
     \/ rq # << >> /\ cur' = Head(rq) /\ readyqueue' = Tail(rq)
  /\ remaining_quantum' = Quantum

\* needs_sched_rr, once update_sched_data_rr has left `left' ticks.
NeedsSched(left) == left <= 0 \/ readyqueue = << >>

\* schedule: at the end of the turn, and at every tick with an empty ready
\* queue, the current task (the idle task too) goes to the tail and the first
\* one is taken.
Schedule ==
  LET left == remaining_quantum - 1
  IN  \/ /\ NeedsSched(left)
         /\ SchedNext(Append(readyqueue, cur))
      \/ /\ ~ NeedsSched(left)
         /\ remaining_quantum' = left
         /\ UNCHANGED <<cur, readyqueue>>

\* update_process_state_rr(t, &readyqueue) for a task that is not running.
MakeReady(t) ==
  /\ readyqueue' = Append(readyqueue, t)
  /\ UNCHANGED <<cur, remaining_quantum>>

-----------------------------------------------------------------------------
(* The most general client.                                                *)

\* clock_routine
Tick == Schedule

\* sys_exit, sys_block and a blocking sys_read: the running task has been moved
\* out of the scheduler's reach.  The idle task makes no system call.
Leave ==
  /\ cur # Idle
  /\ SchedNext(readyqueue)

\* sys_fork, sys_unblock and the keyboard handler: t enters the ready queue.
Arrive(t) ==
  /\ t \notin Queued \cup {cur, Idle}
  /\ MakeReady(t)

RRNext == Tick \/ Leave \/ \E t \in Task : Arrive(t)

\* Without fairness: what keeps going is said where the interrupts are modelled.
RRSafety == RRInit /\ [][RRNext]_rrVars

-----------------------------------------------------------------------------
(* Properties.                                                             *)

\* The turn counter never leaves 0..Quantum and only tasks are scheduled.
RRTypeOK ==
  /\ cur \in Task
  /\ readyqueue \in Seq(Task)
  /\ remaining_quantum \in 0..Quantum

\* A task is in one place: it is not queued twice, and the running task is not
\* queued.  The intrusive `list' node of a task_struct depends on it: adding a
\* node that is already linked breaks both lists.
OnePlace ==
  /\ IsInjective(readyqueue)
  /\ cur \notin Queued

Ahead(t, u) ==
  \E i, j \in 1..Len(readyqueue) : i < j /\ readyqueue[i] = t /\ readyqueue[j] = u

\* Round robin is first come, first served: whatever is woken, forked, blocked
\* or preempted meanwhile, nobody gets in front of a process that is queued, and
\* it leaves the queue for the CPU only.  (The idle task may be passed.)
NoOvertaking ==
  [][\A t \in Queued \ {Idle} :
       \/ cur' = t
       \/ t \in Queued' /\ \A u \in Task : Ahead(u, t)' => Ahead(u, t)]_rrVars

\* Ticks until the i-th queued task runs, at most.
Delay(i) ==
  (i - 1) * Quantum + (IF remaining_quantum = 0 THEN 1 ELSE remaining_quantum)

\* Bounded waiting: a tick brings every queued task nearer to the CPU, and no
\* other step sends one back.  So the i-th task of the ready queue runs within
\* i * Quantum ticks.
BoundedWaiting ==
  [][\A i \in 1..Len(readyqueue) :
       \/ cur' = readyqueue[i]
       \/ \E j \in 1..Len(readyqueue') :
            /\ readyqueue'[j] = readyqueue[i]
            /\ Delay(j)' <= Delay(i)
            /\ Tick => Delay(j)' < Delay(i)]_rrVars

\* A task that is preempted (it is still ready) has used its whole turn.
TurnHonoured ==
  [][cur' # cur /\ cur \in Queued' => remaining_quantum <= 1]_rrVars
===============================================================================
