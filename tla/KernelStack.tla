------------------------------ MODULE KernelStack ------------------------------
(***************************************************************************)
(* What one switch of the other modules, cur' = t, is made of: the system  *)
(* call wrappers of the library, sysenter and the handlers of entry.S,     *)
(* task_switch, inner_task_switch, cambio_pila, and the stacks forged for  *)
(* the idle task and for a forked child.                                   *)
(*                                                                         *)
(* A kernel stack is the sequence of the words pushed on it, the last one  *)
(* on top; current() is the task whose page the stack pointer is in.  `ret'*)
(* goes where the word on top says: who runs next, and with which          *)
(* registers, is decided by the words and not by the model.  Interrupts    *)
(* are off in the kernel (interrupt gates, sysenter), so a step is the     *)
(* straight code up to a call, a return or the return to user mode.        *)
(*                                                                         *)
(* The frame of a C function is the one gcc makes with frame pointers: ebp *)
(* and the three registers the caller owns.  The C functions between a     *)
(* handler's call and task_switch are one frame.                           *)
(***************************************************************************)
EXTENDS RoundRobin, SequencesExt

CONSTANT Calls  \* the system calls that programs make: numbers the wrappers pass

\* The wrappers of Wrappers.S and the numbers they put in eax.
ProcessCalls == [exit |-> 1, fork |-> 2, gettime |-> 10, getpid |-> 20,
                 block |-> 21, unblock |-> 22]
ScreenCalls == [read |-> 3, write |-> 4, gotoxy |-> 23, set_color |-> 24,
                get_stats |-> 35]
ShmCalls == [shmat |-> 25, shmdt |-> 26, shmrm |-> 27]

ASSUME KernelStackAssumption ==
  Calls \subseteq Range(ProcessCalls) \cup Range(ScreenCalls) \cup Range(ShmCalls)

VARIABLES
  pc,            \* the code that runs next
  regs,          \* the registers of the CPU
  page,          \* the page esp is in: current(), in kernel mode
  kstack,        \* the kernel stack in each task_union, while in use
  kernel_esp,    \* task_struct.kernel_esp
  tss_esp0,      \* the kernel stack that an interrupt in user mode takes
  sysenter_esp,  \* MSR 0x175: the kernel stack that sysenter takes
  cr3,           \* the address space, named by its task
  ustack,        \* the part of each user stack that the wrappers use
  blocked,       \* the tasks in blocked and kbd_blocked
  \* History: what a task had when it called a wrapper, with the result the
  \* kernel gave it; what it had when it was interrupted.
  caller, interrupted

machine == <<tss_esp0, sysenter_esp, cr3>>
history == <<caller, interrupted>>
ksVars == <<rrVars, pc, regs, page, kstack, kernel_esp, machine, ustack, blocked,
            history>>

-----------------------------------------------------------------------------
(* Words.                                                                  *)

Code(l) == <<"code", l>>      \* an address of code
At(t, n) == <<"at", t, n>>    \* the n-th word of t's kernel stack
UserAt(n) == <<"user_at", n>> \* the n-th word of the user stack
Num(i) == <<"int", i>>
Junk == <<"junk">>
UserDS == <<"sel", "USER_DS">>
KernelDS == <<"sel", "KERNEL_DS">>
UserCS == <<"sel", "USER_CS">>
KernelCS == <<"sel", "KERNEL_CS">>
Eflags == <<"eflags">>

\* The registers in the order SAVE_ALL pushes them.
Saved == <<"gs", "fs", "es", "ds", "eax", "ebp", "edi", "esi", "ebx", "ecx", "edx">>
Reg == Range(Saved)
General == {"eax", "ebp", "edi", "esi", "ebx", "ecx", "edx"}
CalleeSaved == {"ebp", "edi", "esi", "ebx"}

\* The program of t has put its own values in its registers.
UserRegs(t) == [r \in Reg |-> IF r \in General THEN <<r, t>> ELSE UserDS]

\* A negative result: which of the codes of errno.h makes no difference.
Error == Num(-22)

\* Where `ret', iret and sysexit go with the word w.
Target(w) == IF w[1] = "code" THEN w[2] ELSE "crash"

Nothing == [none |-> TRUE]

InUserMode == pc \in {"program", "call_return", "write_return"}

\* task_union t is in use.
Used(t) == t \in {cur, Idle} \cup Queued \cup blocked

\* SAVE_ALL: the words pushed on s, and the registers afterwards.
SaveAll(s) == s \o [i \in 1..Len(Saved) |-> regs[Saved[i]]]
KernelRegs == [regs EXCEPT !.edx = KernelDS, !.ds = KernelDS, !.es = KernelDS]

\* Mutant: two registers popped in the wrong order.
RestoreAllSwapped(s) ==
  [r \in Reg |-> LET i == CHOOSE j \in 1..Len(Saved) : Saved[j] = r
                 IN  s[Len(s) - Len(Saved) + (CASE r = "edi" -> 8 [] r = "esi" -> 7 [] OTHER -> i)]]

\* RESTORE_ALL: the registers popped from s, and what is left on s.
RestoreAll(s) == [r \in Reg |-> LET i == CHOOSE j \in 1..Len(Saved) : Saved[j] = r
                                IN  s[Len(s) - Len(Saved) + i]]
Unsaved(s) == SubSeq(s, 1, Len(s) - Len(Saved))

\* The frame of a C function, pushed on s, and the registers it works with.
Enter(s) == s \o <<regs.ebp, regs.edi, regs.esi, regs.ebx>>
Working(s) == [r \in Reg |-> CASE r = "ebp" -> At(page, Len(s) + 1)
                               [] r \in CalleeSaved \ {"ebp"} -> <<"kernel", r, page>>
                               [] OTHER -> regs[r]]

\* return v, for a C function that leaves the frames below as they are.
Return(v) ==
  /\ pc' = Target(Last(kstack[page]))
  /\ kstack' = [kstack EXCEPT ![page] = Front(@)]
  /\ regs' = [regs EXCEPT !.eax = v, !.ecx = Junk, !.edx = Junk]
  /\ UNCHANGED <<page, machine, ustack>>

-----------------------------------------------------------------------------
(* User mode and the two ways into the kernel.                             *)

\* init_idle and init_task1: the idle task's stack looks as if cambio_pila had
\* left it to run cpu_idle; init is in user mode.
KSInit ==
  /\ RRInit
  /\ pc = "program"
  /\ regs = UserRegs(InitTask)
  /\ page = InitTask /\ tss_esp0 = InitTask /\ sysenter_esp = InitTask /\ cr3 = InitTask
  /\ kstack = [t \in Task |-> IF t = Idle THEN <<Code("cpu_idle"), Num(0)>> ELSE << >>]
  /\ kernel_esp = [t \in Task |-> At(t, IF t = Idle THEN 2 ELSE 0)]
  /\ ustack = [t \in Task |-> << >>]
  /\ blocked = {}
  /\ caller = [t \in Task |-> Nothing]
  /\ interrupted = [t \in Task |-> Nothing]

Program ==
  /\ pc = "program"
  /\ regs' = UserRegs(cr3)
  /\ UNCHANGED <<rrVars, pc, page, kstack, kernel_esp, machine, ustack, blocked, history>>

\* A wrapper up to sysenter: write takes three arguments and saves ebx.
Wrapper(nr) ==
  LET frame == <<Code("program"), regs.ebp>>
      args  == [regs EXCEPT !.edx = Num(1), !.ecx = Num(2)]
      push  == IF nr = ScreenCalls.write
               THEN frame \o <<regs.ebx, args.ecx, args.edx, Code("write_return"), UserAt(2)>>
               ELSE frame \o <<args.ecx, args.edx, Code("call_return"), UserAt(2)>>
  IN  /\ pc = "program"
      /\ ustack' = [ustack EXCEPT ![cr3] = @ \o push]
      /\ regs' = [args EXCEPT !.eax = Num(nr), !.ebp = UserAt(Len(push)),
                              !.ebx = IF nr = ScreenCalls.write THEN Num(3) ELSE @]
      /\ pc' = "syscall_handler_sysenter"
      /\ page' = sysenter_esp
      /\ kstack' = [kstack EXCEPT ![sysenter_esp] = << >>]
      /\ caller' = [caller EXCEPT ![cr3] = [regs |-> Restrict(regs, CalleeSaved), result |-> Junk]]
      /\ UNCHANGED <<rrVars, kernel_esp, machine, blocked, interrupted>>

\* The rest of a wrapper, with the user stack as sysexit has left it: the fake
\* link, the return address, edx and ecx are popped.
\* A negative result becomes -1 (its code goes to errno).
WrapperReturn ==
  LET u      == ustack[cr3]
      n      == Len(u)
      failed == regs.eax[1] = "int" /\ regs.eax[2] < 0
      ebx    == IF pc = "write_return" THEN u[n - 4] ELSE regs.ebx
      left   == SubSeq(u, 1, IF pc = "write_return" THEN n - 5 ELSE n - 4)
  IN  /\ pc \in {"call_return", "write_return"}
      /\ regs' = [regs EXCEPT !.edx = u[n - 2], !.ecx = u[n - 3], !.ebx = ebx,
                              !.eax = IF failed THEN Num(-1) ELSE @,
                              !.ebp = Last(left)]
      /\ pc' = Target(Last(Front(left)))
      /\ ustack' = [ustack EXCEPT ![cr3] = SubSeq(left, 1, Len(left) - 2)]
      /\ caller' = [caller EXCEPT ![cr3] = Nothing]
      /\ UNCHANGED <<rrVars, page, kstack, kernel_esp, machine, blocked, interrupted>>

\* clock_handler and keyboard_handler up to the call of the routine.  From the
\* idle task, which is in the kernel, the CPU keeps the stack.
Interrupt(routine) ==
  LET fromUser == <<UserDS, UserAt(Len(ustack[cr3])), Eflags, UserCS, Code(pc)>>
      fromIdle == <<Eflags, KernelCS, Code(pc)>>
      t == IF InUserMode THEN tss_esp0 ELSE page
  IN  /\ InUserMode \/ pc = "hlt"
      /\ kstack' = [kstack EXCEPT ![t] =
                      Append(SaveAll(IF InUserMode THEN fromUser ELSE @ \o fromIdle),
                             Code("handler_end"))]
      /\ page' = t
      /\ regs' = KernelRegs
      /\ pc' = routine
      /\ interrupted' = [interrupted EXCEPT ![t] =
                           [pc |-> pc, regs |-> regs, ustack |-> ustack[cr3]]]
      /\ UNCHANGED <<rrVars, kernel_esp, machine, ustack, blocked, caller>>

\* The end of both: RESTORE_ALL and iret, which changes to the user's stack
\* when the code segment it pops is the user's.
HandlerEnd ==
  LET s == Unsaved(kstack[page])
      toUser == s[Len(s) - 1] = UserCS
  IN  /\ pc = "handler_end"
      /\ regs' = RestoreAll(kstack[page])
      /\ pc' = Target(Last(s))
      /\ kstack' = [kstack EXCEPT ![page] = SubSeq(s, 1, Len(s) - (IF toUser THEN 5 ELSE 3))]
      /\ ustack' = [ustack EXCEPT ![cr3] = IF toUser THEN SubSeq(@, 1, s[Len(s) - 3][2]) ELSE @]
      /\ interrupted' = [interrupted EXCEPT ![page] = Nothing]
      /\ UNCHANGED <<rrVars, page, kernel_esp, machine, blocked, caller>>

\* sys_call_table, by what the entries do to the stacks.
sys_call_table == [nr \in 0..35 |->
  CASE nr = 1 -> "sys_exit" [] nr = 2 -> "sys_fork" [] nr \in {3, 21} -> "sys_block"
    [] nr = 22 -> "sys_unblock" [] OTHER -> "sys_other"]

\* syscall_handler_sysenter up to the call: the words that an interrupt would
\* have pushed, with the wrapper's return address, then SAVE_ALL.
SysenterEntry ==
  LET ebp  == regs.ebp[2]
      sent == <<UserDS, regs.ebp, Eflags, UserCS, ustack[cr3][ebp - 1]>>
  IN  /\ pc = "syscall_handler_sysenter"
      /\ kstack' = [kstack EXCEPT ![page] = Append(SaveAll(@ \o sent), Code("sysenter_fin"))]
      /\ regs' = KernelRegs
      /\ pc' = sys_call_table[regs.eax[2]]
      /\ UNCHANGED <<rrVars, page, kernel_esp, machine, ustack, blocked, history>>

\* The end: the result replaces the saved eax; sysexit takes the return address
\* from edx and the user's stack from ecx.  It leaves five words on the kernel
\* stack, which nothing reads: the next entry starts at the bottom.
SysenterFin ==
  LET s     == [kstack[page] EXCEPT ![Len(kstack[page]) - 6] = regs.eax]
      saved == Unsaved(s)
  IN  /\ pc = "sysenter_fin"
      /\ regs' = [RestoreAll(s) EXCEPT !.edx = Last(saved), !.ecx = saved[Len(saved) - 3]]
      /\ pc' = Target(Last(saved))
      /\ ustack' = [ustack EXCEPT ![cr3] = SubSeq(@, 1, saved[Len(saved) - 3][2])]
      /\ kstack' = [kstack EXCEPT ![page] = << >>]
      /\ UNCHANGED <<rrVars, page, kernel_esp, machine, blocked, history>>

-----------------------------------------------------------------------------
(* The routines of C.                                                      *)

Result(t, v) == [caller EXCEPT ![t].result = v]

\* Every call that neither switches nor makes another process ready.
SysOther(v) ==
  /\ pc = "sys_other"
  /\ Return(v)
  /\ caller' = Result(page, v)
  /\ UNCHANGED <<rrVars, kernel_esp, blocked, interrupted>>

\* sys_unblock of b; the keyboard interrupt that wakes b.
Wake(b) ==
  /\ blocked' = blocked \ {b}
  /\ MakeReady(b)
  /\ UNCHANGED <<kernel_esp, interrupted>>

SysUnblock(b) ==
  /\ pc = "sys_unblock"
  /\ Wake(b)
  /\ Return(Num(0))
  /\ caller' = Result(page, Num(0))

SysUnblockFails ==
  /\ pc = "sys_unblock"
  /\ Return(Error)
  /\ caller' = Result(page, Error)
  /\ UNCHANGED <<rrVars, kernel_esp, blocked, interrupted>>

KeyboardWakes(b) ==
  /\ pc = "keyboard_routine"
  /\ Wake(b)
  /\ Return(Junk)
  /\ UNCHANGED caller

KeyboardWakesNobody ==
  /\ pc = "keyboard_routine"
  /\ Return(Junk)
  /\ UNCHANGED <<rrVars, kernel_esp, blocked, history>>

\* Mutants: the two forged words exchanged; kernel_esp one word too high.
ChildStackSwapped(s) == [SubSeq(Enter(s), 1, 19) EXCEPT ![19] = Code("ret_from_fork"),
                                                        ![18] = Num(0)]
ChildEspTooHigh == 18

\* The stack of a child: the parent's, copied inside sys_fork, where the word
\* below the return address becomes ret_from_fork and the next one ebp.
ChildStack(s) == [SubSeq(Enter(s), 1, 19) EXCEPT ![18] = Code("ret_from_fork"),
                                                 ![19] = Num(0)]
ChildEsp == 19

\* sys_fork: the user stack is in the data pages that are copied.
SysFork(c) ==
  /\ pc = "sys_fork"
  /\ ~ Used(c)
  /\ pc' = Target(Last(kstack[page]))
  /\ kstack' = [kstack EXCEPT ![c] = ChildStack(kstack[page]), ![page] = Front(@)]
  /\ regs' = [regs EXCEPT !.eax = <<"pid", c>>, !.ecx = Junk, !.edx = Junk]
  /\ kernel_esp' = [kernel_esp EXCEPT ![c] = At(c, ChildEsp)]
  /\ ustack' = [ustack EXCEPT ![c] = ustack[cr3]]
  /\ MakeReady(c)
  /\ caller' = [caller EXCEPT ![page].result = <<"pid", c>>,
                              ![c] = [caller[page] EXCEPT !.result = Num(0)]]
  /\ UNCHANGED <<page, machine, blocked, interrupted>>

SysForkFails ==
  /\ pc = "sys_fork"
  /\ Return(Error)
  /\ caller' = Result(page, Error)
  /\ UNCHANGED <<rrVars, kernel_esp, blocked, interrupted>>

\* A function of C calls task_switch(next).  (sched_next_rr does so only if next
\* is not the current task; inner_task_switch, which returns at once if it is,
\* is never called with it.)
CallTaskSwitch(next) ==
  /\ pc' = "task_switch"
  /\ kstack' = [kstack EXCEPT ![page] = Enter(@) \o <<<<"task", next>>, Code("c_end")>>]
  /\ regs' = Working(kstack[page])
  /\ UNCHANGED <<page, kernel_esp, machine, interrupted>>

\* sys_block without a pending unblock, sys_read without a key.
SysBlock ==
  /\ pc = "sys_block"
  /\ blocked' = blocked \cup {page}
  /\ SchedNext(readyqueue)
  /\ CallTaskSwitch(cur')
  /\ caller' = Result(page, Num(0))
  /\ UNCHANGED ustack

\* Both when they have what they ask for.
SysBlockNot ==
  /\ pc = "sys_block"
  /\ Return(Num(0))
  /\ caller' = Result(page, Num(0))
  /\ UNCHANGED <<rrVars, kernel_esp, blocked, interrupted>>

\* sys_exit frees the data pages and the PCB, and switches on the PCB's stack.
SysExit ==
  /\ pc = "sys_exit"
  /\ SchedNext(readyqueue)
  /\ CallTaskSwitch(cur')
  /\ ustack' = [ustack EXCEPT ![page] = << >>]
  /\ caller' = [caller EXCEPT ![page] = Nothing]
  /\ UNCHANGED blocked

ClockSwitches ==
  /\ pc = "clock_routine"
  /\ Schedule
  /\ cur' # page
  /\ CallTaskSwitch(cur')
  /\ UNCHANGED <<ustack, blocked, caller>>

ClockStays ==
  /\ pc = "clock_routine"
  /\ Schedule
  /\ cur' = page
  /\ Return(Junk)
  /\ UNCHANGED <<kernel_esp, blocked, history>>

-----------------------------------------------------------------------------
(* The switch.                                                             *)

outside == <<rrVars, ustack, blocked, history>>

\* task_switch up to the call of inner_task_switch with its own argument.
TaskSwitch ==
  LET s == kstack[page]
      n == Len(s)
  IN  /\ pc = "task_switch"
      /\ kstack' = [kstack EXCEPT ![page] =
                      @ \o <<regs.ebp, regs.esi, regs.edi, regs.ebx, s[n - 1], Code("task_switch_end")>>]
      /\ regs' = [regs EXCEPT !.ebp = At(page, n + 1)]
      /\ pc' = "inner_task_switch"
      /\ UNCHANGED <<page, kernel_esp, machine, outside>>

\* Mutant: the MSR is forgotten.
InstallTaskNoMSR(t) == tss_esp0' = t /\ cr3' = t /\ UNCHANGED sysenter_esp

\* Where t's kernel is entered, and the address space that is loaded.
InstallTask(t) == tss_esp0' = t /\ sysenter_esp' = t /\ cr3' = t

\* inner_task_switch up to the call of cambio_pila.
InnerTaskSwitch ==
  LET s == kstack[page]
      t == s[Len(s) - 1][2]
  IN  /\ pc = "inner_task_switch"
      /\ InstallTask(t)
      /\ kstack' = [kstack EXCEPT ![page] =
                      Enter(@) \o <<kernel_esp[t], <<"task", page>>, Code("c_end")>>]
      /\ regs' = Working(s)
      /\ pc' = "cambio_pila"
      /\ UNCHANGED <<page, kernel_esp, outside>>

\* cambio_pila: ebp, which is esp, is kept in the old PCB; esp becomes the
\* address kept in the new one; popl %ebp and ret are on the new stack.  (Nobody
\* comes back to the stack of a process that has exited.)
CambioPila ==
  LET s   == Append(kstack[page], regs.ebp)
      new == kstack[page][Len(kstack[page]) - 2]
      old == kstack[page][Len(kstack[page]) - 1][2]
      t   == new[2]
      n   == new[3]
  IN  /\ pc = "cambio_pila"
      /\ kernel_esp' = [kernel_esp EXCEPT ![old] = At(page, Len(s))]
      /\ page' = t
      /\ kstack' = [kstack EXCEPT ![page] = IF Used(page) THEN s ELSE << >>, ![t] = SubSeq(@, 1, n - 2)]
      /\ regs' = [regs EXCEPT !.eax = new, !.ebp = kstack[t][n]]
      /\ pc' = Target(kstack[t][n - 1])
      /\ UNCHANGED <<machine, outside>>

\* The end of a C function: its frame is found through ebp.  (c_end is the end
\* of inner_task_switch and then of the function that called task_switch.)
CEnd ==
  LET s == kstack[page]
      n == regs.ebp[3]
  IN  /\ pc = "c_end"
      /\ regs' = [regs EXCEPT !.ebp = s[n], !.edi = s[n + 1], !.esi = s[n + 2], !.ebx = s[n + 3],
                              !.eax = Num(0)]
      /\ kstack' = [kstack EXCEPT ![page] = SubSeq(s, 1, n - 2)]
      /\ pc' = Target(s[n - 1])
      /\ UNCHANGED <<page, kernel_esp, machine, outside>>

TaskSwitchEnd ==
  LET s == kstack[page]
      m == Len(s)
      n == regs.ebp[3]
  IN  /\ pc = "task_switch_end"
      /\ regs' = [regs EXCEPT !.ebx = s[m - 1], !.edi = s[m - 2], !.esi = s[m - 3], !.ebp = s[n]]
      /\ kstack' = [kstack EXCEPT ![page] = SubSeq(s, 1, n - 2)]
      /\ pc' = Target(s[n - 1])
      /\ UNCHANGED <<page, kernel_esp, machine, outside>>

RetFromFork ==
  /\ pc = "ret_from_fork"
  /\ Return(Num(0))
  /\ UNCHANGED <<rrVars, kernel_esp, blocked, history>>

\* cpu_idle: its frame, sti, and hlt for ever.
CpuIdle ==
  /\ pc = "cpu_idle"
  /\ kstack' = [kstack EXCEPT ![page] = Append(@, regs.ebp)]
  /\ regs' = [regs EXCEPT !.ebp = At(page, Len(kstack[page]) + 1)]
  /\ pc' = "hlt"
  /\ UNCHANGED <<page, kernel_esp, machine, outside>>

-----------------------------------------------------------------------------
Routine ==
  \/ \E v \in {Num(0), Error} : SysOther(v)
  \/ \E b \in blocked : SysUnblock(b) \/ KeyboardWakes(b)
  \/ \E c \in Task : SysFork(c)
  \/ SysUnblockFails \/ KeyboardWakesNobody \/ SysForkFails
  \/ SysBlock \/ SysBlockNot \/ SysExit \/ ClockSwitches \/ ClockStays

Switch ==
  \/ TaskSwitch \/ InnerTaskSwitch \/ CambioPila \/ CEnd \/ TaskSwitchEnd
  \/ RetFromFork \/ CpuIdle

Kernel == SysenterEntry \/ SysenterFin \/ HandlerEnd \/ Routine \/ Switch

User == WrapperReturn \/ Program \/ \E nr \in Calls : Wrapper(nr)

KSNext == Kernel \/ User \/ Interrupt("clock_routine") \/ Interrupt("keyboard_routine")

\* The CPU executes the kernel.  The timer keeps asking for an interrupt, and one
\* that is pending is taken when a program that was in the kernel is back in user
\* mode: strong fairness, for a program may call the system all the time.  A
\* program need not make progress.
KSSpec ==
  /\ KSInit /\ [][KSNext]_ksVars
  /\ WF_ksVars(Kernel) /\ SF_ksVars(Interrupt("clock_routine"))

-----------------------------------------------------------------------------
(* Properties.                                                             *)

Label ==
  {"program", "call_return", "write_return", "syscall_handler_sysenter", "sysenter_fin",
   "handler_end", "clock_routine", "keyboard_routine", "task_switch", "inner_task_switch",
   "cambio_pila", "task_switch_end", "c_end", "ret_from_fork", "cpu_idle", "hlt"}
  \cup Range(sys_call_table)

\* Every return goes to code, and nothing piles up on the kernel stacks: a
\* task_union has its task_struct at the end the stack grows towards.
KSTypeOK ==
  /\ RRTypeOK
  /\ pc \in Label
  /\ {page, tss_esp0, sysenter_esp, cr3} \cup blocked \subseteq Task
  /\ \A t \in Task : Len(kstack[t]) <= 37 /\ Len(ustack[t]) <= 7

\* Outside the kernel, the task the scheduler chose is the one that executes:
\* its address space is loaded, and the next interrupt and the next sysenter
\* will both be on its own kernel stack.
ChosenTaskExecutes ==
  InUserMode \/ pc = "hlt" => {page, tss_esp0, sysenter_esp, cr3} = {cur}

\* An interrupt cannot be noticed: however long the task was away, and whatever
\* ran meanwhile, it goes on where it was with every register as it was.
InterruptsInvisible ==
  [][pc = "handler_end" =>
       interrupted[page] = [pc |-> pc', regs |-> regs', ustack |-> ustack'[cr3']]]_ksVars

AsCalled(c) ==
  /\ \A r \in CalleeSaved : regs'[r] = c.regs[r]
  /\ regs'.ds = UserDS /\ regs'.es = UserDS
  /\ regs'.eax = (IF c.result = Error THEN Num(-1) ELSE c.result)
  /\ ustack'[cur] = << >>

\* A system call is a function call: the program goes on after it with the
\* registers a caller may count on, its stack, and the result meant for it:
\* for a forked child, 0.
CallsReturnToCaller ==
  [][pc # "program" /\ pc' = "program" /\ pc # "handler_end"
       => caller[cur] # Nothing /\ AsCalled(caller[cur])]_ksVars

\* A task in the ready queue gets to execute its own code.
ReadyTasksExecute ==
  \A t \in Task : t \in Queued ~> page = t /\ (InUserMode \/ pc = "hlt")
===============================================================================
