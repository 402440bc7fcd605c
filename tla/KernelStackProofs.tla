--------------------------- MODULE KernelStackProofs ---------------------------
(***************************************************************************)
(* The switch between kernel stacks keeps what it promises, for every set  *)
(* of tasks, every quantum and every choice of system calls.               *)
(*                                                                         *)
(* Who runs next is decided by words on the stacks, so the invariant says  *)
(* what those words are: for the task on the CPU, by the code that runs    *)
(* next, and for every other task in use, as cambio_pila, sys_fork or      *)
(* init_idle left its stack.                                               *)
(***************************************************************************)
EXTENDS KernelStack, RoundRobinProofs

-----------------------------------------------------------------------------
(* The invariant.                                                          *)

\* Sequences of words of whatever kind; a value for each register.
IsSeq(s) == s \in Seq(Range(s))
IsRegs(r) == r = [x \in Reg |-> r[x]]

\* The registers that SAVE_ALL has pushed above the first d words of s.
Idx(r) == CHOOSE j \in 1..Len(Saved) : Saved[j] = r
Popped(s, d) == [r \in Reg |-> s[d + Idx(r)]]

Results == {Num(0), Error} \cup {<<"pid", c>> : c \in Task}

\* t, with the registers r, is in the wrapper that goes on at p.
InCall(t, p, r) ==
  /\ caller[t] = [regs |-> caller[t].regs, result |-> caller[t].result]
  /\ ustack[t][1] = Code("program")
  /\ ustack[t][2] = caller[t].regs["ebp"]
  /\ r["ds"] = UserDS /\ r["es"] = UserDS
  /\ r["edi"] = caller[t].regs["edi"] /\ r["esi"] = caller[t].regs["esi"]
  /\ \/ p = "call_return" /\ Len(ustack[t]) = 6 /\ r["ebx"] = caller[t].regs["ebx"]
     \/ p = "write_return" /\ Len(ustack[t]) = 7 /\ ustack[t][3] = caller[t].regs["ebx"]

\* The kernel has given t its result, v.
Answered(t, v) == v = caller[t].result /\ v \in Results

\* t may go on in user mode, at p with the registers r.
InUser(t, p, r) ==
  \/ p = "program" /\ ustack[t] = << >> /\ r["ds"] = UserDS /\ r["es"] = UserDS
  \/ InCall(t, p, r) /\ Answered(t, r["eax"])

\* The first words of the stack of a task that was interrupted, by what it is
\* to find again, and of one that has called the system.
Interrupted(t) ==
  LET s == kstack[t]
      i == interrupted[t]
  IN  IF t = Idle
      THEN /\ s[3] = KernelCS /\ s[4] = Code("hlt")
           /\ i = [pc |-> "hlt", regs |-> Popped(s, 4), ustack |-> ustack[t]]
      ELSE /\ s[2] = UserAt(Len(ustack[t])) /\ s[4] = UserCS /\ s[5] = Code(i.pc)
           /\ i = [pc |-> i.pc, regs |-> Popped(s, 5), ustack |-> ustack[t]]
           /\ InUser(t, i.pc, Popped(s, 5))

Calling(t) ==
  /\ t # Idle
  /\ kstack[t][2] = UserAt(Len(ustack[t]))
  /\ \E p \in Label : kstack[t][5] = Code(p) /\ InCall(t, p, Popped(kstack[t], 5))

\* The words below the frames of C, with the address where the handler goes on.
Base(t) == IF t = Idle THEN 16 ELSE 17

FromInterrupt(t) == kstack[t][Base(t)] = Code("handler_end") /\ Interrupted(t)
FromCall(t) == kstack[t][17] = Code("sysenter_fin") /\ Calling(t)

\* Both, for a task whose call, if it is in one, returns 0.
Resumable(t) == FromInterrupt(t) \/ (FromCall(t) /\ caller[t].result = Num(0))

\* The frames of the function that called task_switch, of task_switch and of
\* inner_task_switch: the ebp in each and where each goes on.
Outer(t) == kstack[t][Base(t) + 6] = Code("c_end")
Middle(t) == /\ kstack[t][Base(t) + 7] = At(t, Base(t) + 1)
             /\ kstack[t][Base(t) + 12] = Code("task_switch_end")
Inner(t) == /\ kstack[t][Base(t) + 13] = At(t, Base(t) + 7)
            /\ kstack[t][Base(t) + 19] = Code("c_end")

\* The stack of a task in use that is not on the CPU: as cambio_pila left it, as
\* sys_fork forged it, as init_idle forged it.
Switched(t) ==
  /\ Len(kstack[t]) = Base(t) + 20
  /\ kstack[t][Base(t) + 20] = At(t, Base(t) + 13)
  /\ Resumable(t) /\ Outer(t) /\ Middle(t) /\ Inner(t)
Forked(t) ==
  /\ Len(kstack[t]) = 19
  /\ kstack[t][18] = Code("ret_from_fork")
  /\ FromCall(t) /\ caller[t].result = Num(0)
Fresh(t) ==
  /\ t = Idle
  /\ Len(kstack[t]) = 2
  /\ kstack[t][1] = Code("cpu_idle")

Suspended(t) ==
  /\ kernel_esp[t] = At(t, Len(kstack[t]))
  /\ Switched(t) \/ Forked(t) \/ Fresh(t)

\* The stack of the task on the CPU, by what runs next.
SysRoutines == {"sys_exit", "sys_fork", "sys_block", "sys_unblock", "sys_other"}

AtUser == InUserMode /\ page # Idle /\ InUser(page, pc, regs)
AtHlt == pc = "hlt" /\ page = Idle /\ Len(kstack[page]) = 1
AtSysenter ==
  /\ pc = "syscall_handler_sysenter"
  /\ page # Idle
  /\ kstack[page] = << >>
  /\ \E nr \in 0..35 : regs["eax"] = Num(nr)
  /\ regs["ebp"] = UserAt(Len(ustack[page]))
  /\ \E p \in Label : ustack[page][Len(ustack[page]) - 1] = Code(p) /\ InCall(page, p, regs)
AtRoutine ==
  /\ Len(kstack[page]) = Base(page)
  /\ \/ pc \in {"clock_routine", "keyboard_routine"} /\ FromInterrupt(page)
     \/ pc \in SysRoutines /\ FromCall(page)
     \/ pc = "ret_from_fork" /\ FromCall(page) /\ caller[page].result = Num(0)
AtHandlerEnd ==
  /\ pc = "handler_end"
  /\ Len(kstack[page]) = Base(page) - 1
  /\ Interrupted(page)
AtSysenterFin ==
  /\ pc = "sysenter_fin"
  /\ Len(kstack[page]) = 16
  /\ Calling(page) /\ Answered(page, regs["eax"])
AtCpuIdle == pc = "cpu_idle" /\ page = Idle /\ kstack[page] = << >>

\* A process that has exited leaves a stack that nobody comes back to.
Leaving ==
  /\ Used(page) => Resumable(page)
  /\ Outer(page)
AtTaskSwitch ==
  /\ pc = "task_switch"
  /\ Len(kstack[page]) = Base(page) + 6
  /\ Leaving
  /\ kstack[page][Base(page) + 5] = <<"task", cur>>
  /\ regs["ebp"] = At(page, Base(page) + 1)
AtInnerTaskSwitch ==
  /\ pc = "inner_task_switch"
  /\ Len(kstack[page]) = Base(page) + 12
  /\ Leaving /\ Middle(page)
  /\ kstack[page][Base(page) + 11] = <<"task", cur>>
  /\ regs["ebp"] = At(page, Base(page) + 7)
AtCambioPila ==
  /\ pc = "cambio_pila"
  /\ Len(kstack[page]) = Base(page) + 19
  /\ Leaving /\ Middle(page) /\ Inner(page)
  /\ kstack[page][Base(page) + 17] = kernel_esp[cur]
  /\ kstack[page][Base(page) + 18] = <<"task", page>>
  /\ regs["ebp"] = At(page, Base(page) + 13)

AtInnerEnd ==
  /\ pc = "c_end"
  /\ Len(kstack[page]) = Base(page) + 18
  /\ Resumable(page) /\ Outer(page) /\ Middle(page)
  /\ kstack[page][Base(page) + 13] = At(page, Base(page) + 7)
  /\ regs["ebp"] = At(page, Base(page) + 13)
AtTaskSwitchEnd ==
  /\ pc = "task_switch_end"
  /\ Len(kstack[page]) = Base(page) + 11
  /\ Resumable(page) /\ Outer(page)
  /\ kstack[page][Base(page) + 7] = At(page, Base(page) + 1)
  /\ regs["ebp"] = At(page, Base(page) + 7)
AtOuterEnd ==
  /\ pc = "c_end"
  /\ Len(kstack[page]) = Base(page) + 5
  /\ Resumable(page)
  /\ regs["ebp"] = At(page, Base(page) + 1)

Executing ==
  \/ AtUser \/ AtHlt \/ AtSysenter \/ AtRoutine \/ AtHandlerEnd \/ AtSysenterFin
  \/ AtCpuIdle \/ AtTaskSwitch \/ AtInnerTaskSwitch \/ AtCambioPila \/ AtInnerEnd
  \/ AtTaskSwitchEnd \/ AtOuterEnd

\* Where the CPU is.
OnCpu ==
  /\ page # cur <=> pc \in {"task_switch", "inner_task_switch", "cambio_pila"}
  /\ tss_esp0 = IF pc = "cambio_pila" THEN cur ELSE page
  /\ sysenter_esp = tss_esp0 /\ cr3 = tss_esp0

Domains ==
  /\ DOMAIN kstack = Task /\ DOMAIN kernel_esp = Task /\ DOMAIN ustack = Task
  /\ DOMAIN caller = Task /\ DOMAIN interrupted = Task

Shape ==
  /\ page \in Task
  /\ IsRegs(regs)
  /\ Domains
  /\ \A t \in Task : /\ IsSeq(kstack[t]) /\ Len(kstack[t]) <= 37
                     /\ IsSeq(ustack[t]) /\ Len(ustack[t]) <= 7

Scheduled ==
  /\ RRTypeOK /\ OnePlace
  /\ blocked \subseteq Task \ (Queued \cup {cur, Idle})

KSInv ==
  /\ Scheduled /\ OnCpu /\ Shape /\ Executing
  /\ \A t \in Task : t # page /\ Used(t) => Suspended(t)

-----------------------------------------------------------------------------
(* Words, registers and stacks.                                            *)

\* What the words say.
LEMMA Words ==
  /\ \A l : Target(Code(l)) = l
  /\ \A t, n : At(t, n)[2] = t /\ At(t, n)[3] = n
  /\ \A t : <<"task", t>>[2] = t
  /\ \A n : UserAt(n)[2] = n /\ Num(n)[2] = n
  /\ UserCS # KernelCS
BY DEF Target, Code, At, UserAt, Num, UserCS, KernelCS

\* The registers that SAVE_ALL pushes are eleven.
LEMMA SavedRegs ==
  /\ Len(Saved) = 11 /\ DOMAIN Saved = 1..11
  /\ Reg = {"gs", "fs", "es", "ds", "eax", "ebp", "edi", "esi", "ebx", "ecx", "edx"}
<1>1. Len(Saved) = 11 /\ DOMAIN Saved = 1..11
  BY DEF Saved
<1>2. Reg = {Saved[1], Saved[2], Saved[3], Saved[4], Saved[5], Saved[6], Saved[7], Saved[8],
             Saved[9], Saved[10], Saved[11]}
  BY <1>1 DEF Reg, Range
<1> QED
  BY <1>1, <1>2 DEF Saved

\* Each of them has its place.
LEMMA IdxSaved ==
  /\ \A r \in Reg : Idx(r) \in 1..11 /\ Saved[Idx(r)] = r
  /\ Idx("eax") = 5
<1>1. ASSUME NEW r \in Reg PROVE Idx(r) \in 1..11 /\ Saved[Idx(r)] = r
  <2>1. \E j \in 1..11 : Saved[j] = r
    BY SavedRegs DEF Reg, Range
  <2> QED
    BY <2>1, SavedRegs DEF Idx
<1>2. "eax" \in Reg
  BY SavedRegs
<1>3. \A j \in 1..11 : Saved[j] = "eax" => j = 5
  BY DEF Saved
<1> QED
  BY <1>1, <1>2, <1>3

\* A register is set.
LEMMA SetReg ==
  ASSUME NEW r, IsRegs(r), NEW k \in Reg, NEW v
  PROVE  /\ IsRegs([r EXCEPT ![k] = v])
         /\ \A x \in Reg : [r EXCEPT ![k] = v][x] = IF x = k THEN v ELSE r[x]
BY DEF IsRegs

LEMMA SeqDomain ==
  ASSUME NEW s, IsSeq(s)
  PROVE  Len(s) \in Nat /\ DOMAIN s = 1..Len(s)
BY LenProperties DEF IsSeq

LEMMA IsSeqOf ==
  ASSUME NEW S, NEW s \in Seq(S)
  PROVE  IsSeq(s)
BY SeqOfRange DEF IsSeq

\* Words pushed, all at once.
LEMMA PushAll ==
  ASSUME NEW s, IsSeq(s), NEW u, IsSeq(u)
  PROVE  /\ IsSeq(s \o u)
         /\ Len(s \o u) = Len(s) + Len(u)
         /\ \A i \in 1..Len(s) : (s \o u)[i] = s[i]
         /\ \A i \in 1..Len(u) : (s \o u)[Len(s) + i] = u[i]
<1> DEFINE W == Range(s) \cup Range(u)
<1>1. s \in Seq(W) /\ u \in Seq(W)
  BY SeqMonotonic DEF IsSeq
<1>2. Len(s) \in Nat /\ Len(u) \in Nat
  BY SeqDomain
<1> HIDE DEF W
<1>3. /\ s \o u \in Seq(W)
      /\ Len(s \o u) = Len(s) + Len(u)
      /\ \A i \in 1..Len(s) + Len(u) : (s \o u)[i] = IF i <= Len(s) THEN s[i] ELSE u[i - Len(s)]
  BY <1>1, ConcatProperties
<1>4. IsSeq(s \o u)
  BY <1>3, IsSeqOf
<1>5. \A i \in 1..Len(s) : (s \o u)[i] = s[i]
  BY <1>2, <1>3
<1>6. \A i \in 1..Len(u) : (s \o u)[Len(s) + i] = u[i]
  BY <1>2, <1>3
<1> QED
  BY <1>3, <1>4, <1>5, <1>6

\* One word pushed.
LEMMA Push ==
  ASSUME NEW s, IsSeq(s), NEW w
  PROVE  /\ IsSeq(Append(s, w))
         /\ Len(Append(s, w)) = Len(s) + 1
         /\ \A i \in 1..Len(s) : Append(s, w)[i] = s[i]
         /\ Append(s, w)[Len(s) + 1] = w
<1> DEFINE W == Range(s) \cup {w}
<1>1. s \in Seq(W) /\ w \in W
  BY SeqMonotonic DEF IsSeq
<1> HIDE DEF W
<1>2. /\ Append(s, w) \in Seq(W)
      /\ Len(Append(s, w)) = Len(s) + 1
      /\ \A i \in 1..Len(s) : Append(s, w)[i] = s[i]
      /\ Append(s, w)[Len(s) + 1] = w
  BY <1>1, AppendProperties
<1>3. IsSeq(Append(s, w))
  BY <1>2, IsSeqOf
<1> QED
  BY <1>2, <1>3

\* Words popped.
LEMMA Pop ==
  ASSUME NEW s, IsSeq(s), NEW n \in 0..Len(s)
  PROVE  /\ IsSeq(SubSeq(s, 1, n))
         /\ Len(SubSeq(s, 1, n)) = n
         /\ \A i \in 1..n : SubSeq(s, 1, n)[i] = s[i]
<1>1. Len(s) \in Nat /\ \A i \in 1..n : s[i] \in Range(s)
  BY SeqDomain DEF Range
<1>2. /\ SubSeq(s, 1, n) \in Seq(Range(s))
      /\ Len(SubSeq(s, 1, n)) = IF 1 <= n THEN n - 1 + 1 ELSE 0
      /\ \A i \in 1..n - 1 + 1 : SubSeq(s, 1, n)[i] = s[1 + i - 1]
  BY <1>1, SubSeqProperties
<1>3. IsSeq(SubSeq(s, 1, n))
  BY <1>2, IsSeqOf
<1> QED
  BY <1>1, <1>2, <1>3

LEMMA PopOne ==
  ASSUME NEW s, IsSeq(s), Len(s) > 0
  PROVE  /\ Last(s) = s[Len(s)]
         /\ IsSeq(Front(s))
         /\ Len(Front(s)) = Len(s) - 1
         /\ \A i \in 1..Len(s) - 1 : Front(s)[i] = s[i]
<1>1. Len(s) - 1 \in 0..Len(s)
  BY SeqDomain
<1>2. /\ IsSeq(SubSeq(s, 1, Len(s) - 1))
      /\ Len(SubSeq(s, 1, Len(s) - 1)) = Len(s) - 1
      /\ \A i \in 1..Len(s) - 1 : SubSeq(s, 1, Len(s) - 1)[i] = s[i]
  BY <1>1, Pop
<1> QED
  BY <1>2 DEF Last, Front

\* A word overwritten.
Put(s, i, w) == [s EXCEPT ![i] = w]

LEMMA PutWord ==
  ASSUME NEW s, IsSeq(s), NEW i \in 1..Len(s), NEW w
  PROVE  /\ IsSeq(Put(s, i, w))
         /\ Len(Put(s, i, w)) = Len(s)
         /\ \A j \in 1..Len(s) : Put(s, i, w)[j] = IF j = i THEN w ELSE s[j]
<1> DEFINE W == Range(s) \cup {w}
<1>1. s \in Seq(W) /\ w \in W
  BY SeqMonotonic DEF IsSeq
<1> HIDE DEF W
<1>2. /\ [s EXCEPT ![i] = w] \in Seq(W)
      /\ Len([s EXCEPT ![i] = w]) = Len(s)
      /\ \A j \in 1..Len(s) : [s EXCEPT ![i] = w][j] = IF j = i THEN w ELSE s[j]
  BY <1>1, ExceptSeq
<1>3. IsSeq([s EXCEPT ![i] = w])
  BY <1>2, IsSeqOf
<1> QED
  BY <1>2, <1>3 DEF Put

\* The words that one step pushes.
LEMMA Tuples ==
  /\ IsSeq(<< >>) /\ Len(<< >>) = 0
  /\ \A a, b : IsSeq(<<a, b>>) /\ Len(<<a, b>>) = 2
  /\ \A a, b, c : IsSeq(<<a, b, c>>) /\ Len(<<a, b, c>>) = 3
  /\ \A a, b, c, d : IsSeq(<<a, b, c, d>>) /\ Len(<<a, b, c, d>>) = 4
  /\ \A a, b, c, d, e : IsSeq(<<a, b, c, d, e>>) /\ Len(<<a, b, c, d, e>>) = 5
  /\ \A a, b, c, d, e, f : IsSeq(<<a, b, c, d, e, f>>) /\ Len(<<a, b, c, d, e, f>>) = 6
  /\ \A a, b, c, d, e, f, g : IsSeq(<<a, b, c, d, e, f, g>>) /\ Len(<<a, b, c, d, e, f, g>>) = 7
<1>1. << >> \in Seq({}) /\ Len(<< >>) = 0
  BY EmptySeq
<1>2. ASSUME NEW a, NEW b PROVE <<a, b>> \in Seq({a, b}) /\ Len(<<a, b>>) = 2
  OBVIOUS
<1>3. ASSUME NEW a, NEW b, NEW c
      PROVE  <<a, b, c>> \in Seq({a, b, c}) /\ Len(<<a, b, c>>) = 3
  OBVIOUS
<1>4. ASSUME NEW a, NEW b, NEW c, NEW d
      PROVE  <<a, b, c, d>> \in Seq({a, b, c, d}) /\ Len(<<a, b, c, d>>) = 4
  OBVIOUS
<1>5. ASSUME NEW a, NEW b, NEW c, NEW d, NEW e
      PROVE  <<a, b, c, d, e>> \in Seq({a, b, c, d, e}) /\ Len(<<a, b, c, d, e>>) = 5
  OBVIOUS
<1>6. ASSUME NEW a, NEW b, NEW c, NEW d, NEW e, NEW f
      PROVE  <<a, b, c, d, e, f>> \in Seq({a, b, c, d, e, f}) /\ Len(<<a, b, c, d, e, f>>) = 6
  OBVIOUS
<1>7. ASSUME NEW a, NEW b, NEW c, NEW d, NEW e, NEW f, NEW g
      PROVE  <<a, b, c, d, e, f, g>> \in Seq({a, b, c, d, e, f, g}) /\ Len(<<a, b, c, d, e, f, g>>) = 7
  OBVIOUS
<1> QED
  BY <1>1, <1>2, <1>3, <1>4, <1>5, <1>6, <1>7, IsSeqOf

\* The two parts of what a wrapper pushes.
LEMMA TwoAndFour ==
  ASSUME NEW a, NEW b, NEW c, NEW d, NEW e, NEW f
  PROVE  <<a, b>> \o <<c, d, e, f>> = <<a, b, c, d, e, f>>
<1> DEFINE W == {a, b, c, d, e, f}
           x == <<a, b>>
           y == <<c, d, e, f>>
           z == <<a, b, c, d, e, f>>
<1>1. /\ x \in Seq(W) /\ Len(x) = 2 /\ x[1] = a /\ x[2] = b
      /\ y \in Seq(W) /\ Len(y) = 4 /\ y[1] = c /\ y[2] = d /\ y[3] = e /\ y[4] = f
  OBVIOUS
<1>2. /\ z \in Seq(W) /\ Len(z) = 6
      /\ z[1] = a /\ z[2] = b /\ z[3] = c /\ z[4] = d /\ z[5] = e /\ z[6] = f
  OBVIOUS
<1> HIDE DEF W, x, y, z
<1>3. /\ x \o y \in Seq(W)
      /\ Len(x \o y) = Len(x) + Len(y)
      /\ \A i \in 1..Len(x) + Len(y) : (x \o y)[i] = IF i <= Len(x) THEN x[i] ELSE y[i - Len(x)]
  BY <1>1, ConcatProperties
<1>4. Len(x \o y) = Len(z)
  BY <1>1, <1>2, <1>3
<1>6. \A i \in 1..Len(x \o y) : (x \o y)[i] = z[i]
  BY <1>1, <1>2, <1>3
<1>5. x \o y = z
  BY <1>2, <1>3, <1>4, <1>6, SeqEqual
<1> QED
  BY <1>5 DEF x, y, z

LEMMA TwoAndFive ==
  ASSUME NEW a, NEW b, NEW c, NEW d, NEW e, NEW f, NEW g
  PROVE  <<a, b>> \o <<c, d, e, f, g>> = <<a, b, c, d, e, f, g>>
<1> DEFINE W == {a, b, c, d, e, f, g}
           x == <<a, b>>
           y == <<c, d, e, f, g>>
           z == <<a, b, c, d, e, f, g>>
<1>1. /\ x \in Seq(W) /\ Len(x) = 2 /\ x[1] = a /\ x[2] = b
      /\ y \in Seq(W) /\ Len(y) = 5
      /\ y[1] = c /\ y[2] = d /\ y[3] = e /\ y[4] = f /\ y[5] = g
  OBVIOUS
<1>2. /\ z \in Seq(W) /\ Len(z) = 7
      /\ z[1] = a /\ z[2] = b /\ z[3] = c /\ z[4] = d /\ z[5] = e /\ z[6] = f /\ z[7] = g
  OBVIOUS
<1> HIDE DEF W, x, y, z
<1>3. /\ x \o y \in Seq(W)
      /\ Len(x \o y) = Len(x) + Len(y)
      /\ \A i \in 1..Len(x) + Len(y) : (x \o y)[i] = IF i <= Len(x) THEN x[i] ELSE y[i - Len(x)]
  BY <1>1, ConcatProperties
<1>4. Len(x \o y) = Len(z)
  BY <1>1, <1>2, <1>3
<1>6. \A i \in 1..Len(x \o y) : (x \o y)[i] = z[i]
  BY <1>1, <1>2, <1>3
<1>5. x \o y = z
  BY <1>2, <1>3, <1>4, <1>6, SeqEqual
<1> QED
  BY <1>5 DEF x, y, z

\* SAVE_ALL and the call of the routine.
LEMMA SavedAll ==
  ASSUME NEW s, IsSeq(s), IsRegs(regs), NEW e
  PROVE  /\ IsSeq(Append(SaveAll(s), e))
         /\ Len(Append(SaveAll(s), e)) = Len(s) + 12
         /\ \A i \in 1..Len(s) : Append(SaveAll(s), e)[i] = s[i]
         /\ Append(SaveAll(s), e)[Len(s) + 12] = e
         /\ Popped(Append(SaveAll(s), e), Len(s)) = regs
<1> DEFINE pushed == [i \in 1..Len(Saved) |-> regs[Saved[i]]]
<1>1. pushed \in [1..11 -> Range(pushed)] /\ pushed = [i \in 1..11 |-> regs[Saved[i]]]
  BY SavedRegs DEF Range
<1>2. IsSeq(pushed)
  <2> HIDE DEF pushed
  <2> QED
    BY <1>1, SeqDef DEF IsSeq
<1>3. SaveAll(s) = s \o pushed
  BY DEF SaveAll
<1> HIDE DEF pushed
<1>4. /\ IsSeq(s \o pushed)
      /\ Len(s \o pushed) = Len(s) + Len(pushed)
      /\ \A i \in 1..Len(s) : (s \o pushed)[i] = s[i]
      /\ \A i \in 1..Len(pushed) : (s \o pushed)[Len(s) + i] = pushed[i]
  BY <1>2, PushAll
<1>5. Len(pushed) = 11
  BY <1>1, <1>2 DEF IsSeq
<1>6. \A i \in 1..11 : pushed[i] = regs[Saved[i]]
  BY <1>1
<1> PICK S : S = SaveAll(s)
  OBVIOUS
<1>7. IsSeq(S)
  BY <1>3, <1>4
<1> PICK T : T = Append(S, e)
  OBVIOUS
<1>8. /\ IsSeq(T)
      /\ Len(T) = Len(S) + 1
      /\ \A i \in 1..Len(S) : T[i] = S[i]
      /\ T[Len(S) + 1] = e
  BY <1>7, Push
<1>n. PICK n : n = Len(s) /\ n \in Nat
  BY SeqDomain
<1>9. Len(S) = n + 11 /\ \A i \in 1..n : S[i] = s[i]
  BY <1>3, <1>4, <1>5, <1>n
<1>10. \A i \in 1..11 : S[n + i] = regs[Saved[i]]
  BY <1>3, <1>4, <1>5, <1>6, <1>n
<1>11. /\ IsSeq(T)
       /\ Len(T) = n + 12 /\ T[n + 12] = e /\ \A i \in 1..n + 11 : T[i] = S[i]
  <2>1. IsSeq(T)
    BY <1>8
  <2>2. Len(T) = n + 12
    BY <1>8, <1>9, <1>n
  <2>3. T[n + 12] = e
    BY <1>8, <1>9, <1>n
  <2>4. \A i \in 1..n + 11 : T[i] = S[i]
    BY <1>8, <1>9, <1>n
  <2> QED
    BY <2>1, <2>2, <2>3, <2>4
<1>12. ASSUME NEW i \in 1..n PROVE T[i] = s[i]
  BY <1>9, <1>11, <1>n
<1>13. ASSUME NEW r \in Reg PROVE T[n + Idx(r)] = regs[r]
  <2>1. Idx(r) \in 1..11 /\ Saved[Idx(r)] = r
    BY IdxSaved
  <2>2. n + Idx(r) \in 1..n + 11
    BY <2>1, <1>n
  <2> QED
    BY <1>10, <1>11, <2>1, <2>2
<1>14. Popped(T, n) = regs
  BY <1>13 DEF Popped, IsRegs
<1> QED
  BY <1>11, <1>12, <1>14, <1>n

\* RESTORE_ALL.
LEMMA RestoredAll ==
  ASSUME NEW s, IsSeq(s), NEW d \in {4, 5}, Len(s) = d + 11
  PROVE  /\ RestoreAll(s) = Popped(s, d)
         /\ IsSeq(Unsaved(s))
         /\ Len(Unsaved(s)) = d
         /\ \A i \in 1..d : Unsaved(s)[i] = s[i]
<1>1. Len(s) - Len(Saved) = d /\ d \in 0..Len(s)
  BY SavedRegs
<1>2. Unsaved(s) = SubSeq(s, 1, d)
  BY <1>1 DEF Unsaved
<1>3. IsSeq(SubSeq(s, 1, d))
  BY <1>1, Pop
<1>4. Len(SubSeq(s, 1, d)) = d /\ \A i \in 1..d : SubSeq(s, 1, d)[i] = s[i]
  BY <1>1, Pop
<1>5. RestoreAll(s) = Popped(s, d)
  BY <1>1 DEF RestoreAll, Popped, Idx
<1> QED
  BY <1>2, <1>3, <1>4, <1>5

-----------------------------------------------------------------------------
(* What a step does to a task depends on what it does to the task's stacks  *)
(* and to its history.                                                      *)

TaskState(t) == <<kstack[t], kernel_esp[t], ustack[t], caller[t], interrupted[t]>>

\* The first words of a stack, whatever is pushed or popped above them.
LEMMA SameBottom ==
  ASSUME NEW t, \A i \in 1..Base(t) - 1 : kstack'[t][i] = kstack[t][i],
         ustack'[t] = ustack[t], caller'[t] = caller[t], interrupted'[t] = interrupted[t]
  PROVE  /\ Interrupted(t) => Interrupted(t)'
         /\ Calling(t) => Calling(t)'
<1>1. CASE t = Idle
  <2>1. \A i \in 1..15 : kstack'[t][i] = kstack[t][i]
    BY <1>1 DEF Base
  <2>2. \A r \in Reg : 4 + Idx(r) \in 1..15
    BY IdxSaved
  <2>3. Popped(kstack[t], 4)' = Popped(kstack[t], 4)
    BY <2>1, <2>2 DEF Popped
  <2>4. kstack'[t][3] = kstack[t][3] /\ kstack'[t][4] = kstack[t][4]
    BY <2>1
  <2> QED
    BY <1>1, <2>3, <2>4 DEF Interrupted, Calling
<1>2. CASE t # Idle
  <2>1. \A i \in 1..16 : kstack'[t][i] = kstack[t][i]
    BY <1>2 DEF Base
  <2>2. \A r \in Reg : 5 + Idx(r) \in 1..16
    BY IdxSaved
  <2>3. Popped(kstack[t], 5)' = Popped(kstack[t], 5)
    BY <2>1, <2>2 DEF Popped
  <2>4. kstack'[t][2] = kstack[t][2] /\ kstack'[t][4] = kstack[t][4] /\ kstack'[t][5] = kstack[t][5]
    BY <2>1
  <2>5. Interrupted(t) => Interrupted(t)'
    BY <1>2, <2>3, <2>4 DEF Interrupted, InUser, InCall, Answered, Results
  <2>6. Calling(t) => Calling(t)'
    BY <1>2, <2>3, <2>4 DEF Calling, InCall
  <2> QED
    BY <2>5, <2>6
<1> QED
  BY <1>1, <1>2

\* Nothing about t changed.
LEMMA SameTask ==
  ASSUME NEW t \in Task, TaskState(t)' = TaskState(t), Suspended(t)
  PROVE  Suspended(t)'
BY DEF TaskState, Suspended, Switched, Forked, Fresh, Resumable, FromInterrupt, FromCall, Outer,
       Middle, Inner, Base, Interrupted, Calling, InUser, InCall, Answered, Results

\* The same, when the words up to where the handler goes on are as they were.
LEMMA SameResumable ==
  ASSUME NEW t, \A i \in 1..Base(t) : kstack'[t][i] = kstack[t][i],
         ustack'[t] = ustack[t], caller'[t] = caller[t], interrupted'[t] = interrupted[t]
  PROVE  /\ FromInterrupt(t) => FromInterrupt(t)'
         /\ FromCall(t) => FromCall(t)'
         /\ Resumable(t) => Resumable(t)'
<1>1. /\ \A i \in 1..Base(t) - 1 : kstack'[t][i] = kstack[t][i]
      /\ kstack'[t][Base(t)] = kstack[t][Base(t)]
  BY DEF Base
<1>2. /\ Interrupted(t) => Interrupted(t)'
      /\ Calling(t) => Calling(t)'
  BY <1>1, SameBottom
<1>3. Calling(t) => Base(t) = 17
  BY DEF Calling, Base
<1>4. Base(t)' = Base(t)
  BY DEF Base
<1> QED
  BY <1>1, <1>2, <1>3, <1>4 DEF FromInterrupt, FromCall, Resumable

\* The kernel writes down the result of a call.
LEMMA ResultGiven ==
  ASSUME NEW t \in DOMAIN caller, NEW v, Calling(t),
         \A i \in 1..Base(t) - 1 : kstack'[t][i] = kstack[t][i],
         ustack'[t] = ustack[t], caller' = [caller EXCEPT ![t].result = v]
  PROVE  Calling(t)' /\ caller'[t].result = v
<1>w. \A i \in 1..16 : kstack'[t][i] = kstack[t][i]
  BY DEF Calling, Base
<1>1. \A r \in Reg : 5 + Idx(r) \in 1..16
  BY IdxSaved
<1>2. Popped(kstack[t], 5)' = Popped(kstack[t], 5)
  BY <1>1, <1>w DEF Popped
<1>3. kstack'[t][2] = kstack[t][2] /\ kstack'[t][5] = kstack[t][5]
  BY <1>w
<1>4. PICK p \in Label : kstack[t][5] = Code(p) /\ InCall(t, p, Popped(kstack[t], 5))
  BY DEF Calling
<1>5. caller[t] = [regs |-> caller[t].regs, result |-> caller[t].result]
  BY <1>4 DEF InCall
<1>6. caller'[t] = [caller[t] EXCEPT !.result = v]
  OBVIOUS
<1>7. caller'[t] = [regs |-> caller[t].regs, result |-> v]
  BY <1>5, <1>6
<1>8. InCall(t, p, Popped(kstack[t], 5))'
  BY <1>2, <1>4, <1>7 DEF InCall
<1> QED
  BY <1>3, <1>4, <1>7, <1>8 DEF Calling

\* What runs next says how the stack looks.
LEMMA Executes ==
  ASSUME Executing
  PROVE  /\ InUserMode => AtUser
         /\ pc = "hlt" => AtHlt
         /\ pc = "syscall_handler_sysenter" => AtSysenter
         /\ pc \in SysRoutines \cup {"clock_routine", "keyboard_routine", "ret_from_fork"} => AtRoutine
         /\ pc = "handler_end" => AtHandlerEnd
         /\ pc = "sysenter_fin" => AtSysenterFin
         /\ pc = "cpu_idle" => AtCpuIdle
         /\ pc = "task_switch" => AtTaskSwitch
         /\ pc = "inner_task_switch" => AtInnerTaskSwitch
         /\ pc = "cambio_pila" => AtCambioPila
         /\ pc = "task_switch_end" => AtTaskSwitchEnd
         /\ pc = "c_end" => AtInnerEnd \/ AtOuterEnd
BY DEF Executing, AtUser, AtHlt, AtSysenter, AtRoutine, AtHandlerEnd, AtSysenterFin, AtCpuIdle,
       AtTaskSwitch, AtInnerTaskSwitch, AtCambioPila, AtInnerEnd, AtTaskSwitchEnd, AtOuterEnd,
       InUserMode, SysRoutines

\* A step that stays on the stack of page.
Local ==
  /\ page' = page
  /\ Domains'
  /\ \A t \in Task : t # page => TaskState(t)' = TaskState(t) /\ (Used(t)' => Used(t))

\* What such a step leaves to prove.
LEMMA LocalStep ==
  ASSUME KSInv, Local, IsRegs(regs'),
         IsSeq(kstack'[page]), Len(kstack'[page]) <= 37,
         IsSeq(ustack'[page]), Len(ustack'[page]) <= 7
  PROVE  /\ Shape'
         /\ \A t \in Task : t # page' /\ Used(t)' => Suspended(t)'
<1>1. Shape'
  BY DEF KSInv, Shape, Local, Domains, TaskState
<1>2. ASSUME NEW t \in Task, t # page', Used(t)' PROVE Suspended(t)'
  BY <1>2, SameTask DEF KSInv, Local
<1> QED
  BY <1>1, <1>2

-----------------------------------------------------------------------------
(* The kernel is a client of the scheduler.                                *)

\* A system call runs on the stack of the current task, which is not idle.
LEMMA CallerIsCurrent ==
  ASSUME KSInv, pc \in SysRoutines
  PROVE  page = cur /\ page # Idle /\ AtRoutine /\ FromCall(page) /\ tss_esp0 = page /\ cr3 = page
<1>1. AtRoutine
  BY Executes DEF KSInv
<1>2. FromCall(page)
  BY <1>1 DEF AtRoutine, SysRoutines
<1>3. page # Idle
  BY <1>2 DEF FromCall, Calling
<1>4. page = cur /\ tss_esp0 = page /\ cr3 = page
  BY DEF KSInv, OnCpu, SysRoutines
<1> QED
  BY <1>1, <1>2, <1>3, <1>4

\* A blocked task is in no queue.
LEMMA WakeArrives ==
  ASSUME KSInv, NEW b \in blocked, Wake(b)
  PROVE  Arrive(b) /\ b \in Task
BY DEF KSInv, Scheduled, Wake, Arrive

\* Every step is one of the scheduler's, or changes none of its variables.
LEMMA StepOfScheduler ==
  ASSUME KSInv, [KSNext]_ksVars
  PROVE  [RRNext]_rrVars /\ blocked' \subseteq Task \ (Queued' \cup {cur', Idle})
<1> USE RRAssumption
<1>i. RRTypeOK /\ OnePlace /\ blocked \subseteq Task \ (Queued \cup {cur, Idle}) /\ page \in Task
  BY DEF KSInv, Scheduled, Shape
<1>r. readyqueue \in Seq(Task) /\ IsInjective(readyqueue) /\ cur \notin Range(readyqueue) /\ cur \in Task
  BY <1>i DEF RRTypeOK, OnePlace, Queued
<1>1. CASE UNCHANGED <<rrVars, blocked>>
  BY <1>1, <1>i DEF rrVars, Queued
<1>2. ASSUME NEW b \in blocked, Wake(b)
      PROVE  RRNext /\ blocked' \subseteq Task \ (Queued' \cup {cur', Idle})
  <2>1. Arrive(b) /\ b \in Task
    BY <1>2, WakeArrives
  <2>2. Range(Append(readyqueue, b)) = Range(readyqueue) \cup {b}
    BY <2>1, <1>r, AppendFresh DEF Arrive, Queued
  <2> QED
    BY <1>2, <1>i, <2>1, <2>2 DEF RRNext, Wake, MakeReady, Queued
<1>3. ASSUME NEW c \in Task, SysFork(c)
      PROVE  RRNext /\ blocked' \subseteq Task \ (Queued' \cup {cur', Idle})
  <2>1. Arrive(c) /\ c \notin blocked
    BY <1>3 DEF SysFork, Used, Arrive
  <2>2. Range(Append(readyqueue, c)) = Range(readyqueue) \cup {c}
    BY <2>1, <1>r, AppendFresh DEF Arrive, Queued
  <2> QED
    BY <1>3, <1>i, <2>1, <2>2 DEF RRNext, SysFork, MakeReady, Queued
<1>4. ASSUME pc \in SysRoutines, SchedNext(readyqueue), blocked' \subseteq blocked \cup {page}
      PROVE  RRNext /\ blocked' \subseteq Task \ (Queued' \cup {cur', Idle})
  <2>1. page = cur /\ cur # Idle
    BY <1>4, CallerIsCurrent
  <2>2. Leave
    BY <1>4, <2>1 DEF Leave
  <2>3. Queued' \cup {cur', Idle} = Range(readyqueue) \cup {Idle}
    BY <1>4, <1>r, SchedNextSafe
  <2> QED
    BY <1>4, <1>i, <1>r, <2>1, <2>2, <2>3 DEF RRNext, Queued
<1>5. ASSUME Schedule, UNCHANGED blocked
      PROVE  RRNext /\ blocked' \subseteq Task \ (Queued' \cup {cur', Idle})
  <2>1. CASE SchedNext(Append(readyqueue, cur))
    <3>1. /\ Append(readyqueue, cur) \in Seq(Task)
          /\ IsInjective(Append(readyqueue, cur))
          /\ Range(Append(readyqueue, cur)) = Range(readyqueue) \cup {cur}
      BY <1>r, AppendFresh
    <3>2. Queued' \cup {cur', Idle} = Range(readyqueue) \cup {cur, Idle}
      BY <2>1, <3>1, SchedNextSafe
    <3> QED
      BY <1>5, <1>i, <3>2 DEF RRNext, Tick, Queued
  <2>2. CASE UNCHANGED <<cur, readyqueue>>
    BY <1>5, <1>i, <2>2 DEF RRNext, Tick, Queued
  <2> QED
    BY <1>5, <2>1, <2>2 DEF Schedule
<1>6. CASE Routine
  <2>1. CASE SysBlock \/ SysExit
    BY <1>4, <2>1 DEF SysBlock, SysExit, SysRoutines
  <2>2. CASE ClockSwitches \/ ClockStays
    BY <1>5, <2>2 DEF ClockSwitches, ClockStays
  <2>3. CASE \E b \in blocked : SysUnblock(b) \/ KeyboardWakes(b)
    BY <1>2, <2>3 DEF SysUnblock, KeyboardWakes
  <2>4. CASE \E c \in Task : SysFork(c)
    BY <1>3, <2>4
  <2>5. CASE \E v \in {Num(0), Error} : SysOther(v)
    BY <1>1, <2>5 DEF SysOther
  <2>6. CASE SysUnblockFails \/ KeyboardWakesNobody \/ SysForkFails \/ SysBlockNot
    BY <1>1, <2>6 DEF SysUnblockFails, KeyboardWakesNobody, SysForkFails, SysBlockNot
  <2> QED
    BY <1>6, <2>1, <2>2, <2>3, <2>4, <2>5, <2>6 DEF Routine
<1>7. CASE Switch
  BY <1>1, <1>7 DEF Switch, TaskSwitch, InnerTaskSwitch, CambioPila, CEnd, TaskSwitchEnd, RetFromFork,
                    CpuIdle, outside
<1>8. CASE SysenterEntry \/ SysenterFin \/ HandlerEnd
  BY <1>1, <1>8 DEF SysenterEntry, SysenterFin, HandlerEnd
<1>9. CASE User
  BY <1>1, <1>9 DEF User, WrapperReturn, Program, Wrapper
<1>10. CASE Interrupt("clock_routine") \/ Interrupt("keyboard_routine")
  BY <1>1, <1>10 DEF Interrupt
<1>11. CASE UNCHANGED ksVars
  BY <1>1, <1>11 DEF ksVars
<1> QED
  BY <1>6, <1>7, <1>8, <1>9, <1>10, <1>11 DEF KSNext, Kernel

LEMMA ScheduledStep ==
  ASSUME KSInv, [KSNext]_ksVars
  PROVE  Scheduled'
<1>1. RRTypeOK /\ OnePlace
  BY DEF KSInv, Scheduled
<1> QED
  BY <1>1, StepOfScheduler, RRSafeStep DEF Scheduled

-----------------------------------------------------------------------------
(* Steps of programs, and the two ways into the kernel.                    *)

\* The steps keep the invariant, but for what StepOfScheduler says.
Kept ==
  /\ OnCpu' /\ Shape' /\ Executing'
  /\ \A t \in Task : t # page' /\ Used(t)' => Suspended(t)'

\* Outside task_switch, the CPU is on the stack of the current task.
LEMMA Current ==
  ASSUME KSInv, pc \notin {"task_switch", "inner_task_switch", "cambio_pila"}
  PROVE  page = cur /\ tss_esp0 = page /\ sysenter_esp = page /\ cr3 = page
BY DEF KSInv, OnCpu

\* What Shape says of the stacks of page.
LEMMA Stacks ==
  ASSUME KSInv
  PROVE  /\ page \in Task /\ IsRegs(regs) /\ Domains
         /\ IsSeq(kstack[page]) /\ Len(kstack[page]) \in Nat /\ Len(kstack[page]) <= 37
         /\ IsSeq(ustack[page]) /\ Len(ustack[page]) \in Nat /\ Len(ustack[page]) <= 7
<1>1. /\ page \in Task /\ IsRegs(regs) /\ Domains
      /\ IsSeq(kstack[page]) /\ Len(kstack[page]) <= 37
      /\ IsSeq(ustack[page]) /\ Len(ustack[page]) <= 7
  BY DEF KSInv, Shape
<1> QED
  BY <1>1, SeqDomain

\* The wrappers pass numbers that are in sys_call_table.
LEMMA CallNumbers == \A nr \in Calls : nr \in 0..35 /\ nr # 0
<1>1. DOMAIN ProcessCalls = {"exit", "fork", "gettime", "getpid", "block", "unblock"}
  BY DEF ProcessCalls
<1>2. DOMAIN ScreenCalls = {"read", "write", "gotoxy", "set_color", "get_stats"}
  BY DEF ScreenCalls
<1>3. DOMAIN ShmCalls = {"shmat", "shmdt", "shmrm"}
  BY DEF ShmCalls
<1>4. \A nr \in Range(ProcessCalls) : nr \in 1..35
  BY <1>1 DEF Range, ProcessCalls
<1>5. \A nr \in Range(ScreenCalls) : nr \in 1..35
  BY <1>2 DEF Range, ScreenCalls
<1>6. \A nr \in Range(ShmCalls) : nr \in 1..35
  BY <1>3 DEF Range, ShmCalls
<1> QED
  BY <1>4, <1>5, <1>6, KernelStackAssumption

LEMMA Routines == \A nr \in 0..35 : sys_call_table[nr] \in SysRoutines
BY DEF sys_call_table, SysRoutines

\* A program may put what it likes in its registers.
LEMMA ProgramKeeps ==
  ASSUME KSInv, Program
  PROVE  Kept
<1>1. AtUser
  BY Executes DEF KSInv, Program, InUserMode
<1>2. page = cur /\ tss_esp0 = page /\ sysenter_esp = page /\ cr3 = page
  BY Current DEF Program
<1>3. /\ IsRegs(regs')
      /\ regs'["ds"] = UserDS /\ regs'["es"] = UserDS
  BY SavedRegs DEF Program, UserRegs, IsRegs, General
<1>4. Local
  BY Stacks DEF Program, Local, Domains, TaskState, machine, history, rrVars, Used, Queued
<1>5. ustack[page] = << >>
  BY <1>1 DEF Program, AtUser, InUser, InCall
<1>6. Executing'
  BY <1>1, <1>3, <1>5 DEF Program, Executing, AtUser, InUserMode, InUser
<1>7. OnCpu'
  BY DEF KSInv, OnCpu, Program, machine, rrVars
<1> QED
  BY <1>3, <1>4, <1>6, <1>7, LocalStep, Stacks DEF Program, Kept

\* A wrapper leaves room for nothing else: six words, or seven for write.
LEMMA WrapperKeeps ==
  ASSUME KSInv, NEW nr \in Calls, Wrapper(nr)
  PROVE  Kept
<1> DEFINE push == IF nr = ScreenCalls.write
                   THEN <<Code("program"), regs["ebp"], regs["ebx"], Num(2), Num(1),
                          Code("write_return"), UserAt(2)>>
                   ELSE <<Code("program"), regs["ebp"], Num(2), Num(1),
                          Code("call_return"), UserAt(2)>>
           next == IF nr = ScreenCalls.write THEN "write_return" ELSE "call_return"
<1>1. AtUser
  BY Executes DEF KSInv, Wrapper, InUserMode
<1>2. page = cur /\ tss_esp0 = page /\ sysenter_esp = page /\ cr3 = page
  BY Current DEF Wrapper
<1>3. ustack[page] = << >>
  BY <1>1 DEF Wrapper, AtUser, InUser, InCall
<1>4. /\ pc' = "syscall_handler_sysenter"
      /\ page' = page
      /\ kstack' = [kstack EXCEPT ![page] = << >>]
  BY <1>2 DEF Wrapper
<1> DEFINE args == [regs EXCEPT !.edx = Num(1), !.ecx = Num(2)]
           said == IF nr = ScreenCalls.write
                   THEN <<Code("program"), regs.ebp>>
                        \o <<regs.ebx, args.ecx, args.edx, Code("write_return"), UserAt(2)>>
                   ELSE <<Code("program"), regs.ebp>>
                        \o <<args.ecx, args.edx, Code("call_return"), UserAt(2)>>
<1>5. /\ ustack' = [ustack EXCEPT ![cr3] = @ \o said]
      /\ regs' = [args EXCEPT !.eax = Num(nr), !.ebp = UserAt(Len(said)),
                              !.ebx = IF nr = ScreenCalls.write THEN Num(3) ELSE @]
  <2> HIDE DEF push, next
  <2> QED
    BY DEF Wrapper
<1>6. args["ecx"] = Num(2) /\ args["edx"] = Num(1)
  BY Stacks, SavedRegs DEF IsRegs
<1> DEFINE parts == IF nr = ScreenCalls.write
                    THEN <<Code("program"), regs["ebp"]>>
                         \o <<regs["ebx"], Num(2), Num(1), Code("write_return"), UserAt(2)>>
                    ELSE <<Code("program"), regs["ebp"]>>
                         \o <<Num(2), Num(1), Code("call_return"), UserAt(2)>>
<1>p. parts = push
  <2>1. <<Code("program"), regs["ebp"]>>
          \o <<regs["ebx"], Num(2), Num(1), Code("write_return"), UserAt(2)>>
        = <<Code("program"), regs["ebp"], regs["ebx"], Num(2), Num(1), Code("write_return"), UserAt(2)>>
    <3> HIDE DEF push, parts, next
    <3> QED
      BY TwoAndFive
  <2>2. <<Code("program"), regs["ebp"]>> \o <<Num(2), Num(1), Code("call_return"), UserAt(2)>>
        = <<Code("program"), regs["ebp"], Num(2), Num(1), Code("call_return"), UserAt(2)>>
    <3> HIDE DEF push, parts, next
    <3> QED
      BY TwoAndFour
  <2> QED
    BY <2>1, <2>2, Zenon
<1>s. said = parts
  <2> HIDE DEF args, push, next
  <2> QED
    BY <1>6
<1> HIDE DEF said
<1>7. ustack' = [ustack EXCEPT ![page] = ustack[page] \o parts]
  <2> HIDE DEF push, parts, args, next
  <2> QED
    BY <1>2, <1>5, <1>s, Stacks DEF Domains
<1>8. /\ IsSeq(push) /\ Len(push) = IF next = "write_return" THEN 7 ELSE 6
      /\ push[1] = Code("program") /\ push[2] = regs["ebp"]
      /\ next = "write_return" => push[3] = regs["ebx"]
      /\ push[Len(push) - 1] = Code(next)
  BY Tuples
<1>9. next = "call_return" => nr # ScreenCalls.write
  OBVIOUS
<1>10. caller' = [caller EXCEPT ![page] = [regs |-> Restrict(regs, CalleeSaved), result |-> Junk]]
  BY <1>2 DEF Wrapper
<1>n. next \in {"write_return", "call_return"}
  OBVIOUS
<1> HIDE DEF push, parts, next, said
<1>11. << >> \o push = push
  BY <1>8, ConcatEmptySeq DEF IsSeq
<1>12. ustack'[page] = push
  BY <1>p, <1>3, <1>7, <1>11, Stacks DEF Domains
<1>13. /\ IsRegs(regs')
       /\ regs'["eax"] = Num(nr) /\ regs'["ebp"] = UserAt(Len(push))
       /\ \A r \in {"ds", "es", "edi", "esi"} : regs'[r] = regs[r]
       /\ next = "call_return" => regs'["ebx"] = regs["ebx"]
  BY <1>5, <1>9, <1>p, <1>s, Stacks, SavedRegs DEF IsRegs
<1>14. /\ caller'[page] = [regs |-> caller'[page].regs, result |-> caller'[page].result]
       /\ \A r \in CalleeSaved : caller'[page].regs[r] = regs[r]
  BY <1>10, Stacks DEF Domains, Restrict
<1>15. regs["ds"] = UserDS /\ regs["es"] = UserDS /\ page # Idle
  BY <1>1 DEF AtUser, InUser, InCall
<1>16. Local
  BY <1>4, <1>7, <1>10, Stacks DEF Wrapper, Local, Domains, TaskState, machine, rrVars, Used, Queued
<1>17. kstack'[page] = << >> /\ IsSeq(<< >>) /\ Len(<< >>) = 0
  BY <1>4, Stacks, Tuples DEF Domains
<1>18. InCall(page, next, regs)'
  BY <1>n, <1>4, <1>8, <1>12, <1>13, <1>14, <1>15 DEF InCall, CalleeSaved
<1>19. AtSysenter'
  <2>1. next \in Label
    BY <1>n DEF Label
  <2> QED
    BY <1>4, <1>8, <1>12, <1>13, <1>15, <1>17, <1>18, <2>1, CallNumbers DEF AtSysenter
<1>20. OnCpu'
  BY <1>2, <1>4 DEF OnCpu, Wrapper, machine, rrVars
<1>21. Len(kstack'[page]) <= 37 /\ Len(ustack'[page]) <= 7 /\ IsSeq(ustack'[page]) /\ IsSeq(kstack'[page])
  <2>1. IsSeq(ustack'[page]) /\ IsSeq(kstack'[page])
    BY <1>8, <1>12, <1>17, Zenon
  <2>2. Len(ustack'[page]) <= 7
    <3>1. Len(push) <= 7
      BY <1>8
    <3> QED
      BY <3>1, <1>12
  <2>3. Len(kstack'[page]) <= 37
    BY <1>17
  <2> QED
    BY <2>1, <2>2, <2>3
<1> QED
  BY <1>13, <1>16, <1>19, <1>20, <1>21, LocalStep DEF Kept, Executing

\* The result of a call, as the wrapper leaves it in eax.
LEMMA Negative ==
  ASSUME NEW v \in Results
  PROVE  (v[1] = "int" /\ v[2] < 0) <=> v = Error
<1>1. CASE v = Num(0) \/ v = Error
  BY <1>1 DEF Num, Error
<1>2. CASE \E c \in Task : v = <<"pid", c>>
  <2>1. v[1] = "pid"
    BY <1>2
  <2>2. Error[1] = "int"
    BY DEF Error, Num
  <2> QED
    BY <2>1, <2>2
<1> QED
  BY <1>1, <1>2 DEF Results

\* The wrapper's end finds what its beginning pushed.
LEMMA WrapperReturns ==
  ASSUME KSInv, WrapperReturn
  PROVE  Kept /\ caller[cur] # Nothing /\ AsCalled(caller[cur])
<1>1. AtUser /\ pc \in {"call_return", "write_return"}
  BY Executes DEF KSInv, WrapperReturn, InUserMode
<1>2. page = cur /\ tss_esp0 = page /\ sysenter_esp = page /\ cr3 = page
  BY Current DEF WrapperReturn
<1>3. InCall(page, pc, regs) /\ Answered(page, regs["eax"]) /\ page # Idle
  BY <1>1 DEF AtUser, InUser
<1> DEFINE u == ustack[page]
           n == Len(u)
           m == IF pc = "write_return" THEN n - 5 ELSE n - 4
           left == SubSeq(u, 1, m)
<1>n. n \in 6..7 /\ m = 2
  BY <1>3, Stacks DEF InCall
<1>4. IsSeq(u)
  BY Stacks
<1>5. IsSeq(left) /\ Len(left) = 2 /\ left[1] = Code("program") /\ left[2] = u[2]
  <2>1. 2 \in 0..Len(u)
    <3>1. PICK k : k = n /\ k \in 6..7
      BY <1>n
    <3> HIDE DEF u, m, left
    <3> QED
      BY <3>1
  <2>2. u[1] = Code("program")
    BY <1>3 DEF InCall
  <2> HIDE DEF u
  <2>3. /\ IsSeq(SubSeq(u, 1, 2)) /\ Len(SubSeq(u, 1, 2)) = 2
        /\ \A i \in 1..2 : SubSeq(u, 1, 2)[i] = u[i]
    BY <1>4, <2>1, Pop
  <2>4. SubSeq(u, 1, 2)[1] = u[1] /\ SubSeq(u, 1, 2)[2] = u[2]
    BY <2>3
  <2>5. left = SubSeq(u, 1, 2)
    BY <1>n
  <2> HIDE DEF left
  <2> QED
    BY <2>2, <2>3, <2>4, <2>5
<1>6. /\ regs' = [regs EXCEPT !.edx = u[n - 2], !.ecx = u[n - 3],
                              !.ebx = IF pc = "write_return" THEN u[n - 4] ELSE regs.ebx,
                              !.eax = IF regs.eax[1] = "int" /\ regs.eax[2] < 0 THEN Num(-1) ELSE @,
                              !.ebp = Last(left)]
      /\ pc' = Target(Last(Front(left)))
      /\ ustack' = [ustack EXCEPT ![page] = SubSeq(left, 1, Len(left) - 2)]
      /\ caller' = [caller EXCEPT ![page] = Nothing]
      /\ UNCHANGED <<rrVars, page, kstack, kernel_esp, machine, blocked, interrupted>>
  BY <1>2 DEF WrapperReturn
<1>7. n - 4 = 3 \/ pc # "write_return"
  BY <1>3 DEF InCall
<1> HIDE DEF left
<1>8. Last(left) = u[2] /\ Last(Front(left)) = Code("program")
  <2>1. /\ Last(left) = left[Len(left)]
        /\ IsSeq(Front(left))
        /\ Len(Front(left)) = Len(left) - 1
        /\ \A i \in 1..Len(left) - 1 : Front(left)[i] = left[i]
    <3>1. Len(left) > 0
      BY <1>5
    <3> QED
      BY <1>5, <3>1, PopOne
  <2>2. Len(Front(left)) = 1 /\ Front(left)[1] = left[1]
    BY <1>5, <2>1
  <2>3. Last(Front(left)) = Front(left)[1]
    BY <2>2 DEF Last
  <2> QED
    BY <1>5, <2>1, <2>2, <2>3
<1>9. SubSeq(left, 1, Len(left) - 2) = << >>
  BY <1>5, SubSeqEmpty
<1>10. /\ pc' = "program" /\ page' = page
       /\ ustack'[page] = << >>
  BY <1>6, <1>8, <1>9, Stacks, Words DEF Domains
<1>11. /\ IsRegs(regs')
       /\ regs'["ds"] = regs["ds"] /\ regs'["es"] = regs["es"]
       /\ regs'["edi"] = regs["edi"] /\ regs'["esi"] = regs["esi"]
       /\ regs'["ebp"] = u[2]
       /\ regs'["ebx"] = IF pc = "write_return" THEN u[n - 4] ELSE regs["ebx"]
       /\ regs'["eax"] = IF regs["eax"][1] = "int" /\ regs["eax"][2] < 0 THEN Num(-1) ELSE regs["eax"]
  <2> HIDE DEF n, u
  <2> QED
    BY <1>6, <1>8, Stacks, SavedRegs DEF IsRegs
<1>12. regs'["eax"] = IF caller[page].result = Error THEN Num(-1) ELSE caller[page].result
  BY <1>3, <1>11, Negative DEF Answered
<1>13. AsCalled(caller[cur])
  BY <1>2, <1>3, <1>7, <1>10, <1>11, <1>12 DEF AsCalled, InCall, CalleeSaved
<1>14. caller[cur] # Nothing
  <2>1. DOMAIN caller[page] = {"regs", "result"}
    BY <1>3 DEF InCall
  <2>2. DOMAIN Nothing = {"none"}
    BY DEF Nothing
  <2> QED
    BY <1>2, <2>1, <2>2
<1>15. Local
  BY <1>6, Stacks DEF Local, Domains, TaskState, machine, rrVars, Used, Queued
<1>16. Executing'
  BY <1>3, <1>10, <1>11 DEF Executing, AtUser, InUserMode, InUser, InCall
<1>17. OnCpu'
  BY <1>2, <1>6, <1>10 DEF OnCpu, machine, rrVars
<1>18. kstack'[page] = kstack[page] /\ ustack'[page] = << >> /\ IsSeq(<< >>) /\ Len(<< >>) = 0
  BY <1>6, <1>10, Tuples
<1>19. /\ IsSeq(kstack'[page]) /\ Len(kstack'[page]) <= 37
       /\ IsSeq(ustack'[page]) /\ Len(ustack'[page]) <= 7
  <2>1. IsSeq(kstack'[page]) /\ IsSeq(ustack'[page])
    BY <1>18, Stacks, Zenon
  <2> QED
    BY <2>1, <1>18, Stacks
<1> QED
  BY <1>11, <1>13, <1>14, <1>15, <1>16, <1>17, <1>19, LocalStep DEF Kept

\* clock_handler and keyboard_handler keep what was interrupted.
LEMMA InterruptKeeps ==
  ASSUME KSInv, NEW routine \in {"clock_routine", "keyboard_routine"}, Interrupt(routine)
  PROVE  Kept
<1>1. page = cur /\ tss_esp0 = page /\ sysenter_esp = page /\ cr3 = page
  BY Current DEF Interrupt, InUserMode
<1> DEFINE below == IF InUserMode
                    THEN <<UserDS, UserAt(Len(ustack[page])), Eflags, UserCS, Code(pc)>>
                    ELSE kstack[page] \o <<Eflags, KernelCS, Code(pc)>>
<1>2. /\ kstack' = [kstack EXCEPT ![page] = Append(SaveAll(below), Code("handler_end"))]
      /\ page' = page
      /\ regs' = KernelRegs
      /\ pc' = routine
      /\ interrupted' = [interrupted EXCEPT ![page] = [pc |-> pc, regs |-> regs, ustack |-> ustack[page]]]
      /\ UNCHANGED <<rrVars, kernel_esp, machine, ustack, blocked, caller>>
  BY <1>1 DEF Interrupt
<1>3. (InUserMode /\ AtUser) \/ (~ InUserMode /\ pc = "hlt" /\ AtHlt)
  BY Executes DEF KSInv, Interrupt
<1> DEFINE d == IF page = Idle THEN 4 ELSE 5
<1>4. /\ IsSeq(below)
      /\ Len(below) = d /\ below[d] = Code(pc)
      /\ page # Idle => below[2] = UserAt(Len(ustack[page])) /\ below[4] = UserCS
      /\ page = Idle => below[3] = KernelCS /\ pc = "hlt"
  <2>1. CASE InUserMode /\ AtUser
    <3>1. page # Idle
      BY <2>1 DEF AtUser
    <3> QED
      BY <2>1, <3>1, Tuples
  <2>2. CASE ~ InUserMode /\ pc = "hlt" /\ AtHlt
    <3> DEFINE three == <<Eflags, KernelCS, Code(pc)>>
    <3>1. Len(three) = 3 /\ three[2] = KernelCS /\ three[3] = Code(pc)
      OBVIOUS
    <3>i. IsSeq(three)
      BY Tuples
    <3> HIDE DEF three
    <3>2. page = Idle /\ Len(kstack[page]) = 1
      BY <2>2 DEF AtHlt
    <3>s. IsSeq(kstack[page])
      BY Stacks
    <3>3. /\ IsSeq(kstack[page] \o three)
          /\ Len(kstack[page] \o three) = Len(kstack[page]) + Len(three)
          /\ \A i \in 1..Len(three) : (kstack[page] \o three)[Len(kstack[page]) + i] = three[i]
      BY <3>i, <3>s, PushAll
    <3>4. /\ Len(kstack[page] \o three) = 4
          /\ (kstack[page] \o three)[3] = three[2]
          /\ (kstack[page] \o three)[4] = three[3]
      BY <3>1, <3>2, <3>3
    <3>5. below = kstack[page] \o three
      BY <2>2 DEF three
    <3> HIDE DEF below
    <3> QED
      BY <2>2, <3>1, <3>2, <3>3, <3>4, <3>5
  <2> QED
    BY <1>3, <2>1, <2>2
<1>5. d \in {4, 5} /\ Base(page) = d + 12
  BY DEF Base
<1> DEFINE s == Append(SaveAll(below), Code("handler_end"))
<1> HIDE DEF below, d
<1>6. IsSeq(below)
  BY <1>4
<1>7. /\ IsSeq(s)
      /\ Len(s) = Len(below) + 12
      /\ \A i \in 1..Len(below) : s[i] = below[i]
      /\ s[Len(below) + 12] = Code("handler_end")
      /\ Popped(s, Len(below)) = regs
  <2>1. IsRegs(regs)
    BY Stacks
  <2> QED
    BY <1>6, <2>1, SavedAll
<1> HIDE DEF s
<1>8. Len(below) = d
  BY <1>4
<1>9. Len(s) = d + 12 /\ s[d + 12] = Code("handler_end") /\ Popped(s, d) = regs
  BY <1>7, <1>8
<1>10. s[2] = below[2] /\ s[3] = below[3] /\ s[4] = below[4] /\ s[d] = below[d]
  BY <1>5, <1>7, <1>8
<1>11. /\ kstack'[page] = s /\ page' = page
       /\ interrupted'[page] = [pc |-> pc, regs |-> regs, ustack |-> ustack[page]]
       /\ ustack' = ustack /\ caller' = caller
  BY <1>2, Stacks DEF Domains, s
<1>12. Interrupted(page)'
  <2>1. CASE page = Idle
    <3>1. d = 4
      BY <2>1 DEF d
    <3> QED
      BY <1>4, <1>9, <1>10, <1>11, <2>1, <3>1 DEF Interrupted
  <2>2. CASE page # Idle
    <3>1. d = 5
      BY <2>2 DEF d
    <3>2. InUser(page, pc, regs)
      BY <1>3, <2>2 DEF AtUser, AtHlt
    <3> QED
      BY <1>4, <1>9, <1>10, <1>11, <2>2, <3>1, <3>2 DEF Interrupted, InUser, InCall, Answered
  <2> QED
    BY <2>1, <2>2
<1>13. FromInterrupt(page)'
  BY <1>5, <1>9, <1>11, <1>12 DEF FromInterrupt, Base
<1>14. Executing'
  <2>1. Len(kstack'[page]) = Base(page)
    BY <1>5, <1>9, <1>11
  <2> QED
    BY <1>2, <1>11, <1>13, <2>1 DEF Executing, AtRoutine, Base
<1>15. IsRegs(regs')
  BY <1>2, Stacks, SavedRegs DEF KernelRegs, IsRegs
<1>16. Local
  BY <1>2, Stacks DEF Local, Domains, TaskState, machine, rrVars, Used, Queued
<1>17. OnCpu'
  BY <1>1, <1>2 DEF OnCpu, machine, rrVars
<1>18. /\ IsSeq(kstack'[page]) /\ IsSeq(ustack'[page])
  BY <1>7, <1>11, Stacks
<1>19. Len(kstack'[page]) <= 37 /\ Len(ustack'[page]) <= 7
  BY <1>5, <1>9, <1>11, Stacks
<1> QED
  BY <1>14, <1>15, <1>16, <1>17, <1>18, <1>19, LocalStep DEF Kept

\* sysenter starts at the bottom of the stack and leaves there what an
\* interrupt would have.
LEMMA SysenterEntryKeeps ==
  ASSUME KSInv, SysenterEntry
  PROVE  Kept /\ pc' # "program"
<1>1. page = cur /\ tss_esp0 = page /\ sysenter_esp = page /\ cr3 = page
  BY Current DEF SysenterEntry
<1>2. AtSysenter
  BY Executes DEF KSInv, SysenterEntry
<1>3. PICK p \in Label : ustack[page][Len(ustack[page]) - 1] = Code(p) /\ InCall(page, p, regs)
  BY <1>2 DEF AtSysenter
<1>4. PICK nr \in 0..35 : regs["eax"] = Num(nr)
  BY <1>2 DEF AtSysenter
<1>5. page # Idle /\ kstack[page] = << >> /\ regs["ebp"] = UserAt(Len(ustack[page]))
  BY <1>2 DEF AtSysenter
<1> DEFINE sent == <<UserDS, regs.ebp, Eflags, UserCS, ustack[page][regs.ebp[2] - 1]>>
           s == Append(SaveAll(kstack[page] \o sent), Code("sysenter_fin"))
<1>6. /\ kstack' = [kstack EXCEPT ![page] = s]
      /\ regs' = KernelRegs
      /\ pc' = sys_call_table[regs.eax[2]]
      /\ UNCHANGED <<rrVars, page, kernel_esp, machine, ustack, blocked, history>>
  BY <1>1 DEF SysenterEntry
<1>7. sent[2] = UserAt(Len(ustack[page])) /\ sent[4] = UserCS /\ sent[5] = Code(p)
  BY <1>3, <1>5, Words
<1>8. IsSeq(sent)
  BY Tuples
<1>9. Len(sent) = 5
  OBVIOUS
<1> HIDE DEF sent
<1>10. kstack[page] \o sent = sent
  BY <1>5, <1>8, ConcatEmptySeq DEF IsSeq
<1>11. IsRegs(regs)
  BY Stacks
<1>12. /\ IsSeq(s)
       /\ Len(s) = Len(sent) + 12
       /\ \A i \in 1..Len(sent) : s[i] = sent[i]
       /\ s[Len(sent) + 12] = Code("sysenter_fin")
       /\ Popped(s, Len(sent)) = regs
  BY <1>8, <1>10, <1>11, SavedAll
<1> HIDE DEF s
<1>13. /\ Len(s) = 17 /\ s[17] = Code("sysenter_fin") /\ Popped(s, 5) = regs
       /\ s[2] = sent[2] /\ s[5] = sent[5]
  BY <1>9, <1>12
<1>14. kstack'[page] = s /\ page' = page
  BY <1>6, Stacks DEF Domains
<1>15. FromCall(page)'
  BY <1>3, <1>5, <1>6, <1>7, <1>13, <1>14 DEF FromCall, Calling, InCall, history
<1>16. pc' \in SysRoutines /\ pc' # "program"
  BY <1>4, <1>6, Words, Routines DEF SysRoutines
<1>17. Executing'
  <2>1. Len(kstack'[page]) = Base(page)
    BY <1>5, <1>13, <1>14 DEF Base
  <2> QED
    BY <1>14, <1>15, <1>16, <2>1 DEF Executing, AtRoutine, Base
<1>18. IsRegs(regs')
  BY <1>6, Stacks, SavedRegs DEF KernelRegs, IsRegs
<1>19. Local
  BY <1>6, Stacks DEF Local, Domains, TaskState, machine, history, rrVars, Used, Queued
<1>20. OnCpu'
  BY <1>1, <1>6, <1>16 DEF OnCpu, machine, rrVars, SysRoutines
<1>21. /\ IsSeq(kstack'[page]) /\ IsSeq(ustack'[page])
  BY <1>6, <1>12, <1>14, Stacks
<1>22. Len(kstack'[page]) <= 37 /\ Len(ustack'[page]) <= 7
  <2>1. Len(s) <= 37
    BY <1>13
  <2> QED
    BY <2>1, <1>6, <1>14, Stacks
<1> QED
  BY <1>16, <1>17, <1>18, <1>19, <1>20, <1>21, <1>22, LocalStep DEF Kept

-----------------------------------------------------------------------------
(* The two ends of the handlers.                                           *)

\* iret finds on the stack what the interrupt pushed.
LEMMA HandlerEnds ==
  ASSUME KSInv, HandlerEnd
  PROVE  /\ Kept
         /\ interrupted[page] = [pc |-> pc', regs |-> regs', ustack |-> ustack'[cr3']]
<1>1. page = cur /\ tss_esp0 = page /\ sysenter_esp = page /\ cr3 = page
  BY Current DEF HandlerEnd
<1>2. AtHandlerEnd
  BY Executes DEF KSInv, HandlerEnd
<1> DEFINE k == kstack[page]
           s == Unsaved(k)
           d == IF page = Idle THEN 4 ELSE 5
           toUser == s[Len(s) - 1] = UserCS
<1>3. /\ regs' = RestoreAll(k)
      /\ pc' = Target(Last(s))
      /\ kstack' = [kstack EXCEPT ![page] = SubSeq(s, 1, Len(s) - (IF toUser THEN 5 ELSE 3))]
      /\ ustack' = [ustack EXCEPT ![page] = IF toUser THEN SubSeq(@, 1, s[Len(s) - 3][2]) ELSE @]
      /\ interrupted' = [interrupted EXCEPT ![page] = Nothing]
      /\ UNCHANGED <<rrVars, page, kernel_esp, machine, blocked, caller>>
  BY <1>1 DEF HandlerEnd
<1>4. d \in {4, 5} /\ Base(page) = d + 12 /\ (page = Idle <=> d = 4)
  BY DEF Base
<1>5. Len(k) = d + 11
  BY <1>2, <1>4 DEF AtHandlerEnd
<1>6. IsSeq(k)
  BY Stacks
<1> HIDE DEF d, s
<1>7. /\ RestoreAll(k) = Popped(k, d)
      /\ IsSeq(s)
      /\ Len(s) = d
      /\ \A i \in 1..d : s[i] = k[i]
  BY <1>4, <1>5, <1>6, RestoredAll DEF s
<1>8. Interrupted(page)
  BY <1>2 DEF AtHandlerEnd
<1>9. CASE page = Idle
  <2>1. d = 4 /\ k[3] = KernelCS /\ k[4] = Code("hlt")
    BY <1>4, <1>8, <1>9 DEF Interrupted
  <2>2. interrupted[page] = [pc |-> "hlt", regs |-> Popped(k, 4), ustack |-> ustack[page]]
    BY <1>8, <1>9 DEF Interrupted
  <2>3. s[3] = KernelCS /\ s[4] = Code("hlt") /\ Len(s) = 4
    BY <1>7, <2>1
  <2>4. ~ toUser /\ Last(s) = Code("hlt")
    BY <2>3, Words DEF Last
  <2>5. pc' = "hlt" /\ regs' = Popped(k, 4) /\ page' = page /\ cr3' = page
    BY <1>1, <1>3, <1>7, <2>1, <2>4, Words DEF machine
  <2>6. kstack'[page] = SubSeq(s, 1, 1) /\ ustack'[page] = ustack[page]
    BY <1>3, <2>3, <2>4, Stacks DEF Domains
  <2>7. IsSeq(SubSeq(s, 1, 1)) /\ Len(SubSeq(s, 1, 1)) = 1
    <3>1. 1 \in 0..Len(s)
      BY <2>3
    <3> QED
      BY <1>7, <3>1, Pop
  <2>8. Executing'
    BY <1>9, <2>5, <2>6, <2>7 DEF Executing, AtHlt
  <2>9. OnCpu'
    BY <1>1, <1>3, <2>5 DEF OnCpu, machine, rrVars
  <2>10. Local
    BY <1>3, Stacks DEF Local, Domains, TaskState, machine, rrVars, Used, Queued
  <2>11. IsRegs(regs')
    BY <2>5 DEF IsRegs, Popped
  <2>12. IsSeq(kstack'[page]) /\ IsSeq(ustack'[page])
    BY <2>6, <2>7, Stacks
  <2>13. Len(kstack'[page]) <= 37 /\ Len(ustack'[page]) <= 7
    BY <2>6, <2>7, Stacks
  <2> QED
    BY <2>2, <2>5, <2>6, <2>8, <2>9, <2>10, <2>11, <2>12, <2>13, LocalStep DEF Kept
<1>10. CASE page # Idle
  <2> PICK p : p = interrupted[page].pc
    OBVIOUS
  <2>1. d = 5
    BY <1>4, <1>10
  <2>2. /\ k[2] = UserAt(Len(ustack[page])) /\ k[4] = UserCS /\ k[5] = Code(p)
        /\ interrupted[page] = [pc |-> p, regs |-> Popped(k, 5), ustack |-> ustack[page]]
        /\ InUser(page, p, Popped(k, 5))
    BY <1>8, <1>10 DEF Interrupted
  <2>3. s[2] = k[2] /\ s[4] = UserCS /\ s[5] = Code(p) /\ Len(s) = 5
    BY <1>7, <2>1, <2>2
  <2>4. toUser /\ Last(s) = Code(p) /\ s[Len(s) - 3] = UserAt(Len(ustack[page]))
    BY <2>2, <2>3 DEF Last
  <2>5. pc' = p /\ regs' = Popped(k, 5) /\ page' = page /\ cr3' = page
    BY <1>1, <1>3, <1>7, <2>1, <2>4, Words DEF machine
  <2>6. kstack'[page] = SubSeq(s, 1, 0) /\ ustack'[page] = SubSeq(ustack[page], 1, Len(ustack[page]))
    BY <1>3, <2>3, <2>4, Stacks, Words DEF Domains
  <2>7. SubSeq(s, 1, 0) = << >> /\ SubSeq(ustack[page], 1, Len(ustack[page])) = ustack[page]
    BY Stacks, SubSeqEmpty, SubSeqFull DEF IsSeq
  <2>8. kstack'[page] = << >> /\ ustack'[page] = ustack[page]
    BY <2>6, <2>7
  <2>9. InUserMode'
    BY <2>2, <2>5 DEF InUserMode, InUser, InCall
  <2>10. Executing'
    BY <1>3, <1>10, <2>2, <2>5, <2>8, <2>9 DEF Executing, AtUser, InUser, InCall, Answered
  <2>11. OnCpu'
    BY <1>1, <1>3, <2>5, <2>9 DEF OnCpu, machine, rrVars, InUserMode
  <2>12. Local
    BY <1>3, Stacks DEF Local, Domains, TaskState, machine, rrVars, Used, Queued
  <2>13. IsRegs(regs')
    BY <2>5 DEF IsRegs, Popped
  <2>14. IsSeq(kstack'[page]) /\ IsSeq(ustack'[page])
    BY <2>8, Tuples, Stacks
  <2>15. Len(kstack'[page]) <= 37 /\ Len(ustack'[page]) <= 7
    BY <2>8, Tuples, Stacks
  <2> QED
    BY <2>2, <2>5, <2>8, <2>10, <2>11, <2>12, <2>13, <2>14, <2>15, LocalStep DEF Kept
<1> QED
  BY <1>9, <1>10

\* sysexit finds on the stack where the wrapper goes on, and the result in eax.
LEMMA SysenterFinKeeps ==
  ASSUME KSInv, SysenterFin
  PROVE  Kept /\ pc' # "program"
<1>1. page = cur /\ tss_esp0 = page /\ sysenter_esp = page /\ cr3 = page
  BY Current DEF SysenterFin
<1>2. AtSysenterFin
  BY Executes DEF KSInv, SysenterFin
<1> DEFINE k == kstack[page]
           w == regs["eax"]
           s == [k EXCEPT ![Len(k) - 6] = w]
           saved == Unsaved(s)
<1>3. /\ regs' = [RestoreAll(s) EXCEPT !.edx = Last(saved), !.ecx = saved[Len(saved) - 3]]
      /\ pc' = Target(Last(saved))
      /\ ustack' = [ustack EXCEPT ![page] = SubSeq(@, 1, saved[Len(saved) - 3][2])]
      /\ kstack' = [kstack EXCEPT ![page] = << >>]
      /\ UNCHANGED <<rrVars, page, kernel_esp, machine, blocked, history>>
  BY <1>1 DEF SysenterFin
<1>4. Calling(page) /\ Answered(page, w) /\ Len(k) = 16
  BY <1>2 DEF AtSysenterFin
<1>5. PICK p \in Label : k[5] = Code(p) /\ InCall(page, p, Popped(k, 5))
  BY <1>4 DEF Calling
<1>6. k[2] = UserAt(Len(ustack[page])) /\ page # Idle
  BY <1>4 DEF Calling
<1>7. IsSeq(k)
  BY Stacks
<1>8. s = Put(k, 10, w) /\ 10 \in 1..Len(k)
  BY <1>4 DEF Put
<1> HIDE DEF s
<1>9. IsSeq(s)
  BY <1>7, <1>8, PutWord
<1>10. Len(s) = 16 /\ \A i \in 1..16 : s[i] = IF i = 10 THEN w ELSE k[i]
  <2>1. Len(s) = Len(k) /\ \A i \in 1..Len(k) : s[i] = IF i = 10 THEN w ELSE k[i]
    BY <1>7, <1>8, PutWord
  <2> QED
    BY <1>4, <2>1
<1>11. /\ RestoreAll(s) = Popped(s, 5)
       /\ IsSeq(saved)
       /\ Len(saved) = 5
       /\ \A i \in 1..5 : saved[i] = s[i]
  <2>1. Len(s) = 5 + 11
    BY <1>10
  <2> QED
    BY <1>9, <2>1, RestoredAll
<1> HIDE DEF saved
<1>12. saved[2] = k[2] /\ saved[5] = Code(p) /\ Last(saved) = Code(p)
  BY <1>5, <1>10, <1>11 DEF Last
<1>13. SubSeq(ustack[page], 1, Len(ustack[page])) = ustack[page]
  BY Stacks, SubSeqFull DEF IsSeq
<1>14. /\ pc' = p /\ page' = page
       /\ ustack'[page] = ustack[page] /\ kstack'[page] = << >>
       /\ caller' = caller
  BY <1>3, <1>6, <1>11, <1>12, <1>13, Stacks, Words DEF Domains, history
<1>15. /\ Popped(s, 5)["eax"] = w
       /\ \A r \in {"ds", "es", "edi", "esi", "ebx"} : Popped(s, 5)[r] = Popped(k, 5)[r]
  <2>1. \A r \in Reg : 5 + Idx(r) \in 1..16 /\ Popped(s, 5)[r] = s[5 + Idx(r)] /\ Popped(k, 5)[r] = k[5 + Idx(r)]
    BY IdxSaved DEF Popped
  <2>2. \A r \in {"ds", "es", "edi", "esi", "ebx"} : r \in Reg /\ Idx(r) # 5
    <3>1. Saved[5] = "eax"
      BY DEF Saved
    <3> QED
      BY <3>1, SavedRegs, IdxSaved
  <2>3. "eax" \in Reg /\ 5 + Idx("eax") = 10
    BY SavedRegs, IdxSaved
  <2>4. Popped(s, 5)["eax"] = w
    BY <1>10, <2>1, <2>3
  <2>5. ASSUME NEW r \in {"ds", "es", "edi", "esi", "ebx"}
        PROVE  Popped(s, 5)[r] = Popped(k, 5)[r]
    <3>1. r \in Reg /\ 5 + Idx(r) # 10 /\ 5 + Idx(r) \in 1..16
      BY <2>2, IdxSaved
    <3> QED
      BY <1>10, <2>1, <3>1
  <2> QED
    BY <2>4, <2>5
<1>16. /\ IsRegs(regs')
       /\ regs'["eax"] = w
       /\ \A r \in {"ds", "es", "edi", "esi", "ebx"} : regs'[r] = Popped(k, 5)[r]
  BY <1>3, <1>11, <1>15, SavedRegs DEF IsRegs, Popped
<1> HIDE DEF k, w
<1>17. InUser(page, p, regs)'
  BY <1>4, <1>5, <1>14, <1>16 DEF InUser, InCall, Answered, Results
<1>18. p \in {"call_return", "write_return"}
  BY <1>5 DEF InCall
<1>19. Executing'
  BY <1>6, <1>14, <1>17, <1>18 DEF Executing, AtUser, InUserMode
<1>20. OnCpu'
  BY <1>1, <1>3, <1>14, <1>18 DEF OnCpu, machine, rrVars
<1>21. Local
  BY <1>3, Stacks DEF Local, Domains, TaskState, machine, history, rrVars, Used, Queued
<1>22. IsSeq(kstack'[page]) /\ IsSeq(ustack'[page])
  BY <1>14, Tuples, Stacks
<1>23. Len(kstack'[page]) <= 37 /\ Len(ustack'[page]) <= 7
  BY <1>14, Tuples, Stacks
<1> QED
  BY <1>14, <1>16, <1>18, <1>19, <1>20, <1>21, <1>22, <1>23, LocalStep DEF Kept

-----------------------------------------------------------------------------
(* The routines that return.                                               *)

\* A routine returns v to the handler that called it.
LEMMA RoutineReturns ==
  ASSUME KSInv, AtRoutine, NEW v, Return(v), UNCHANGED <<cur, kernel_esp, interrupted>>,
         \A t \in Task : Used(t)' => Used(t),
         \/ FromInterrupt(page) /\ caller' = caller
         \/ FromCall(page) /\ v \in Results /\ caller' = Result(page, v)
         \/ FromCall(page) /\ v \in Results /\ caller' = caller /\ caller[page].result = v
  PROVE  Kept /\ pc' # "program"
<1>1. page = cur /\ tss_esp0 = page /\ sysenter_esp = page /\ cr3 = page
  BY Current DEF AtRoutine, SysRoutines
<1> DEFINE k == kstack[page]
<1>2. PICK b \in {16, 17} : b = Base(page) /\ (page = Idle <=> b = 16)
  BY DEF Base
<1>3. Len(k) = b
  BY <1>2 DEF AtRoutine
<1>4. IsSeq(k)
  BY Stacks
<1>5. /\ pc' = Target(Last(k))
      /\ kstack' = [kstack EXCEPT ![page] = Front(k)]
      /\ regs' = [regs EXCEPT !.eax = v, !.ecx = Junk, !.edx = Junk]
      /\ UNCHANGED <<page, machine, ustack>>
  BY DEF Return
<1> HIDE DEF k
<1>6. /\ Last(k) = k[b]
      /\ IsSeq(Front(k))
      /\ Len(Front(k)) = b - 1
      /\ \A i \in 1..b - 1 : Front(k)[i] = k[i]
  <2>1. Len(k) > 0
    BY <1>3
  <2>2. IsSeq(Front(k))
    BY <1>4, <2>1, PopOne
  <2>3. Last(k) = k[Len(k)] /\ Len(Front(k)) = Len(k) - 1
    BY <1>4, <2>1, PopOne
  <2>4. \A i \in 1..Len(k) - 1 : Front(k)[i] = k[i]
    BY <1>4, <2>1, PopOne
  <2> QED
    BY <1>3, <2>2, <2>3, <2>4
<1>7. kstack'[page] = Front(k) /\ page' = page /\ ustack' = ustack
  BY <1>5, Stacks DEF Domains
<1>8. /\ IsRegs(regs')
      /\ regs'["eax"] = v
  BY <1>5, Stacks, SavedRegs DEF IsRegs
<1>9. /\ \A i \in 1..Base(page) - 1 : kstack'[page][i] = kstack[page][i]
      /\ ustack'[page] = ustack[page] /\ interrupted'[page] = interrupted[page]
  BY <1>2, <1>6, <1>7 DEF k
<1>10. Len(kstack'[page]) = Base(page) - 1 /\ Base(page)' = Base(page)
  BY <1>2, <1>6, <1>7 DEF Base
<1> PICK t : t = page
  OBVIOUS
<1>t. t \in Task /\ page' = t
  BY <1>7, Stacks
<1>11. ASSUME FromInterrupt(page), caller' = caller
       PROVE  Executing' /\ pc' = "handler_end"
  <2>1. kstack[page][b] = Code("handler_end") /\ Interrupted(t)
    BY <1>2, <1>11 DEF FromInterrupt
  <2>2. pc' = "handler_end"
    BY <1>5, <1>6, <2>1, Words DEF k
  <2>3. Interrupted(t)'
    <3>1. /\ \A i \in 1..Base(t) - 1 : kstack'[t][i] = kstack[t][i]
          /\ ustack'[t] = ustack[t] /\ caller'[t] = caller[t] /\ interrupted'[t] = interrupted[t]
      BY <1>9, <1>11
    <3> QED
      BY <2>1, <3>1, SameBottom
  <2>4. Interrupted(page)'
    BY <1>t, <2>3 DEF Interrupted, InUser, InCall, Answered, Results
  <2>5. AtHandlerEnd'
    BY <1>7, <1>10, <2>2, <2>4 DEF AtHandlerEnd, Base
  <2> QED
    BY <2>2, <2>5 DEF Executing
<1>12. ASSUME FromCall(page), v \in Results, Calling(page)', caller'[page].result = v
       PROVE  Executing' /\ pc' = "sysenter_fin"
  <2>1. kstack[page][b] = Code("sysenter_fin") /\ b = 17
    BY <1>2, <1>12 DEF FromCall, Calling
  <2>2. pc' = "sysenter_fin"
    BY <1>5, <1>6, <2>1, Words DEF k
  <2>3. Answered(page, regs["eax"])'
    BY <1>7, <1>8, <1>12 DEF Answered, Results
  <2>4. Len(kstack'[page]) = 16
    BY <1>2, <1>10, <2>1
  <2>5. AtSysenterFin'
    BY <1>7, <1>12, <2>2, <2>3, <2>4 DEF AtSysenterFin
  <2> QED
    BY <2>2, <2>5 DEF Executing
<1>13. ASSUME FromCall(page), v \in Results, caller' = Result(page, v)
       PROVE  Executing' /\ pc' = "sysenter_fin"
  <2>1. Calling(t) /\ t \in DOMAIN caller /\ caller' = [caller EXCEPT ![t].result = v]
    BY <1>t, <1>13, Stacks DEF FromCall, Result, Domains
  <2>2. (\A i \in 1..Base(t) - 1 : kstack'[t][i] = kstack[t][i]) /\ ustack'[t] = ustack[t]
    BY <1>9
  <2>3. Calling(t)' /\ caller'[t].result = v
    BY <2>1, <2>2, ResultGiven
  <2>4. Calling(page)' /\ caller'[page].result = v
    BY <1>t, <2>3 DEF Calling, InCall
  <2> QED
    BY <1>12, <1>13, <2>4
<1>14. ASSUME FromCall(page), v \in Results, caller' = caller, caller[page].result = v
       PROVE  Executing' /\ pc' = "sysenter_fin"
  <2>1. Calling(t)'
    <3>1. /\ \A i \in 1..Base(t) - 1 : kstack'[t][i] = kstack[t][i]
          /\ ustack'[t] = ustack[t] /\ caller'[t] = caller[t] /\ interrupted'[t] = interrupted[t]
      BY <1>9, <1>14
    <3>2. Calling(t)
      BY <1>14 DEF FromCall
    <3> QED
      BY <3>1, <3>2, SameBottom
  <2>2. Calling(page)'
    BY <1>t, <2>1 DEF Calling, InCall
  <2>3. caller'[page].result = v
    BY <1>14, <1>7
  <2> QED
    BY <1>12, <1>14, <2>2, <2>3
<1>15. Executing' /\ pc' \in {"handler_end", "sysenter_fin"}
  BY <1>11, <1>13, <1>14
<1>16. OnCpu'
  BY <1>1, <1>5, <1>7, <1>15 DEF OnCpu, machine
<1>17. Local
  <2>1. DOMAIN caller' = Task /\ \A x \in Task : x # page => caller'[x] = caller[x]
    BY Stacks DEF Domains, Result
  <2>2. Domains'
    BY <1>5, <2>1, Stacks DEF Domains
  <2>3. ASSUME NEW x \in Task, x # page PROVE TaskState(x)' = TaskState(x)
    BY <1>5, <2>1, <2>3, Stacks DEF Domains, TaskState
  <2> QED
    BY <1>7, <2>2, <2>3 DEF Local
<1>18. IsSeq(kstack'[page]) /\ IsSeq(ustack'[page])
  BY <1>6, <1>7, Stacks
<1>19. Len(kstack'[page]) <= 37 /\ Len(ustack'[page]) <= 7
  BY <1>2, <1>6, <1>7, Stacks
<1> QED
  BY <1>8, <1>15, <1>16, <1>17, <1>18, <1>19, LocalStep DEF Kept

\* Which tasks are in use after the scheduler has chosen.
LEMMA ScheduleUses ==
  ASSUME KSInv, Schedule, UNCHANGED blocked
  PROVE  \A t : Used(t)' <=> Used(t)
<1>1. readyqueue \in Seq(Task) /\ IsInjective(readyqueue) /\ cur \notin Range(readyqueue) /\ cur \in Task
  BY DEF KSInv, Scheduled, RRTypeOK, OnePlace, Queued
<1>2. CASE SchedNext(Append(readyqueue, cur))
  <2>1. /\ Append(readyqueue, cur) \in Seq(Task)
        /\ IsInjective(Append(readyqueue, cur))
        /\ Range(Append(readyqueue, cur)) = Range(readyqueue) \cup {cur}
    BY <1>1, AppendFresh
  <2>2. Queued' \cup {cur', Idle} = Queued \cup {cur, Idle}
    BY <1>2, <2>1, SchedNextSafe DEF Queued
  <2> QED
    BY <2>2 DEF Used
<1>3. CASE UNCHANGED <<cur, readyqueue>>
  BY <1>3 DEF Used, Queued
<1> QED
  BY <1>2, <1>3 DEF Schedule

\* SchedNext takes a task out of the queue and puts none in.
LEMMA NextUses ==
  ASSUME KSInv, SchedNext(readyqueue), blocked' \subseteq blocked \cup {page}
  PROVE  \A t : t # page /\ Used(t)' => Used(t)
<1>1. readyqueue \in Seq(Task) /\ IsInjective(readyqueue)
  BY DEF KSInv, Scheduled, RRTypeOK, OnePlace
<1>2. Queued' \cup {cur', Idle} = Queued \cup {Idle}
  BY <1>1, SchedNextSafe DEF Queued
<1> QED
  BY <1>2 DEF Used

\* A task that is woken was in use already.
LEMMA WakeUses ==
  ASSUME KSInv, NEW b \in blocked, Wake(b)
  PROVE  cur' = cur /\ \A t : Used(t)' => Used(t)
<1>1. readyqueue \in Seq(Task) /\ IsInjective(readyqueue)
  BY DEF KSInv, Scheduled, RRTypeOK, OnePlace
<1>2. b \in Task /\ b \notin Range(readyqueue)
  BY WakeArrives DEF Arrive, Queued
<1>3. Queued' = Queued \cup {b}
  BY <1>1, <1>2, AppendFresh DEF Wake, MakeReady, Queued
<1> QED
  BY <1>3 DEF Used, Wake, MakeReady

\* What the calls return is a result.
LEMMA Answers == Num(0) \in Results /\ Error \in Results
BY DEF Results

\* The routines of the interrupts run on the stack of the task they interrupt.
LEMMA InterruptRoutine ==
  ASSUME KSInv, pc \in {"clock_routine", "keyboard_routine"}
  PROVE  page = cur /\ AtRoutine /\ FromInterrupt(page)
<1>1. AtRoutine
  BY Executes DEF KSInv
<1> QED
  BY <1>1, Current DEF AtRoutine, SysRoutines

\* The calls that return.
LEMMA CallKeeps ==
  ASSUME KSInv,
         \/ \E v \in {Num(0), Error} : SysOther(v)
         \/ \E b \in blocked : SysUnblock(b)
         \/ SysUnblockFails \/ SysForkFails \/ SysBlockNot
  PROVE  Kept /\ pc' # "program"
<1>1. ASSUME NEW v \in Results, pc \in SysRoutines, Return(v), caller' = Result(page, v),
             UNCHANGED <<cur, kernel_esp, interrupted>>, \A t \in Task : Used(t)' => Used(t)
      PROVE  Kept /\ pc' # "program"
  BY <1>1, CallerIsCurrent, RoutineReturns
<1>2. ASSUME UNCHANGED <<rrVars, blocked>>
      PROVE  cur' = cur /\ \A t \in Task : Used(t)' => Used(t)
  BY <1>2 DEF rrVars, Used, Queued
<1>3. ASSUME NEW v \in {Num(0), Error}, SysOther(v)
      PROVE  Kept /\ pc' # "program"
  BY <1>1, <1>2, <1>3, Answers DEF SysOther, SysRoutines
<1>4. ASSUME NEW b \in blocked, SysUnblock(b)
      PROVE  Kept /\ pc' # "program"
  <2>1. Wake(b) /\ pc \in SysRoutines /\ Return(Num(0)) /\ caller' = Result(page, Num(0))
    BY <1>4 DEF SysUnblock, SysRoutines
  <2>2. cur' = cur /\ \A t : Used(t)' => Used(t)
    BY <2>1, WakeUses
  <2>3. UNCHANGED <<kernel_esp, interrupted>>
    BY <2>1 DEF Wake
  <2> QED
    BY <1>1, <2>1, <2>2, <2>3, Answers
<1>5. ASSUME SysUnblockFails \/ SysForkFails \/ SysBlockNot
      PROVE  Kept /\ pc' # "program"
  <2>1. /\ pc \in SysRoutines /\ UNCHANGED <<rrVars, kernel_esp, blocked, interrupted>>
        /\ \/ Return(Error) /\ caller' = Result(page, Error)
           \/ Return(Num(0)) /\ caller' = Result(page, Num(0))
    BY <1>5 DEF SysUnblockFails, SysForkFails, SysBlockNot, SysRoutines
  <2> QED
    BY <1>1, <1>2, <2>1, Answers
<1> QED
  BY <1>3, <1>4, <1>5

\* The interrupts that do not switch, and the first step of a child.
LEMMA OtherReturnKeeps ==
  ASSUME KSInv,
         \/ \E b \in blocked : KeyboardWakes(b)
         \/ KeyboardWakesNobody \/ ClockStays \/ RetFromFork
  PROVE  Kept /\ pc' # "program"
<1>1. ASSUME pc \in {"clock_routine", "keyboard_routine"}, Return(Junk), caller' = caller,
             UNCHANGED <<cur, kernel_esp, interrupted>>, \A t \in Task : Used(t)' => Used(t)
      PROVE  Kept /\ pc' # "program"
  BY <1>1, InterruptRoutine, RoutineReturns
<1>2. ASSUME NEW b \in blocked, KeyboardWakes(b)
      PROVE  Kept /\ pc' # "program"
  <2>1. Wake(b) /\ pc \in {"clock_routine", "keyboard_routine"} /\ Return(Junk) /\ caller' = caller
    BY <1>2 DEF KeyboardWakes
  <2>2. cur' = cur /\ \A t : Used(t)' => Used(t)
    BY <2>1, WakeUses
  <2>3. UNCHANGED <<kernel_esp, interrupted>>
    BY <2>1 DEF Wake
  <2> QED
    BY <1>1, <2>1, <2>2, <2>3
<1>3. CASE KeyboardWakesNobody
  BY <1>1, <1>3 DEF KeyboardWakesNobody, rrVars, history, Used, Queued
<1>4. CASE ClockStays
  <2>1. /\ pc \in {"clock_routine", "keyboard_routine"} /\ Schedule /\ cur' = page /\ Return(Junk)
        /\ UNCHANGED <<kernel_esp, blocked, caller, interrupted>>
    BY <1>4 DEF ClockStays, history
  <2>2. page = cur
    BY <2>1, InterruptRoutine
  <2>3. \A t : Used(t)' <=> Used(t)
    BY <2>1, ScheduleUses
  <2> QED
    BY <1>1, <2>1, <2>2, <2>3
<1>5. CASE RetFromFork
  <2>1. AtRoutine /\ FromCall(page) /\ caller[page].result = Num(0)
    BY <1>5, Executes DEF KSInv, RetFromFork, AtRoutine, SysRoutines
  <2>2. Return(Num(0)) /\ caller' = caller /\ UNCHANGED <<cur, kernel_esp, interrupted>>
    BY <1>5 DEF RetFromFork, history, rrVars
  <2>3. \A t \in Task : Used(t)' => Used(t)
    BY <1>5 DEF RetFromFork, rrVars, Used, Queued
  <2> QED
    BY <2>1, <2>2, <2>3, Answers, RoutineReturns
<1> QED
  BY <1>2, <1>3, <1>4, <1>5

-----------------------------------------------------------------------------
(* The calls of task_switch.                                               *)

\* The frame of a C function.
LEMMA Entered ==
  ASSUME NEW s, IsSeq(s)
  PROVE  /\ IsSeq(Enter(s))
         /\ Len(Enter(s)) = Len(s) + 4
         /\ \A i \in 1..Len(s) : Enter(s)[i] = s[i]
         /\ Enter(s)[Len(s) + 1] = regs["ebp"]
<1> DEFINE u == <<regs.ebp, regs.edi, regs.esi, regs.ebx>>
<1>1. IsSeq(u)
  BY Tuples
<1>2. Len(u) = 4 /\ u[1] = regs["ebp"]
  OBVIOUS
<1>3. Enter(s) = s \o u
  BY DEF Enter
<1> HIDE DEF u
<1>4. /\ IsSeq(s \o u)
      /\ Len(s \o u) = Len(s) + Len(u)
      /\ \A i \in 1..Len(s) : (s \o u)[i] = s[i]
      /\ \A i \in 1..Len(u) : (s \o u)[Len(s) + i] = u[i]
  BY <1>1, PushAll
<1>5. (s \o u)[Len(s) + 1] = u[1]
  BY <1>2, <1>4
<1> QED
  BY <1>2, <1>3, <1>4, <1>5

\* The frame, and two or three words on it.
Calls2(s, a, b) == Enter(s) \o <<a, b>>
Calls3(s, a, b, c) == Enter(s) \o <<a, b, c>>

LEMMA EnteredTwo ==
  ASSUME NEW s, IsSeq(s), NEW a, NEW b
  PROVE  /\ IsSeq(Calls2(s, a, b))
         /\ Len(Calls2(s, a, b)) = Len(s) + 6
         /\ \A i \in 1..Len(s) : Calls2(s, a, b)[i] = s[i]
         /\ Calls2(s, a, b)[Len(s) + 5] = a
         /\ Calls2(s, a, b)[Len(s) + 6] = b
<1> DEFINE u == <<a, b>>
<1>1. IsSeq(u)
  BY Tuples
<1>2. Len(u) = 2 /\ u[1] = a /\ u[2] = b
  OBVIOUS
<1> HIDE DEF u
<1> PICK e : e = Enter(s)
  OBVIOUS
<1>3. /\ IsSeq(e) /\ Len(e) = Len(s) + 4
      /\ \A i \in 1..Len(s) : e[i] = s[i]
  BY Entered
<1>e. IsSeq(e)
  BY <1>3
<1>4. /\ IsSeq(e \o u)
      /\ Len(e \o u) = Len(e) + Len(u)
      /\ \A i \in 1..Len(e) : (e \o u)[i] = e[i]
      /\ \A i \in 1..Len(u) : (e \o u)[Len(e) + i] = u[i]
  BY <1>1, <1>e, PushAll
<1>5. PICK n \in Nat : n = Len(s)
  BY SeqDomain
<1>6. Len(e \o u) = n + 6 /\ (e \o u)[n + 5] = a /\ (e \o u)[n + 6] = b
  <2>1. (e \o u)[Len(e) + 1] = u[1] /\ (e \o u)[Len(e) + 2] = u[2]
    BY <1>2, <1>4
  <2>2. Len(e) = n + 4
    BY <1>3, <1>5
  <2>3. Len(e) + 1 = n + 5 /\ Len(e) + 2 = n + 6 /\ Len(e) + Len(u) = n + 6
    BY <1>2, <2>2
  <2> QED
    BY <1>2, <1>4, <2>1, <2>3
<1>7. \A i \in 1..n : (e \o u)[i] = s[i]
  BY <1>3, <1>4, <1>5
<1> QED
  BY <1>4, <1>5, <1>6, <1>7 DEF u, Calls2

LEMMA EnteredThree ==
  ASSUME NEW s, IsSeq(s), NEW a, NEW b, NEW c
  PROVE  /\ IsSeq(Calls3(s, a, b, c))
         /\ Len(Calls3(s, a, b, c)) = Len(s) + 7
         /\ \A i \in 1..Len(s) : Calls3(s, a, b, c)[i] = s[i]
         /\ Calls3(s, a, b, c)[Len(s) + 1] = regs["ebp"]
         /\ Calls3(s, a, b, c)[Len(s) + 5] = a
         /\ Calls3(s, a, b, c)[Len(s) + 6] = b
         /\ Calls3(s, a, b, c)[Len(s) + 7] = c
<1> DEFINE u == <<a, b, c>>
<1>1. IsSeq(u)
  BY Tuples
<1>2. Len(u) = 3 /\ u[1] = a /\ u[2] = b /\ u[3] = c
  OBVIOUS
<1> HIDE DEF u
<1> PICK e : e = Enter(s)
  OBVIOUS
<1>3. /\ IsSeq(e) /\ Len(e) = Len(s) + 4
      /\ \A i \in 1..Len(s) : e[i] = s[i]
      /\ e[Len(s) + 1] = regs["ebp"]
  BY Entered
<1>e. IsSeq(e)
  BY <1>3
<1>4. /\ IsSeq(e \o u)
      /\ Len(e \o u) = Len(e) + Len(u)
      /\ \A i \in 1..Len(e) : (e \o u)[i] = e[i]
      /\ \A i \in 1..Len(u) : (e \o u)[Len(e) + i] = u[i]
  BY <1>1, <1>e, PushAll
<1>5. PICK n \in Nat : n = Len(s)
  BY SeqDomain
<1>6. /\ Len(e \o u) = n + 7
      /\ (e \o u)[n + 5] = a /\ (e \o u)[n + 6] = b /\ (e \o u)[n + 7] = c
  <2>1. (e \o u)[Len(e) + 1] = u[1] /\ (e \o u)[Len(e) + 2] = u[2] /\ (e \o u)[Len(e) + 3] = u[3]
    BY <1>2, <1>4
  <2>2. Len(e) = n + 4
    BY <1>3, <1>5
  <2>3. Len(e) + 1 = n + 5 /\ Len(e) + 2 = n + 6 /\ Len(e) + 3 = n + 7 /\ Len(e) + Len(u) = n + 7
    BY <1>2, <2>2
  <2> QED
    BY <1>2, <1>4, <2>1, <2>3
<1>7. \A i \in 1..n : (e \o u)[i] = s[i]
  BY <1>3, <1>4, <1>5
<1>8. (e \o u)[n + 1] = regs["ebp"]
  BY <1>3, <1>4, <1>5
<1> QED
  BY <1>4, <1>5, <1>6, <1>7, <1>8 DEF u, Calls3

\* What a task finds again when it comes back is below what is pushed here.
LEMMA SwitchCalled ==
  ASSUME KSInv, AtRoutine, page = cur, CallTaskSwitch(cur'), cur' # page,
         \A t \in Task : t # page /\ Used(t)' => Used(t),
         DOMAIN ustack' = Task, \A t \in Task : t # page => ustack'[t] = ustack[t],
         DOMAIN caller' = Task, \A t \in Task : t # page => caller'[t] = caller[t],
         IsSeq(ustack'[page]), Len(ustack'[page]) <= 7,
         (\A i \in 1..Base(page) : kstack'[page][i] = kstack[page][i])
           => (Used(page)' => Resumable(page)')
  PROVE  Kept /\ pc' # "program"
<1>1. tss_esp0 = page /\ sysenter_esp = page /\ cr3 = page
  BY Current DEF AtRoutine, SysRoutines
<1> DEFINE k == kstack[page]
           s == Enter(k) \o <<<<"task", cur'>>, Code("c_end")>>
<1>2. PICK b \in {16, 17} : b = Base(page)
  BY DEF Base
<1>3. Len(k) = b
  BY <1>2 DEF AtRoutine
<1>4. /\ pc' = "task_switch"
      /\ kstack' = [kstack EXCEPT ![page] = s]
      /\ regs' = Working(k)
      /\ UNCHANGED <<page, kernel_esp, machine, interrupted>>
  BY DEF CallTaskSwitch
<1>5. IsSeq(k)
  BY Stacks
<1> HIDE DEF k
<1>s. s = Calls2(k, <<"task", cur'>>, Code("c_end"))
  BY DEF Calls2
<1> HIDE DEF s
<1>6. /\ IsSeq(s)
      /\ Len(s) = Len(k) + 6
      /\ \A i \in 1..Len(k) : s[i] = k[i]
      /\ s[Len(k) + 5] = <<"task", cur'>>
      /\ s[Len(k) + 6] = Code("c_end")
  BY <1>5, <1>s, EnteredTwo
<1>7. /\ Len(s) = b + 6
      /\ \A i \in 1..b : s[i] = k[i]
      /\ s[b + 5] = <<"task", cur'>>
      /\ s[b + 6] = Code("c_end")
  BY <1>3, <1>6
<1>8. kstack'[page] = s /\ page' = page /\ Base(page)' = Base(page)
  BY <1>4, Stacks DEF Domains, Base
<1>9. /\ IsRegs(regs')
      /\ regs'["ebp"] = At(page, b + 1)
  BY <1>3, <1>4, SavedRegs DEF Working, IsRegs
<1>10. Used(page)' => Resumable(page)'
  BY <1>2, <1>7, <1>8 DEF k
<1>11. AtTaskSwitch'
  <2>1. Outer(page)'
    BY <1>2, <1>7, <1>8 DEF Outer
  <2>2. Leaving'
    BY <1>8, <1>10, <2>1 DEF Leaving
  <2> QED
    BY <1>2, <1>4, <1>7, <1>8, <1>9, <2>2 DEF AtTaskSwitch
<1>12. OnCpu'
  BY <1>1, <1>4 DEF OnCpu, machine
<1>13. Local
  <2>1. Domains'
    BY <1>4, Stacks DEF Domains
  <2>2. ASSUME NEW x \in Task, x # page PROVE TaskState(x)' = TaskState(x)
    BY <1>4, <2>2, Stacks DEF Domains, TaskState
  <2> QED
    BY <1>8, <2>1, <2>2 DEF Local
<1>14. IsSeq(kstack'[page]) /\ Len(kstack'[page]) <= 37
  BY <1>6, <1>7, <1>8
<1> QED
  BY <1>4, <1>9, <1>11, <1>12, <1>13, <1>14, LocalStep DEF Kept, Executing

\* A system call that gives up the CPU hands it to another task.
LEMMA NextIsAnother ==
  ASSUME KSInv, pc \in SysRoutines, SchedNext(readyqueue)
  PROVE  cur' # page
<1>1. page = cur /\ page # Idle
  BY CallerIsCurrent
<1>2. readyqueue \in Seq(Task) /\ cur \notin Range(readyqueue) /\ IsInjective(readyqueue)
  BY DEF KSInv, Scheduled, RRTypeOK, OnePlace, Queued
<1>3. readyqueue # << >> => Head(readyqueue) \in Range(readyqueue)
  BY <1>2, TakeFirst
<1> QED
  BY <1>1, <1>2, <1>3 DEF SchedNext

\* A process that blocks is to return 0 when it comes back.
LEMMA SysBlockKeeps ==
  ASSUME KSInv, SysBlock
  PROVE  Kept /\ pc' # "program"
<1>1. /\ pc \in SysRoutines /\ SchedNext(readyqueue) /\ blocked' \subseteq blocked \cup {page}
      /\ CallTaskSwitch(cur') /\ caller' = Result(page, Num(0)) /\ ustack' = ustack
  BY DEF SysBlock, SysRoutines
<1>2. page = cur /\ AtRoutine /\ FromCall(page)
  BY <1>1, CallerIsCurrent
<1>3. cur' # page
  BY <1>1, NextIsAnother
<1>4. \A t \in Task : t # page /\ Used(t)' => Used(t)
  BY <1>1, NextUses
<1>5. /\ DOMAIN caller' = Task
      /\ \A t \in Task : t # page => caller'[t] = caller[t]
  BY <1>1, Stacks DEF Domains, Result
<1>6. ASSUME \A i \in 1..Base(page) : kstack'[page][i] = kstack[page][i]
      PROVE  Resumable(page)'
  <2> PICK t : t = page
    OBVIOUS
  <2>1. page' = t /\ t \in DOMAIN caller /\ Calling(t) /\ kstack[t][17] = Code("sysenter_fin")
    BY <1>1, <1>2, Stacks DEF CallTaskSwitch, FromCall, Domains
  <2>2. Base(t) = 17
    BY <2>1 DEF Calling, Base
  <2>3. /\ \A i \in 1..Base(t) - 1 : kstack'[t][i] = kstack[t][i]
        /\ kstack'[t][17] = kstack[t][17]
    BY <1>6, <2>2
  <2>4. Calling(t)' /\ caller'[t].result = Num(0)
    BY <1>1, <2>1, <2>3, ResultGiven DEF Result
  <2>5. Resumable(t)'
    BY <2>1, <2>3, <2>4 DEF Resumable, FromCall
  <2> QED
    BY <2>1, <2>5 DEF Resumable, FromCall, FromInterrupt, Calling, InCall, Interrupted, InUser,
                      Answered, Results, Base
<1>7. \A t \in Task : t # page => ustack'[t] = ustack[t]
  BY <1>1
<1>8. DOMAIN ustack' = Task /\ IsSeq(ustack'[page]) /\ Len(ustack'[page]) <= 7
  BY <1>1, Stacks DEF Domains
<1> QED
  BY <1>1, <1>2, <1>3, <1>4, <1>5, <1>6, <1>7, <1>8, SwitchCalled

\* sys_exit switches on a stack that is nobody's any more.
LEMMA SysExitKeeps ==
  ASSUME KSInv, SysExit
  PROVE  Kept /\ pc' # "program"
<1>1. /\ pc \in SysRoutines /\ SchedNext(readyqueue) /\ blocked' = blocked
      /\ CallTaskSwitch(cur') /\ ustack' = [ustack EXCEPT ![page] = << >>]
      /\ caller' = [caller EXCEPT ![page] = Nothing]
  BY DEF SysExit, SysRoutines
<1>2. page = cur /\ page # Idle /\ AtRoutine
  BY <1>1, CallerIsCurrent
<1>3. cur' # page
  BY <1>1, NextIsAnother
<1>4. \A t \in Task : t # page /\ Used(t)' => Used(t)
  BY <1>1, NextUses
<1>5. /\ DOMAIN caller' = Task /\ DOMAIN ustack' = Task
      /\ \A t \in Task : t # page => caller'[t] = caller[t]
      /\ \A t \in Task : t # page => ustack'[t] = ustack[t]
      /\ ustack'[page] = << >>
  BY <1>1, Stacks DEF Domains
<1>6. ~ Used(page)'
  <2>1. readyqueue \in Seq(Task) /\ IsInjective(readyqueue) /\ cur \notin Queued /\ cur \notin blocked
    BY DEF KSInv, Scheduled, RRTypeOK, OnePlace
  <2>2. Queued' \cup {cur', Idle} = Queued \cup {Idle}
    BY <1>1, <2>1, SchedNextSafe DEF Queued
  <2>3. page' = page
    BY <1>1 DEF CallTaskSwitch
  <2> QED
    BY <1>1, <1>2, <2>1, <2>2, <2>3 DEF Used
<1>7. IsSeq(ustack'[page]) /\ Len(ustack'[page]) <= 7
  <2>1. IsSeq(<< >>) /\ Len(<< >>) <= 7
    BY Tuples
  <2> QED
    BY <1>5, <2>1
<1> QED
  BY <1>1, <1>2, <1>3, <1>4, <1>5, <1>6, <1>7, SwitchCalled

\* The clock may switch away from the idle task, too.
LEMMA ClockSwitchesKeeps ==
  ASSUME KSInv, ClockSwitches
  PROVE  Kept /\ pc' # "program"
<1>1. /\ pc \in {"clock_routine", "keyboard_routine"} /\ Schedule /\ cur' # page
      /\ CallTaskSwitch(cur') /\ UNCHANGED <<ustack, blocked, caller>>
  BY DEF ClockSwitches
<1>2. page = cur /\ AtRoutine /\ FromInterrupt(page)
  BY <1>1, InterruptRoutine
<1>3. \A t \in Task : Used(t)' => Used(t)
  BY <1>1, ScheduleUses
<1>4. ASSUME \A i \in 1..Base(page) : kstack'[page][i] = kstack[page][i]
      PROVE  Resumable(page)'
  <2> PICK t : t = page
    OBVIOUS
  <2>1. page' = t /\ FromInterrupt(t) /\ interrupted' = interrupted
    BY <1>1, <1>2 DEF CallTaskSwitch
  <2>2. \A i \in 1..Base(t) : kstack'[t][i] = kstack[t][i]
    BY <1>4
  <2>3. ustack'[t] = ustack[t] /\ caller'[t] = caller[t] /\ interrupted'[t] = interrupted[t]
    BY <1>1, <2>1
  <2>4. FromInterrupt(t)'
    BY <2>1, <2>2, <2>3, SameResumable
  <2> QED
    BY <2>1, <2>4 DEF Resumable, FromCall, FromInterrupt, Calling, InCall, Interrupted, InUser,
                      Answered, Results, Base
<1>5. \A t \in Task : t # page => ustack'[t] = ustack[t] /\ caller'[t] = caller[t]
  BY <1>1
<1>6. DOMAIN ustack' = Task /\ DOMAIN caller' = Task /\ IsSeq(ustack'[page]) /\ Len(ustack'[page]) <= 7
  BY <1>1, Stacks DEF Domains
<1> QED
  BY <1>1, <1>2, <1>3, <1>4, <1>5, <1>6, SwitchCalled

-----------------------------------------------------------------------------
(* The child.                                                              *)

\* The child's stack is the parent's up to where the handler goes on, and a
\* return address above it.
LEMMA ChildStackOf ==
  ASSUME NEW s, IsSeq(s), Len(s) = 17
  PROVE  /\ IsSeq(ChildStack(s)) /\ Len(ChildStack(s)) = 19
         /\ \A i \in 1..17 : ChildStack(s)[i] = s[i]
         /\ ChildStack(s)[18] = Code("ret_from_fork")
<1>a. PICK a : a = Code("ret_from_fork")
  OBVIOUS
<1>b. PICK b : b = Num(0)
  OBVIOUS
<1>e. PICK e : e = Enter(s)
  OBVIOUS
<1>q. PICK q : q = SubSeq(e, 1, 19)
  OBVIOUS
<1>x. PICK x : x = Put(q, 18, a)
  OBVIOUS
<1>y. PICK y : y = Put(x, 19, b)
  OBVIOUS
<1>1. /\ IsSeq(e) /\ Len(e) = Len(s) + 4
      /\ \A i \in 1..Len(s) : e[i] = s[i]
  BY <1>e, Entered
<1>2. IsSeq(e) /\ 19 \in 0..Len(e)
  BY <1>1
<1>3. IsSeq(q) /\ Len(q) = 19 /\ \A i \in 1..19 : q[i] = e[i]
  BY <1>2, <1>q, Pop
<1>4. IsSeq(q) /\ 18 \in 1..Len(q)
  BY <1>3
<1>5. IsSeq(x) /\ Len(x) = Len(q) /\ \A i \in 1..Len(q) : x[i] = IF i = 18 THEN a ELSE q[i]
  BY <1>4, <1>x, PutWord
<1>6. IsSeq(x) /\ 19 \in 1..Len(x)
  BY <1>3, <1>5
<1>7. IsSeq(y) /\ Len(y) = Len(x) /\ \A i \in 1..Len(x) : y[i] = IF i = 19 THEN b ELSE x[i]
  BY <1>6, <1>y, PutWord
<1>8. ChildStack(s) = y
  BY <1>a, <1>b, <1>e, <1>q, <1>x, <1>y DEF ChildStack, Put
<1>9. Len(y) = 19
  BY <1>3, <1>5, <1>7
<1>10. y[18] = a
  BY <1>3, <1>5, <1>7
<1>11. ASSUME NEW i \in 1..17 PROVE y[i] = s[i]
  <2>1. q[i] = s[i]
    BY <1>1, <1>3
  <2>2. i \in 1..Len(q) /\ i # 18 /\ i # 19
    BY <1>3
  <2>3. x[i] = q[i]
    BY <1>5, <2>2
  <2>4. y[i] = x[i]
    BY <1>5, <1>7, <2>2
  <2> QED
    BY <2>1, <2>3, <2>4
<1> QED
  BY <1>7, <1>8, <1>9, <1>10, <1>11, <1>a

\* A task whose stacks and whose call are those of a task in a call, but for
\* the result, is in the same call.
LEMMA SameCall ==
  ASSUME NEW t, Calling(t), NEW c, c # Idle, NEW v,
         \A i \in 1..16 : kstack'[c][i] = kstack[t][i],
         ustack'[c] = ustack[t], caller'[c] = [caller[t] EXCEPT !.result = v]
  PROVE  Calling(c)' /\ caller'[c].result = v
<1>1. \A r \in Reg : 5 + Idx(r) \in 1..16
  BY IdxSaved
<1>2. Popped(kstack[c], 5)' = Popped(kstack[t], 5)
  BY <1>1 DEF Popped
<1>3. kstack'[c][2] = kstack[t][2] /\ kstack'[c][5] = kstack[t][5]
  OBVIOUS
<1>4. PICK p \in Label : kstack[t][5] = Code(p) /\ InCall(t, p, Popped(kstack[t], 5))
  BY DEF Calling
<1>5. caller[t] = [regs |-> caller[t].regs, result |-> caller[t].result]
  BY <1>4 DEF InCall
<1>6. caller'[c] = [regs |-> caller[t].regs, result |-> v]
  BY <1>5
<1>7. InCall(c, p, Popped(kstack[c], 5))'
  BY <1>2, <1>4, <1>6 DEF InCall
<1> QED
  BY <1>3, <1>4, <1>6, <1>7 DEF Calling

\* sys_fork: the parent returns the pid, the child is left to return 0.
LEMMA SysForkKeeps ==
  ASSUME KSInv, NEW c \in Task, SysFork(c)
  PROVE  Kept /\ pc' # "program"
<1>1. page = cur /\ page # Idle /\ AtRoutine /\ FromCall(page)
  BY CallerIsCurrent DEF SysFork, SysRoutines
<1>2. tss_esp0 = page /\ sysenter_esp = page /\ cr3 = page
  BY Current DEF SysFork
<1>3. c # page /\ c # Idle
  BY <1>1 DEF SysFork, Used
<1> DEFINE k == kstack[page]
           child == ChildStack(k)
<1> PICK v : v = <<"pid", c>>
  OBVIOUS
<1>4. /\ pc' = Target(Last(k))
      /\ kstack' = [kstack EXCEPT ![c] = child, ![page] = Front(@)]
      /\ regs' = [regs EXCEPT !.eax = v, !.ecx = Junk, !.edx = Junk]
      /\ kernel_esp' = [kernel_esp EXCEPT ![c] = At(c, 19)]
      /\ ustack' = [ustack EXCEPT ![c] = ustack[page]]
      /\ caller' = [caller EXCEPT ![page].result = v,
                                  ![c] = [caller[page] EXCEPT !.result = Num(0)]]
      /\ UNCHANGED <<cur, page, machine, blocked, interrupted>>
  BY <1>2 DEF SysFork, ChildEsp, MakeReady
<1>5. Len(k) = 17 /\ k[17] = Code("sysenter_fin") /\ Calling(page)
  BY <1>1 DEF AtRoutine, Base, FromCall
<1>6. IsSeq(k)
  BY Stacks
<1> HIDE DEF child
<1>7. /\ IsSeq(child) /\ Len(child) = 19
      /\ \A i \in 1..17 : child[i] = k[i]
      /\ child[18] = Code("ret_from_fork")
  BY <1>5, <1>6, ChildStackOf DEF child
<1>8. IsSeq(k) /\ Len(k) > 0
  BY <1>5, <1>6
<1>9. /\ kstack'[page] = Front(k) /\ kstack'[c] = child
      /\ ustack'[page] = ustack[page] /\ ustack'[c] = ustack[page]
      /\ caller'[page] = [caller[page] EXCEPT !.result = v]
      /\ caller'[c] = [caller[page] EXCEPT !.result = Num(0)]
      /\ kernel_esp'[c] = At(c, 19) /\ page' = page
  BY <1>3, <1>4, Stacks DEF Domains
<1> HIDE DEF k
<1>10. IsSeq(Front(k)) /\ Len(Front(k)) = Len(k) - 1 /\ Last(k) = k[Len(k)]
  BY <1>8, PopOne
<1>11. \A i \in 1..Len(k) - 1 : Front(k)[i] = k[i]
  BY <1>8, PopOne
<1>12. Len(kstack'[page]) = 16 /\ pc' = "sysenter_fin" /\ \A i \in 1..16 : kstack'[page][i] = k[i]
  BY <1>4, <1>5, <1>9, <1>10, <1>11, Words
<1>13. IsRegs(regs') /\ regs'["eax"] = v
  BY <1>4, Stacks, SavedRegs DEF IsRegs
<1>14. AtSysenterFin'
  <2> PICK t : t = page
    OBVIOUS
  <2>1. /\ Calling(t) /\ t # Idle /\ \A i \in 1..16 : kstack'[t][i] = kstack[t][i]
        /\ ustack'[t] = ustack[t] /\ caller'[t] = [caller[t] EXCEPT !.result = v]
    BY <1>1, <1>5, <1>9, <1>12 DEF k
  <2>2. Calling(t)' /\ caller'[t].result = v
    BY <2>1, SameCall
  <2>3. Calling(page)' /\ caller'[page].result = v
    BY <1>9, <2>2 DEF Calling, InCall
  <2>4. v \in Results
    BY DEF Results
  <2>5. Answered(page, regs["eax"])'
    BY <1>9, <1>13, <2>3, <2>4 DEF Answered, Results
  <2> QED
    BY <1>9, <1>12, <2>3, <2>5 DEF AtSysenterFin
<1>15. Suspended(c)'
  <2> PICK t : t = page
    OBVIOUS
  <2>1. Calling(t) /\ c # Idle /\ ustack'[c] = ustack[t] /\ caller'[c] = [caller[t] EXCEPT !.result = Num(0)]
    BY <1>3, <1>5, <1>9
  <2>2. \A i \in 1..16 : kstack'[c][i] = kstack[t][i]
    BY <1>7, <1>9 DEF k
  <2>3. Calling(c)' /\ caller'[c].result = Num(0)
    BY <2>1, <2>2, SameCall
  <2>4. kstack'[c][17] = Code("sysenter_fin") /\ kstack'[c][18] = Code("ret_from_fork") /\ Len(kstack'[c]) = 19
    BY <1>5, <1>7, <1>9
  <2>5. FromCall(c)'
    BY <2>3, <2>4 DEF FromCall
  <2>6. Forked(c)'
    BY <2>3, <2>4, <2>5 DEF Forked
  <2> QED
    BY <1>9, <2>4, <2>6 DEF Suspended
<1>16. ASSUME NEW t \in Task, t # page, Used(t)'
       PROVE  Suspended(t)'
  <2>1. CASE t = c
    BY <1>15, <2>1
  <2>2. CASE t # c
    <3>1. TaskState(t)' = TaskState(t)
      BY <1>4, <1>16, <2>2, Stacks DEF Domains, TaskState
    <3>2. Queued' = Queued \cup {c}
      <4>1. readyqueue \in Seq(Task) /\ IsInjective(readyqueue) /\ c \notin Range(readyqueue)
        BY DEF KSInv, Scheduled, RRTypeOK, OnePlace, SysFork, Used, Queued
      <4> QED
        BY <4>1, AppendFresh DEF SysFork, MakeReady, Queued
    <3>3. Used(t)
      BY <1>4, <1>16, <2>2, <3>2 DEF Used
    <3>4. Suspended(t)
      BY <1>16, <3>3 DEF KSInv
    <3> QED
      BY <3>1, <3>4, SameTask
  <2> QED
    BY <2>1, <2>2
<1>17. Domains'
  BY <1>4, Stacks DEF Domains
<1>18. ASSUME NEW t \in Task
       PROVE  IsSeq(kstack'[t]) /\ Len(kstack'[t]) <= 37 /\ IsSeq(ustack'[t]) /\ Len(ustack'[t]) <= 7
  <2>u. IsSeq(ustack[page]) /\ Len(ustack[page]) <= 7
    BY Stacks
  <2>1. CASE t = page
    <3>1. IsSeq(kstack'[t]) /\ IsSeq(ustack'[t])
      BY <1>9, <1>10, <2>1, <2>u
    <3>2. Len(kstack'[page]) <= 37 /\ Len(ustack'[page]) <= 7
      BY <1>9, <1>12, <2>u
    <3> QED
      BY <2>1, <3>1, <3>2
  <2>2. CASE t = c
    <3>1. IsSeq(kstack'[t]) /\ IsSeq(ustack'[t])
      BY <1>7, <1>9, <2>2, <2>u
    <3>2. Len(child) <= 37 /\ Len(ustack'[page]) <= 7
      BY <1>7, <1>9, <2>u
    <3>3. kstack'[t] = child /\ ustack'[t] = ustack'[page]
      BY <1>9, <2>2
    <3> QED
      BY <3>1, <3>2, <3>3
  <2>3. CASE t # page /\ t # c
    BY <1>4, <2>3, Stacks DEF KSInv, Shape, Domains
  <2> QED
    BY <2>1, <2>2, <2>3
<1>19. Shape'
  BY <1>9, <1>13, <1>17, <1>18, Stacks DEF Shape
<1>20. OnCpu'
  BY <1>1, <1>2, <1>4, <1>12 DEF OnCpu, machine
<1> QED
  BY <1>9, <1>12, <1>14, <1>16, <1>19, <1>20 DEF Kept, Executing

-----------------------------------------------------------------------------
(* The switch.                                                             *)

\* What the task finds when it comes back is untouched by what is pushed above.
LEMMA ResumableKept ==
  ASSUME Resumable(page), page' = page, \A i \in 1..Base(page) : kstack'[page][i] = kstack[page][i],
         UNCHANGED <<ustack, history>>
  PROVE  Resumable(page)'
<1> PICK t : t = page
  OBVIOUS
<1>1. Resumable(t) /\ page' = t /\ \A i \in 1..Base(t) : kstack'[t][i] = kstack[t][i]
  OBVIOUS
<1>2. ustack'[t] = ustack[t] /\ caller'[t] = caller[t] /\ interrupted'[t] = interrupted[t]
  BY DEF history
<1>3. Resumable(t)'
  BY <1>1, <1>2, SameResumable
<1> QED
  BY <1>1, <1>3 DEF Resumable, FromCall, FromInterrupt, Calling, InCall, Interrupted, InUser,
                    Answered, Results, Base

\* The same for a task on its way out of the CPU, which may have exited.
LEMMA LeavingKept ==
  ASSUME Leaving, page' = page, \A i \in 1..Base(page) + 6 : kstack'[page][i] = kstack[page][i],
         UNCHANGED <<rrVars, blocked, ustack, history>>
  PROVE  Leaving'
<1>1. PICK b \in {16, 17} : b = Base(page)
  BY DEF Base
<1>2. \A i \in 1..Base(page) : kstack'[page][i] = kstack[page][i]
  BY <1>1
<1>3. Used(page)' = Used(page)
  BY DEF Used, rrVars, Queued
<1>4. Outer(page)'
  BY <1>1 DEF Leaving, Outer, Base
<1> QED
  BY <1>2, <1>3, <1>4, ResumableKept DEF Leaving

Six(s, a, b, c, d, e, f) == s \o <<a, b, c, d, e, f>>

\* What task_switch pushes.
LEMMA PushSix ==
  ASSUME NEW s, IsSeq(s), NEW a, NEW b, NEW c, NEW d, NEW e, NEW f
  PROVE  /\ IsSeq(Six(s, a, b, c, d, e, f))
         /\ Len(Six(s, a, b, c, d, e, f)) = Len(s) + 6
         /\ \A i \in 1..Len(s) : Six(s, a, b, c, d, e, f)[i] = s[i]
         /\ Six(s, a, b, c, d, e, f)[Len(s) + 1] = a
         /\ Six(s, a, b, c, d, e, f)[Len(s) + 5] = e
         /\ Six(s, a, b, c, d, e, f)[Len(s) + 6] = f
<1>u. PICK u : u = <<a, b, c, d, e, f>>
  OBVIOUS
<1>1. IsSeq(u)
  BY <1>u, Tuples
<1>2. Len(u) = 6 /\ u[1] = a /\ u[5] = e /\ u[6] = f
  BY <1>u
<1>3. /\ IsSeq(s \o u)
      /\ Len(s \o u) = Len(s) + Len(u)
      /\ \A i \in 1..Len(s) : (s \o u)[i] = s[i]
      /\ \A i \in 1..Len(u) : (s \o u)[Len(s) + i] = u[i]
  BY <1>1, PushAll
<1>4. /\ (s \o u)[Len(s) + 1] = u[1] /\ (s \o u)[Len(s) + 5] = u[5] /\ (s \o u)[Len(s) + 6] = u[6]
  BY <1>2, <1>3
<1>5. Six(s, a, b, c, d, e, f) = s \o u
  BY <1>u DEF Six
<1> QED
  BY <1>2, <1>3, <1>4, <1>5

\* task_switch keeps the registers and calls inner_task_switch with its argument.
LEMMA TaskSwitchKeeps ==
  ASSUME KSInv, TaskSwitch
  PROVE  Kept /\ pc' # "program"
<1>1. AtTaskSwitch
  BY Executes DEF KSInv, TaskSwitch
<1>2. page # cur /\ tss_esp0 = page /\ sysenter_esp = page /\ cr3 = page
  BY DEF KSInv, OnCpu, TaskSwitch
<1>b. PICK b \in {16, 17} : b = Base(page)
  BY DEF Base
<1> DEFINE k == kstack[page]
           s == Six(k, regs.ebp, regs.esi, regs.edi, regs.ebx, k[Len(k) - 1], Code("task_switch_end"))
<1>3. /\ kstack' = [kstack EXCEPT ![page] = s]
      /\ regs' = [regs EXCEPT !.ebp = At(page, Len(k) + 1)]
      /\ pc' = "inner_task_switch"
      /\ UNCHANGED <<page, kernel_esp, machine, rrVars, ustack, blocked, history>>
  BY DEF TaskSwitch, outside, Six
<1>4. Len(k) = b + 6 /\ k[b + 5] = <<"task", cur>> /\ regs["ebp"] = At(page, b + 1) /\ Leaving
  BY <1>1, <1>b DEF AtTaskSwitch
<1>5. IsSeq(k)
  BY Stacks
<1> HIDE DEF k
<1>6. /\ IsSeq(s)
      /\ Len(s) = Len(k) + 6
      /\ \A i \in 1..Len(k) : s[i] = k[i]
      /\ s[Len(k) + 1] = regs.ebp
      /\ s[Len(k) + 5] = k[Len(k) - 1]
      /\ s[Len(k) + 6] = Code("task_switch_end")
  BY <1>5, PushSix
<1> HIDE DEF s
<1>7. Len(k) + 1 = b + 7 /\ Len(k) + 5 = b + 11 /\ Len(k) + 6 = b + 12 /\ Len(k) - 1 = b + 5
  BY <1>4
<1>8. /\ Len(s) = b + 12 /\ \A i \in 1..b + 6 : s[i] = k[i]
      /\ s[b + 7] = At(page, b + 1) /\ s[b + 11] = <<"task", cur>> /\ s[b + 12] = Code("task_switch_end")
  BY <1>4, <1>6, <1>7
<1>9. kstack'[page] = s /\ page' = page /\ Base(page)' = Base(page) /\ cur' = cur
  BY <1>3, Stacks DEF Domains, Base, rrVars
<1>10. IsRegs(regs') /\ regs'["ebp"] = At(page, b + 7)
  BY <1>3, <1>7, Stacks, SavedRegs DEF IsRegs
<1>11. AtInnerTaskSwitch'
  <2>1. Leaving'
    <3>1. \A i \in 1..Base(page) + 6 : kstack'[page][i] = kstack[page][i]
      BY <1>b, <1>8, <1>9 DEF k
    <3> QED
      BY <1>3, <1>4, <3>1, LeavingKept
  <2>2. Middle(page)'
    BY <1>b, <1>8, <1>9 DEF Middle
  <2> QED
    BY <1>b, <1>3, <1>8, <1>9, <1>10, <2>1, <2>2 DEF AtInnerTaskSwitch
<1>12. OnCpu'
  BY <1>2, <1>3, <1>9 DEF OnCpu, machine
<1>13. Local
  BY <1>3, Stacks DEF Local, Domains, TaskState, history, rrVars, Used, Queued
<1>14. IsSeq(kstack'[page]) /\ IsSeq(ustack'[page])
  BY <1>3, <1>6, <1>9, Stacks
<1>15. Len(s) <= 37 /\ Len(ustack'[page]) <= 7
  BY <1>3, <1>8, Stacks
<1> QED
  BY <1>3, <1>9, <1>10, <1>11, <1>12, <1>13, <1>14, <1>15, LocalStep DEF Kept, Executing

\* inner_task_switch installs the next task while it is on the stack of the last.
LEMMA InnerTaskSwitchKeeps ==
  ASSUME KSInv, InnerTaskSwitch
  PROVE  Kept /\ pc' # "program"
<1>1. AtInnerTaskSwitch
  BY Executes DEF KSInv, InnerTaskSwitch
<1>2. page # cur
  BY DEF KSInv, OnCpu, InnerTaskSwitch
<1>b. PICK b \in {16, 17} : b = Base(page)
  BY DEF Base
<1> DEFINE k == kstack[page]
           s == Calls3(k, kernel_esp[cur], <<"task", page>>, Code("c_end"))
<1>4. Len(k) = b + 12 /\ k[b + 11] = <<"task", cur>> /\ regs["ebp"] = At(page, b + 7) /\ Leaving /\ Middle(page)
  BY <1>1, <1>b DEF AtInnerTaskSwitch
<1>t. k[Len(k) - 1][2] = cur
  <2>1. Len(k) - 1 = b + 11
    BY <1>4
  <2> QED
    BY <1>4, <2>1, Words
<1>3. /\ kstack' = [kstack EXCEPT ![page] = s]
      /\ regs' = Working(k)
      /\ pc' = "cambio_pila"
      /\ tss_esp0' = cur /\ sysenter_esp' = cur /\ cr3' = cur
      /\ UNCHANGED <<page, kernel_esp, rrVars, ustack, blocked, history>>
  BY <1>t DEF InnerTaskSwitch, InstallTask, outside, Calls3
<1>5. IsSeq(k)
  BY Stacks
<1> HIDE DEF k
<1>6. /\ IsSeq(s)
      /\ Len(s) = Len(k) + 7
      /\ \A i \in 1..Len(k) : s[i] = k[i]
      /\ s[Len(k) + 1] = regs["ebp"]
      /\ s[Len(k) + 5] = kernel_esp[cur]
      /\ s[Len(k) + 6] = <<"task", page>>
      /\ s[Len(k) + 7] = Code("c_end")
  BY <1>5, EnteredThree
<1> HIDE DEF s
<1>7. Len(k) + 1 = b + 13 /\ Len(k) + 5 = b + 17 /\ Len(k) + 6 = b + 18 /\ Len(k) + 7 = b + 19
  BY <1>4
<1>8. /\ Len(s) = b + 19 /\ \A i \in 1..b + 12 : s[i] = k[i]
      /\ s[b + 13] = At(page, b + 7) /\ s[b + 17] = kernel_esp[cur] /\ s[b + 18] = <<"task", page>>
      /\ s[b + 19] = Code("c_end")
  BY <1>4, <1>6, <1>7
<1>9. kstack'[page] = s /\ page' = page /\ Base(page)' = Base(page) /\ cur' = cur
  BY <1>3, Stacks DEF Domains, Base, rrVars
<1>10. IsRegs(regs') /\ regs'["ebp"] = At(page, b + 13)
  BY <1>3, <1>7, SavedRegs DEF Working, IsRegs
<1>11. AtCambioPila'
  <2>0. \A i \in 1..Base(page) + 12 : kstack'[page][i] = kstack[page][i]
    BY <1>b, <1>8, <1>9 DEF k
  <2>1. Leaving'
    <3>1. \A i \in 1..Base(page) + 6 : kstack'[page][i] = kstack[page][i]
      BY <1>b, <2>0
    <3> QED
      BY <1>3, <1>4, <3>1, LeavingKept
  <2>2. Middle(page)'
    BY <1>b, <1>4, <1>9, <2>0 DEF Middle
  <2>3. Inner(page)'
    BY <1>b, <1>8, <1>9 DEF Inner
  <2> QED
    BY <1>b, <1>3, <1>8, <1>9, <1>10, <2>1, <2>2, <2>3 DEF AtCambioPila
<1>12. OnCpu'
  BY <1>2, <1>3, <1>9 DEF OnCpu
<1>13. Local
  BY <1>3, Stacks DEF Local, Domains, TaskState, history, rrVars, Used, Queued
<1>14. IsSeq(kstack'[page]) /\ IsSeq(ustack'[page])
  BY <1>3, <1>6, <1>9, Stacks
<1>15. Len(s) <= 37 /\ Len(ustack'[page]) <= 7
  BY <1>3, <1>8, Stacks
<1> QED
  BY <1>3, <1>9, <1>10, <1>11, <1>12, <1>13, <1>14, <1>15, LocalStep DEF Kept, Executing

\* The stack of the old task is what cambio_pila leaves, the stack of the new one
\* what cambio_pila left when it was the old one, or what was forged.
LEMMA CambioPilaKeeps ==
  ASSUME KSInv, CambioPila
  PROVE  Kept /\ pc' # "program"
<1>1. AtCambioPila
  BY Executes DEF KSInv, CambioPila
<1>2. page # cur /\ cur \in Task /\ tss_esp0 = cur /\ sysenter_esp = cur /\ cr3 = cur
  BY DEF KSInv, Scheduled, RRTypeOK, OnCpu, CambioPila
<1>p. PICK p \in Task : p = page
  BY Stacks
<1>c. PICK t \in Task : t = cur
  BY <1>2
<1>b. PICK b \in {16, 17} : b = Base(p)
  BY DEF Base
<1>d. PICK d \in {16, 17} : d = Base(t) /\ (t = Idle <=> d = 16)
  BY DEF Base
<1>3. Suspended(t)
  BY <1>2, <1>c DEF KSInv, Used
<1>k. PICK k : k = kstack[p]
  OBVIOUS
<1>m. PICK m : m = kstack[t]
  OBVIOUS
<1>n. PICK n \in Nat : n = Len(m) /\ IsSeq(m) /\ n <= 37
  BY <1>c, <1>m, SeqDomain DEF KSInv, Shape
<1>s. PICK s : s = Append(k, regs.ebp)
  OBVIOUS
<1>4. /\ Len(k) = b + 19 /\ Leaving /\ Middle(p) /\ Inner(p)
      /\ k[b + 17] = kernel_esp[t] /\ k[b + 18] = <<"task", p>>
      /\ regs["ebp"] = At(p, b + 13)
  BY <1>1, <1>b, <1>c, <1>k, <1>p DEF AtCambioPila
<1>5. /\ k[Len(k) - 2] = At(t, n) /\ k[Len(k) - 1][2] = p
      /\ k[Len(k) - 2][2] = t /\ k[Len(k) - 2][3] = n
  <2>1. Len(k) - 2 = b + 17 /\ Len(k) - 1 = b + 18
    BY <1>4
  <2>2. kernel_esp[t] = At(t, n)
    BY <1>3, <1>m, <1>n DEF Suspended
  <2> QED
    BY <1>4, <2>1, <2>2, Words
<1> DEFINE pushed == Append(kstack[page], regs.ebp)
           new == kstack[page][Len(kstack[page]) - 2]
           old == kstack[page][Len(kstack[page]) - 1][2]
<1>e. /\ kernel_esp' = [kernel_esp EXCEPT ![old] = At(page, Len(pushed))]
      /\ page' = new[2]
      /\ kstack' = [kstack EXCEPT ![page] = IF Used(page) THEN pushed ELSE << >>,
                                  ![new[2]] = SubSeq(@, 1, new[3] - 2)]
      /\ regs' = [regs EXCEPT !.eax = new, !.ebp = kstack[new[2]][new[3]]]
      /\ pc' = Target(kstack[new[2]][new[3] - 1])
      /\ UNCHANGED <<machine, rrVars, ustack, blocked, history>>
  BY DEF CambioPila, outside
<1>f. new = At(t, n) /\ new[2] = t /\ new[3] = n /\ old = p /\ pushed = s
  BY <1>5, <1>k, <1>p, <1>s
<1> HIDE DEF pushed, new, old
<1>o. PICK o : o = n - 2
  OBVIOUS
<1>6. /\ kernel_esp' = [kernel_esp EXCEPT ![p] = At(p, Len(s))]
      /\ page' = t
      /\ kstack' = [kstack EXCEPT ![p] = IF Used(p) THEN s ELSE << >>, ![t] = SubSeq(@, 1, o)]
      /\ regs' = [regs EXCEPT !.eax = At(t, n), !.ebp = m[n]]
      /\ pc' = Target(m[n - 1])
      /\ UNCHANGED <<machine, rrVars, ustack, blocked, history>>
  BY <1>e, <1>f, <1>m, <1>o, <1>p
<1>7. IsSeq(k)
  BY <1>k, <1>p, Stacks
<1>8. IsSeq(s) /\ Len(s) = Len(k) + 1 /\ (\A i \in 1..Len(k) : s[i] = k[i]) /\ s[Len(k) + 1] = regs["ebp"]
  BY <1>7, <1>s, Push
<1>9. Len(s) = b + 20 /\ (\A i \in 1..b + 19 : s[i] = k[i]) /\ s[b + 20] = At(p, b + 13)
  BY <1>4, <1>8
<1>10. /\ kstack'[p] = IF Used(p) THEN s ELSE << >>
       /\ kstack'[t] = SubSeq(m, 1, o)
       /\ kernel_esp'[p] = At(p, Len(s))
       /\ t # p
  BY <1>2, <1>6, <1>c, <1>m, <1>p, Stacks DEF Domains
\* The old task.
<1>11. ASSUME Used(p) PROVE Suspended(p)'
  <2>1. Resumable(p) /\ Outer(p)
    BY <1>4, <1>11, <1>p DEF Leaving
  <2>2. kstack'[p] = s
    BY <1>10, <1>11
  <2>3. \A i \in 1..b + 19 : kstack'[p][i] = kstack[p][i]
    BY <1>9, <1>k, <2>2
  <2>4. Resumable(p)'
    <3>1. \A i \in 1..Base(p) : kstack'[p][i] = kstack[p][i]
      BY <1>b, <2>3
    <3>2. ustack'[p] = ustack[p] /\ caller'[p] = caller[p] /\ interrupted'[p] = interrupted[p]
      BY <1>6 DEF history
    <3> QED
      BY <2>1, <3>1, <3>2, SameResumable
  <2>5. Outer(p)' /\ Middle(p)' /\ Inner(p)'
    <3>1. Base(p)' = b
      BY <1>b DEF Base
    <3>2. Outer(p)'
      BY <1>b, <2>1, <2>3, <3>1 DEF Outer
    <3>3. Middle(p)'
      <4>1. kstack'[p][b + 7] = kstack[p][b + 7] /\ kstack'[p][b + 12] = kstack[p][b + 12]
        BY <2>3
      <4> QED
        BY <1>4, <1>b, <3>1, <4>1 DEF Middle
    <3>4. Inner(p)'
      <4>1. kstack'[p][b + 13] = kstack[p][b + 13] /\ kstack'[p][b + 19] = kstack[p][b + 19]
        BY <2>3
      <4> QED
        BY <1>4, <1>b, <3>1, <4>1 DEF Inner
    <3> QED
      BY <3>2, <3>3, <3>4
  <2>6. Switched(p)'
    BY <1>9, <1>b, <2>2, <2>4, <2>5 DEF Switched, Base
  <2> QED
    BY <1>10, <2>2, <2>6 DEF Suspended
\* The new one.
<1>12. o \in Nat /\ o <= 35 /\ o \in 0..Len(m)
  <2>1. n = d + 20 \/ n = 19 \/ n = 2
    BY <1>3, <1>d, <1>m, <1>n DEF Suspended, Switched, Forked, Fresh
  <2>2. n >= 2
    BY <2>1
  <2>3. o \in Nat /\ o <= 35 /\ o \in 0..n
    BY <1>n, <1>o, <2>2
  <2> QED
    BY <1>n, <2>3
<1>13. IsSeq(kstack'[t]) /\ Len(kstack'[t]) = o /\ \A i \in 1..o : kstack'[t][i] = m[i]
  <2>1. IsSeq(m) /\ o \in 0..Len(m)
    BY <1>12, <1>n
  <2>2. /\ IsSeq(SubSeq(m, 1, o))
        /\ Len(SubSeq(m, 1, o)) = o
        /\ \A i \in 1..o : SubSeq(m, 1, o)[i] = m[i]
    BY <2>1, Pop
  <2> QED
    BY <1>10, <2>2
<1>14. \A i \in 1..o : kstack'[t][i] = kstack[t][i]
  BY <1>13, <1>m
<1>15. IsRegs(regs') /\ regs'["ebp"] = m[n]
  BY <1>6, Stacks, SavedRegs DEF IsRegs
<1>16. page' = t /\ cur' = t /\ Base(t)' = d
  BY <1>6, <1>c, <1>d DEF rrVars, Base
<1>17. ustack'[t] = ustack[t] /\ caller'[t] = caller[t] /\ interrupted'[t] = interrupted[t]
  BY <1>6 DEF history
<1>18. ASSUME Switched(t)
       PROVE  Executing' /\ pc' = "c_end"
  <2>1. /\ n = d + 20 /\ m[n] = At(t, d + 13) /\ Resumable(t) /\ Outer(t) /\ Middle(t) /\ Inner(t)
    BY <1>18, <1>d, <1>m, <1>n DEF Switched
  <2>2. n - 1 = d + 19 /\ o = d + 18
    BY <1>o, <2>1
  <2>3. \A i \in 1..d + 18 : kstack'[t][i] = kstack[t][i]
    BY <1>14, <2>2
  <2>4. pc' = "c_end"
    BY <1>6, <1>d, <1>m, <2>1, <2>2, Words DEF Inner
  <2>5. Resumable(t)'
    <3>1. \A i \in 1..Base(t) : kstack'[t][i] = kstack[t][i]
      BY <1>d, <2>3
    <3> QED
      BY <1>17, <2>1, <3>1, SameResumable
  <2>6. Resumable(page)'
    BY <1>16, <2>5 DEF Resumable, FromCall, FromInterrupt, Calling, InCall, Interrupted, InUser,
                       Answered, Results, Base
  <2>7. /\ kstack'[t][d + 6] = Code("c_end") /\ kstack'[t][d + 7] = At(t, d + 1)
        /\ kstack'[t][d + 12] = Code("task_switch_end") /\ kstack'[t][d + 13] = At(t, d + 7)
    BY <1>d, <2>1, <2>3 DEF Outer, Middle, Inner
  <2>8. Base(page)' = d
    BY <1>16, <1>d DEF Base
  <2>9. Outer(page)' /\ Middle(page)'
    BY <1>16, <2>7, <2>8 DEF Outer, Middle
  <2>10. AtInnerEnd'
    BY <1>13, <1>15, <1>16, <2>1, <2>2, <2>4, <2>6, <2>7, <2>8, <2>9 DEF AtInnerEnd
  <2> QED
    BY <2>4, <2>10 DEF Executing
<1>19. ASSUME Forked(t)
       PROVE  Executing' /\ pc' = "ret_from_fork"
  <2>1. n = 19 /\ m[18] = Code("ret_from_fork") /\ FromCall(t) /\ caller[t].result = Num(0)
    BY <1>19, <1>m, <1>n DEF Forked
  <2>2. d = 17 /\ n - 1 = 18 /\ o = 17
    BY <1>d, <1>o, <2>1 DEF FromCall, Calling
  <2>3. pc' = "ret_from_fork"
    BY <1>6, <2>1, <2>2, Words
  <2>4. FromCall(t)'
    <3>1. \A i \in 1..Base(t) : kstack'[t][i] = kstack[t][i]
      BY <1>14, <1>d, <2>2
    <3> QED
      BY <1>17, <2>1, <3>1, SameResumable
  <2>5. FromCall(page)' /\ caller'[page'].result = Num(0)
    BY <1>16, <1>17, <2>1, <2>4 DEF FromCall, Calling, InCall
  <2>6. Len(kstack'[page']) = Base(page)'
    BY <1>13, <1>16, <1>d, <2>2 DEF Base
  <2>7. AtRoutine'
    BY <2>3, <2>5, <2>6 DEF AtRoutine
  <2> QED
    BY <2>3, <2>7 DEF Executing
<1>20. ASSUME Fresh(t)
       PROVE  Executing' /\ pc' = "cpu_idle"
  <2>1. n = 2 /\ m[1] = Code("cpu_idle") /\ t = Idle
    BY <1>20, <1>m, <1>n DEF Fresh
  <2>2. n - 1 = 1 /\ o = 0
    BY <1>o, <2>1
  <2>3. pc' = "cpu_idle"
    BY <1>6, <2>1, <2>2, Words
  <2>4. kstack'[t] = << >>
    BY <1>10, <2>2, SubSeqEmpty
  <2>5. AtCpuIdle'
    BY <1>16, <2>1, <2>3, <2>4 DEF AtCpuIdle
  <2> QED
    BY <2>3, <2>5 DEF Executing
<1>21. Executing' /\ pc' \in {"c_end", "ret_from_fork", "cpu_idle"}
  BY <1>3, <1>18, <1>19, <1>20 DEF Suspended
<1>22. OnCpu'
  BY <1>2, <1>6, <1>16, <1>21, <1>c DEF OnCpu, machine
<1>23. ASSUME NEW u \in Task, u # page', Used(u)'
       PROVE  Suspended(u)'
  <2>1. Used(u)
    BY <1>6, <1>23 DEF rrVars, Used, Queued
  <2>2. CASE u = p
    BY <1>11, <2>1, <2>2
  <2>3. CASE u # p
    <3>1. Suspended(u)
      BY <1>p, <2>1, <2>3 DEF KSInv
    <3>2. TaskState(u)' = TaskState(u)
      BY <1>6, <1>23, <2>3, Stacks DEF Domains, TaskState, history
    <3> QED
      BY <3>1, <3>2, SameTask
  <2> QED
    BY <2>2, <2>3
<1>24. Domains'
  BY <1>6, Stacks DEF Domains, history
<1>25. ASSUME NEW u \in Task
       PROVE  IsSeq(kstack'[u]) /\ Len(kstack'[u]) <= 37 /\ IsSeq(ustack'[u]) /\ Len(ustack'[u]) <= 7
  <2>0. IsSeq(kstack[u]) /\ Len(kstack[u]) <= 37 /\ IsSeq(ustack[u]) /\ Len(ustack[u]) <= 7 /\ ustack' = ustack
    BY <1>6 DEF KSInv, Shape
  <2>1. CASE u = p
    <3>1. IsSeq(s) /\ IsSeq(<< >>)
      BY <1>8, Tuples
    <3>2. Len(s) <= 37 /\ Len(<< >>) <= 37
      BY <1>9, Tuples
    <3>3. kstack'[u] = s \/ kstack'[u] = << >>
      BY <1>10, <2>1
    <3> QED
      BY <2>0, <3>1, <3>2, <3>3
  <2>2. CASE u = t
    <3>1. Len(kstack'[t]) <= 37
      BY <1>12, <1>13
    <3> QED
      BY <1>13, <2>0, <2>2, <3>1
  <2>3. CASE u # p /\ u # t
    <3>1. kstack'[u] = kstack[u]
      BY <1>6, <2>3, Stacks DEF Domains
    <3> QED
      BY <2>0, <3>1
  <2> QED
    BY <2>1, <2>2, <2>3
<1>26. Shape'
  BY <1>15, <1>16, <1>24, <1>25 DEF Shape
<1> QED
  BY <1>21, <1>22, <1>23, <1>26 DEF Kept

\* A function of C returns: the frames above its own are gone.
LEMMA FramePopped ==
  ASSUME KSInv, NEW n \in Nat, n <= Len(kstack[page]),
         kstack' = [kstack EXCEPT ![page] = SubSeq(@, 1, n)],
         UNCHANGED <<page, rrVars, kernel_esp, machine, ustack, blocked, history>>
  PROVE  /\ Local
         /\ IsSeq(kstack'[page]) /\ Len(kstack'[page]) = n
         /\ \A i \in 1..n : kstack'[page][i] = kstack[page][i]
<1>1. IsSeq(kstack[page]) /\ n \in 0..Len(kstack[page])
  <2>1. IsSeq(kstack[page]) /\ Len(kstack[page]) \in Nat
    BY Stacks
  <2> QED
    BY <2>1
<1>2. /\ IsSeq(SubSeq(kstack[page], 1, n))
      /\ Len(SubSeq(kstack[page], 1, n)) = n
      /\ \A i \in 1..n : SubSeq(kstack[page], 1, n)[i] = kstack[page][i]
  BY <1>1, Pop
<1>3. kstack'[page] = SubSeq(kstack[page], 1, n)
  BY Stacks DEF Domains
<1>4. Local
  BY Stacks DEF Local, Domains, TaskState, history, rrVars, Used, Queued
<1> QED
  BY <1>2, <1>3, <1>4

\* The end of inner_task_switch finds its frame through ebp.
LEMMA InnerEndKeeps ==
  ASSUME KSInv, CEnd, AtInnerEnd
  PROVE  Kept /\ pc' # "program"
<1>1. page = cur /\ tss_esp0 = page /\ sysenter_esp = page /\ cr3 = page
  BY Current DEF CEnd
<1>b. PICK b \in {16, 17} : b = Base(page)
  BY DEF Base
<1>k. PICK k : k = kstack[page]
  OBVIOUS
<1>2. /\ Len(k) = b + 18 /\ Resumable(page)
      /\ k[b + 6] = Code("c_end") /\ k[b + 7] = At(page, b + 1) /\ k[b + 12] = Code("task_switch_end")
      /\ k[b + 13] = At(page, b + 7)
      /\ regs["ebp"] = At(page, b + 13)
  BY <1>b, <1>k DEF AtInnerEnd, Outer, Middle
<1>3. regs.ebp[3] = b + 13
  BY <1>2, Words
<1>4. PICK n \in Nat : n = b + 11 /\ n = regs.ebp[3] - 2
  BY <1>3
<1>5. /\ regs' = [regs EXCEPT !.ebp = k[regs.ebp[3]], !.edi = k[regs.ebp[3] + 1],
                              !.esi = k[regs.ebp[3] + 2], !.ebx = k[regs.ebp[3] + 3], !.eax = Num(0)]
      /\ kstack' = [kstack EXCEPT ![page] = SubSeq(@, 1, n)]
      /\ pc' = Target(k[regs.ebp[3] - 1])
      /\ UNCHANGED <<page, rrVars, kernel_esp, machine, ustack, blocked, history>>
  BY <1>4, <1>k DEF CEnd, outside
<1>6. regs.ebp[3] - 1 = b + 12
  BY <1>3
<1>7. pc' = "task_switch_end"
  BY <1>2, <1>5, <1>6, Words
<1>8. IsRegs(regs') /\ regs'["ebp"] = At(page, b + 7)
  BY <1>2, <1>3, <1>5, Stacks, SavedRegs DEF IsRegs
<1>9. n <= Len(kstack[page])
  BY <1>2, <1>4, <1>k
<1>10. /\ Local
       /\ IsSeq(kstack'[page]) /\ Len(kstack'[page]) = n
       /\ \A i \in 1..n : kstack'[page][i] = kstack[page][i]
  BY <1>5, <1>9, FramePopped
<1>11. page' = page /\ Base(page)' = b
  BY <1>5, <1>b DEF Base
<1>12. AtTaskSwitchEnd'
  <2>1. Resumable(page)'
    <3>1. \A i \in 1..Base(page) : kstack'[page][i] = kstack[page][i]
      BY <1>4, <1>10, <1>b
    <3> QED
      BY <1>2, <1>5, <3>1, ResumableKept
  <2>2. kstack'[page][b + 6] = k[b + 6] /\ kstack'[page][b + 7] = k[b + 7]
    BY <1>4, <1>10, <1>k
  <2>3. Outer(page)'
    BY <1>2, <1>11, <2>2 DEF Outer
  <2> QED
    BY <1>2, <1>4, <1>7, <1>8, <1>10, <1>11, <2>1, <2>2, <2>3 DEF AtTaskSwitchEnd
<1>13. OnCpu'
  BY <1>1, <1>5, <1>7 DEF OnCpu, machine, rrVars
<1>14. IsSeq(ustack'[page]) /\ Len(ustack'[page]) <= 7
  BY <1>5, Stacks
<1>15. n <= 37
  BY <1>4
<1> QED
  BY <1>7, <1>8, <1>10, <1>11, <1>12, <1>13, <1>14, <1>15, LocalStep DEF Kept, Executing

\* The end of task_switch.
LEMMA TaskSwitchEndKeeps ==
  ASSUME KSInv, TaskSwitchEnd
  PROVE  Kept /\ pc' # "program"
<1>0. AtTaskSwitchEnd
  BY Executes DEF KSInv, TaskSwitchEnd
<1>1. page = cur /\ tss_esp0 = page /\ sysenter_esp = page /\ cr3 = page
  BY Current DEF TaskSwitchEnd
<1>b. PICK b \in {16, 17} : b = Base(page)
  BY DEF Base
<1>k. PICK k : k = kstack[page]
  OBVIOUS
<1>2. /\ Len(k) = b + 11 /\ Resumable(page)
      /\ k[b + 6] = Code("c_end") /\ k[b + 7] = At(page, b + 1)
      /\ regs["ebp"] = At(page, b + 7)
  BY <1>0, <1>b, <1>k DEF AtTaskSwitchEnd, Outer
<1>3. regs.ebp[3] = b + 7
  BY <1>2, Words
<1>4. PICK n \in Nat : n = b + 5 /\ n = regs.ebp[3] - 2
  BY <1>3
<1>5. /\ regs' = [regs EXCEPT !.ebx = k[Len(k) - 1], !.edi = k[Len(k) - 2], !.esi = k[Len(k) - 3],
                              !.ebp = k[regs.ebp[3]]]
      /\ kstack' = [kstack EXCEPT ![page] = SubSeq(@, 1, n)]
      /\ pc' = Target(k[regs.ebp[3] - 1])
      /\ UNCHANGED <<page, rrVars, kernel_esp, machine, ustack, blocked, history>>
  BY <1>4, <1>k DEF TaskSwitchEnd, outside
<1>6. regs.ebp[3] - 1 = b + 6
  BY <1>3
<1>7. pc' = "c_end"
  BY <1>2, <1>5, <1>6, Words
<1>8. IsRegs(regs') /\ regs'["ebp"] = At(page, b + 1)
  BY <1>2, <1>3, <1>5, Stacks, SavedRegs DEF IsRegs
<1>9. n <= Len(kstack[page])
  BY <1>2, <1>4, <1>k
<1>10. /\ Local
       /\ IsSeq(kstack'[page]) /\ Len(kstack'[page]) = n
       /\ \A i \in 1..n : kstack'[page][i] = kstack[page][i]
  BY <1>5, <1>9, FramePopped
<1>11. page' = page /\ Base(page)' = b
  BY <1>5, <1>b DEF Base
<1>12. AtOuterEnd'
  <2>1. Resumable(page)'
    <3>1. \A i \in 1..Base(page) : kstack'[page][i] = kstack[page][i]
      BY <1>4, <1>10, <1>b
    <3> QED
      BY <1>2, <1>5, <3>1, ResumableKept
  <2> QED
    BY <1>4, <1>7, <1>8, <1>10, <1>11, <2>1 DEF AtOuterEnd
<1>13. OnCpu'
  BY <1>1, <1>5, <1>7 DEF OnCpu, machine, rrVars
<1>14. IsSeq(ustack'[page]) /\ Len(ustack'[page]) <= 7
  BY <1>5, Stacks
<1>15. n <= 37
  BY <1>4
<1> QED
  BY <1>7, <1>8, <1>10, <1>11, <1>12, <1>13, <1>14, <1>15, LocalStep DEF Kept, Executing

\* The function that called task_switch returns 0 to the handler.
LEMMA OuterEndKeeps ==
  ASSUME KSInv, CEnd, AtOuterEnd
  PROVE  Kept /\ pc' # "program"
<1>1. page = cur /\ tss_esp0 = page /\ sysenter_esp = page /\ cr3 = page
  BY Current DEF CEnd
<1>t. PICK t : t = page
  OBVIOUS
<1>b. PICK b \in {16, 17} : b = Base(page) /\ (page # Idle => b = 17)
  BY DEF Base
<1>k. PICK k : k = kstack[page]
  OBVIOUS
<1>2. Len(k) = b + 5 /\ Resumable(page) /\ regs["ebp"] = At(page, b + 1)
  BY <1>b, <1>k DEF AtOuterEnd
<1>3. regs.ebp[3] = b + 1
  BY <1>2, Words
<1>4. PICK n \in Nat : n = b - 1 /\ n = regs.ebp[3] - 2
  BY <1>3
<1>5. /\ regs' = [regs EXCEPT !.ebp = k[regs.ebp[3]], !.edi = k[regs.ebp[3] + 1],
                              !.esi = k[regs.ebp[3] + 2], !.ebx = k[regs.ebp[3] + 3], !.eax = Num(0)]
      /\ kstack' = [kstack EXCEPT ![page] = SubSeq(@, 1, n)]
      /\ pc' = Target(k[regs.ebp[3] - 1])
      /\ UNCHANGED <<page, rrVars, kernel_esp, machine, ustack, blocked, history>>
  BY <1>4, <1>k DEF CEnd, outside
<1>6. pc' = Target(k[b])
  <2>1. regs.ebp[3] - 1 = b
    BY <1>3
  <2> QED
    BY <1>5, <2>1
<1>8. IsRegs(regs') /\ regs'["eax"] = Num(0)
  BY <1>5, Stacks, SavedRegs DEF IsRegs
<1>9. n <= Len(kstack[page])
  BY <1>2, <1>4, <1>k
<1>10. /\ Local
       /\ IsSeq(kstack'[page]) /\ Len(kstack'[page]) = n
       /\ \A i \in 1..n : kstack'[page][i] = kstack[page][i]
  BY <1>5, <1>9, FramePopped
<1>11. page' = t /\ Base(page)' = b /\ caller' = caller
  BY <1>5, <1>b, <1>t DEF Base, history
<1>12. /\ Interrupted(t) => Interrupted(t)'
       /\ Calling(t) => Calling(t)'
  <2>1. \A i \in 1..Base(t) - 1 : kstack'[t][i] = kstack[t][i]
    BY <1>4, <1>10, <1>b, <1>t
  <2>2. ustack'[t] = ustack[t] /\ caller'[t] = caller[t] /\ interrupted'[t] = interrupted[t]
    BY <1>5 DEF history
  <2> QED
    BY <2>1, <2>2, SameBottom
<1>13. ASSUME FromInterrupt(page)
       PROVE  Executing' /\ pc' = "handler_end"
  <2>1. pc' = "handler_end" /\ Interrupted(t)
    BY <1>6, <1>13, <1>b, <1>k, <1>t, Words DEF FromInterrupt
  <2>2. Interrupted(page)'
    BY <1>11, <1>12, <2>1 DEF Interrupted, InUser, InCall, Answered, Results
  <2>3. AtHandlerEnd'
    BY <1>4, <1>10, <1>11, <1>t, <2>1, <2>2 DEF AtHandlerEnd
  <2> QED
    BY <2>1, <2>3 DEF Executing
<1>14. ASSUME FromCall(page), caller[page].result = Num(0)
       PROVE  Executing' /\ pc' = "sysenter_fin"
  <2>1. b = 17
    BY <1>14, <1>b DEF FromCall, Calling
  <2>2. pc' = "sysenter_fin" /\ Calling(t)
    BY <1>6, <1>14, <1>k, <1>t, <2>1, Words DEF FromCall
  <2>3. Calling(page)'
    BY <1>11, <1>12, <2>2 DEF Calling, InCall
  <2>4. Answered(page, regs["eax"])'
    BY <1>8, <1>11, <1>14, <1>t, Answers DEF Answered, Results
  <2>5. Len(kstack'[page]) = 16
    BY <1>4, <1>10, <2>1
  <2>6. AtSysenterFin'
    BY <1>11, <1>t, <2>2, <2>3, <2>4, <2>5 DEF AtSysenterFin
  <2> QED
    BY <2>2, <2>6 DEF Executing
<1>15. Executing' /\ pc' \in {"handler_end", "sysenter_fin"}
  BY <1>2, <1>13, <1>14 DEF Resumable
<1>16. OnCpu'
  BY <1>1, <1>5, <1>15 DEF OnCpu, machine, rrVars
<1>17. IsSeq(ustack'[page]) /\ Len(ustack'[page]) <= 7
  BY <1>5, Stacks
<1>18. n <= 37
  BY <1>4
<1> QED
  BY <1>8, <1>10, <1>15, <1>16, <1>17, <1>18, LocalStep DEF Kept

\* The idle task starts with an empty stack.
LEMMA CpuIdleKeeps ==
  ASSUME KSInv, CpuIdle
  PROVE  Kept /\ pc' # "program"
<1>0. AtCpuIdle
  BY Executes DEF KSInv, CpuIdle
<1>1. page = cur /\ tss_esp0 = page /\ sysenter_esp = page /\ cr3 = page
  BY Current DEF CpuIdle
<1>s. PICK s : s = Append(kstack[page], regs.ebp)
  OBVIOUS
<1>2. /\ kstack' = [kstack EXCEPT ![page] = s]
      /\ regs' = [regs EXCEPT !.ebp = At(page, Len(kstack[page]) + 1)]
      /\ pc' = "hlt"
      /\ UNCHANGED <<page, rrVars, kernel_esp, machine, ustack, blocked, history>>
  BY <1>s DEF CpuIdle, outside
<1>3. IsSeq(s) /\ Len(s) = Len(kstack[page]) + 1
  <2>1. IsSeq(kstack[page])
    BY Stacks
  <2> QED
    BY <1>s, <2>1, Push
<1>4. Len(s) = 1
  BY <1>0, <1>3, Tuples DEF AtCpuIdle
<1>5. kstack'[page] = s /\ page' = page
  BY <1>2, Stacks DEF Domains
<1>6. IsRegs(regs')
  BY <1>2, Stacks, SavedRegs DEF IsRegs
<1>7. AtHlt'
  BY <1>0, <1>2, <1>4, <1>5 DEF AtHlt, AtCpuIdle
<1>8. OnCpu'
  BY <1>1, <1>2 DEF OnCpu, machine, rrVars
<1>9. Local
  BY <1>2, Stacks DEF Local, Domains, TaskState, history, rrVars, Used, Queued
<1>10. IsSeq(kstack'[page]) /\ IsSeq(ustack'[page]) /\ Len(ustack'[page]) <= 7
  BY <1>2, <1>3, <1>5, Stacks
<1>11. Len(s) <= 37
  BY <1>4
<1> QED
  BY <1>2, <1>5, <1>6, <1>7, <1>8, <1>9, <1>10, <1>11, LocalStep DEF Kept, Executing

-----------------------------------------------------------------------------
(* The invariant holds.                                                    *)

\* The kernel starts on init's stack, with the idle task's forged.
LEMMA KSInvInit == KSInit => KSInv
<1> SUFFICES ASSUME KSInit PROVE KSInv
  OBVIOUS
<1> USE RRAssumption
<1>1. /\ pc = "program" /\ regs = UserRegs(InitTask)
      /\ page = InitTask /\ tss_esp0 = InitTask /\ sysenter_esp = InitTask /\ cr3 = InitTask
      /\ cur = InitTask /\ readyqueue = << >> /\ blocked = {}
      /\ ustack = [t \in Task |-> << >>]
      /\ caller = [t \in Task |-> Nothing] /\ interrupted = [t \in Task |-> Nothing]
  BY DEF KSInit, RRInit
<1>2. kstack = [t \in Task |-> IF t = Idle THEN <<Code("cpu_idle"), Num(0)>> ELSE << >>]
  BY DEF KSInit
<1>3. kernel_esp = [t \in Task |-> At(t, IF t = Idle THEN 2 ELSE 0)]
  BY DEF KSInit
<1>q. Queued = {}
  BY <1>1 DEF Queued, Range
<1>4. Scheduled
  <2>1. RRTypeOK /\ OnePlace
    BY RRSafeInit DEF KSInit
  <2> QED
    BY <1>1, <2>1 DEF Scheduled
<1>5. OnCpu
  BY <1>1 DEF OnCpu
<1>i. PICK i : i = <<Code("cpu_idle"), Num(0)>>
  OBVIOUS
<1>6. IsSeq(i) /\ Len(i) = 2 /\ i[1] = Code("cpu_idle")
  BY <1>i, Tuples
<1>7. kstack = [t \in Task |-> IF t = Idle THEN i ELSE << >>]
  BY <1>2, <1>i
<1>8. IsRegs(regs) /\ regs["ds"] = UserDS /\ regs["es"] = UserDS
  BY <1>1, SavedRegs DEF UserRegs, IsRegs, General
<1>9. Shape
  <2>1. IsSeq(<< >>) /\ Len(<< >>) <= 37 /\ Len(<< >>) <= 7
    BY Tuples
  <2>2. IsSeq(i) /\ Len(i) <= 37
    BY <1>6
  <2>3. ASSUME NEW t \in Task
        PROVE  IsSeq(kstack[t]) /\ Len(kstack[t]) <= 37 /\ IsSeq(ustack[t]) /\ Len(ustack[t]) <= 7
    <3>1. kstack[t] = i \/ kstack[t] = << >>
      BY <1>7
    <3>2. ustack[t] = << >>
      BY <1>1
    <3> QED
      BY <2>1, <2>2, <3>1, <3>2
  <2>4. Domains
    BY <1>1, <1>3, <1>7 DEF Domains
  <2> QED
    BY <1>1, <1>8, <2>3, <2>4 DEF Shape
<1>10. AtUser
  BY <1>1, <1>8 DEF AtUser, InUserMode, InUser
<1>11. ASSUME NEW t \in Task, t # page, Used(t)
       PROVE  Suspended(t)
  <2>1. t = Idle
    BY <1>1, <1>11, <1>q DEF Used
  <2>2. kstack[t] = i
    BY <1>7, <2>1
  <2>3. kernel_esp[t] = At(t, 2)
    BY <1>3, <2>1
  <2>4. Fresh(t)
    BY <1>6, <2>1, <2>2 DEF Fresh
  <2> QED
    BY <1>6, <2>2, <2>3, <2>4 DEF Suspended
<1> QED
  BY <1>4, <1>5, <1>9, <1>10, <1>11 DEF KSInv, Executing

\* Only two steps lead back to a program.
LEMMA ActionKeeps ==
  ASSUME KSInv, KSNext
  PROVE  Kept /\ (pc' = "program" => pc = "program" \/ HandlerEnd \/ WrapperReturn)
<1>1. CASE SysenterEntry \/ SysenterFin \/ HandlerEnd
  BY <1>1, SysenterEntryKeeps, SysenterFinKeeps, HandlerEnds
<1>2. CASE Routine
  <2>1. CASE \/ \E v \in {Num(0), Error} : SysOther(v)
             \/ \E b \in blocked : SysUnblock(b)
             \/ SysUnblockFails \/ SysForkFails \/ SysBlockNot
    BY <2>1, CallKeeps
  <2>2. CASE \/ \E b \in blocked : KeyboardWakes(b)
             \/ KeyboardWakesNobody \/ ClockStays \/ RetFromFork
    BY <2>2, OtherReturnKeeps
  <2>3. CASE \E c \in Task : SysFork(c)
    BY <2>3, SysForkKeeps
  <2>4. CASE SysBlock \/ SysExit \/ ClockSwitches
    BY <2>4, SysBlockKeeps, SysExitKeeps, ClockSwitchesKeeps
  <2> QED
    BY <1>2, <2>1, <2>2, <2>3, <2>4 DEF Routine
<1>3. CASE Switch
  <2>1. CASE CEnd
    <3>1. AtInnerEnd \/ AtOuterEnd
      BY <2>1, Executes DEF KSInv, CEnd
    <3> QED
      BY <2>1, <3>1, InnerEndKeeps, OuterEndKeeps
  <2>2. CASE RetFromFork
    BY <2>2, OtherReturnKeeps
  <2>3. CASE TaskSwitch \/ InnerTaskSwitch \/ CambioPila \/ TaskSwitchEnd \/ CpuIdle
    BY <2>3, TaskSwitchKeeps, InnerTaskSwitchKeeps, CambioPilaKeeps, TaskSwitchEndKeeps, CpuIdleKeeps
  <2> QED
    BY <1>3, <2>1, <2>2, <2>3 DEF Switch
<1>4. CASE User
  <2>1. CASE WrapperReturn
    BY <2>1, WrapperReturns
  <2>2. CASE Program
    BY <2>2, ProgramKeeps DEF Program
  <2>3. CASE \E nr \in Calls : Wrapper(nr)
    <3>1. PICK nr \in Calls : Wrapper(nr)
      BY <2>3
    <3>2. pc = "program"
      BY <3>1 DEF Wrapper
    <3> QED
      BY <3>1, <3>2, WrapperKeeps
  <2> QED
    BY <1>4, <2>1, <2>2, <2>3 DEF User
<1>5. ASSUME NEW routine \in {"clock_routine", "keyboard_routine"}, Interrupt(routine)
      PROVE  Kept /\ pc' # "program"
  BY <1>5, InterruptKeeps DEF Interrupt
<1> QED
  BY <1>1, <1>2, <1>3, <1>4, <1>5 DEF KSNext, Kernel

\* A step of nobody.
LEMMA StutterKeeps ==
  ASSUME KSInv, UNCHANGED ksVars
  PROVE  Kept
<1> USE DEF ksVars, rrVars, machine, history
<1>1. OnCpu'
  BY DEF KSInv, OnCpu
<1>2. Shape'
  BY DEF KSInv, Shape, Domains
<1>3. Used(page)' <=> Used(page)
  BY DEF Used, Queued
<1>4. Resumable(page) <=> Resumable(page)'
  BY DEF Resumable, FromCall, FromInterrupt, Calling, InCall, Interrupted, InUser, Answered,
         Results, Base
<1>5. Leaving <=> Leaving'
  BY <1>3, <1>4 DEF Leaving, Outer, Base
<1>6. AtRoutine <=> AtRoutine'
  BY DEF AtRoutine, FromCall, FromInterrupt, Calling, InCall, Interrupted, InUser, Answered,
         Results, Base
<1>7. (AtHandlerEnd <=> AtHandlerEnd') /\ (AtSysenterFin <=> AtSysenterFin')
  BY DEF AtHandlerEnd, AtSysenterFin, Calling, InCall, Interrupted, InUser, Answered, Results, Base
<1>8. /\ AtUser <=> AtUser'
      /\ AtHlt <=> AtHlt'
      /\ AtSysenter <=> AtSysenter'
      /\ AtCpuIdle <=> AtCpuIdle'
  BY DEF AtUser, AtHlt, AtSysenter, AtCpuIdle, InUserMode, InUser, InCall, Answered, Results
<1>9. /\ AtTaskSwitch <=> AtTaskSwitch'
      /\ AtInnerTaskSwitch <=> AtInnerTaskSwitch'
      /\ AtCambioPila <=> AtCambioPila'
  BY <1>5 DEF AtTaskSwitch, AtInnerTaskSwitch, AtCambioPila, Middle, Inner, Base
<1>10. /\ AtInnerEnd <=> AtInnerEnd'
       /\ AtTaskSwitchEnd <=> AtTaskSwitchEnd'
       /\ AtOuterEnd <=> AtOuterEnd'
  BY <1>4 DEF AtInnerEnd, AtTaskSwitchEnd, AtOuterEnd, Outer, Middle, Base
<1>11. Executing'
  BY <1>6, <1>7, <1>8, <1>9, <1>10 DEF KSInv, Executing
<1>12. ASSUME NEW t \in Task, t # page', Used(t)' PROVE Suspended(t)'
  BY <1>12, SameTask DEF KSInv, TaskState, Used, Queued
<1> QED
  BY <1>1, <1>2, <1>11, <1>12 DEF Kept

\* The invariant is inductive.
LEMMA KSInvStep ==
  ASSUME KSInv, [KSNext]_ksVars
  PROVE  KSInv'
<1>1. Kept
  BY ActionKeeps, StutterKeeps
<1>2. Scheduled'
  BY ScheduledStep
<1> QED
  BY <1>1, <1>2 DEF Kept, KSInv

KSSafety == KSInit /\ [][KSNext]_ksVars

LEMMA KSInvAlways == KSSafety => []KSInv
BY KSInvInit, KSInvStep, PTL DEF KSSafety

-----------------------------------------------------------------------------
(* The theorems.                                                           *)

LEMMA KSSpecSafety == KSSpec => KSInit /\ [][KSNext]_ksVars /\ []KSInv
<1>1. KSSpec => KSSafety
  BY PTL DEF KSSpec, KSSafety
<1> QED
  BY <1>1, KSInvAlways, PTL DEF KSSafety

\* The words say that every return goes to code of the kernel or of the program,
\* and how deep each stack is: 37 words at the most, task_struct is safe.
LEMMA InvTypes == KSInv => KSTypeOK
<1> SUFFICES ASSUME KSInv PROVE KSTypeOK
  OBVIOUS
<1>1. pc \in Label
  <2>1. SysRoutines \subseteq Range(sys_call_table)
    <3>1. DOMAIN sys_call_table = 0..35
      BY DEF sys_call_table
    <3>2. /\ sys_call_table[1] = "sys_exit" /\ sys_call_table[2] = "sys_fork"
          /\ sys_call_table[3] = "sys_block" /\ sys_call_table[22] = "sys_unblock"
          /\ sys_call_table[0] = "sys_other"
      BY DEF sys_call_table
    <3>3. \A i \in 0..35 : sys_call_table[i] \in Range(sys_call_table)
      BY <3>1 DEF Range
    <3>4. {0, 1, 2, 3, 22} \subseteq 0..35
      OBVIOUS
    <3> QED
      BY <3>2, <3>3, <3>4 DEF SysRoutines
  <2>2. \/ pc \in SysRoutines
        \/ pc \in {"program", "call_return", "write_return", "syscall_handler_sysenter",
                   "sysenter_fin", "handler_end", "clock_routine", "keyboard_routine",
                   "task_switch", "inner_task_switch", "cambio_pila", "task_switch_end",
                   "c_end", "ret_from_fork", "cpu_idle", "hlt"}
    BY DEF KSInv, Executing, AtUser, InUserMode, AtHlt, AtSysenter, AtRoutine, AtHandlerEnd,
           AtSysenterFin, AtCpuIdle, AtTaskSwitch, AtInnerTaskSwitch, AtCambioPila, AtInnerEnd,
           AtTaskSwitchEnd, AtOuterEnd
  <2> QED
    BY <2>1, <2>2 DEF Label
<1>2. RRTypeOK /\ cur \in Task /\ blocked \subseteq Task
  BY DEF KSInv, Scheduled, RRTypeOK
<1>3. page \in Task /\ tss_esp0 \in Task /\ sysenter_esp \in Task /\ cr3 \in Task
  BY <1>2 DEF KSInv, OnCpu, Shape
<1>4. \A t \in Task : Len(kstack[t]) <= 37 /\ Len(ustack[t]) <= 7
  BY DEF KSInv, Shape
<1> QED
  BY <1>1, <1>2, <1>3, <1>4 DEF KSTypeOK

\* Whatever the programs do, `ret', iret and sysexit go to code, and no kernel
\* stack grows beyond 37 words: nothing piles up towards the task_struct that
\* shares the page.
THEOREM KSTypeCorrect == KSSpec => []KSTypeOK
BY KSSpecSafety, InvTypes, PTL

\* In user mode and in the idle loop, the task whose stack and address space are
\* in use, and on whose stack the kernel will be entered, is the one that the
\* scheduler chose.
THEOREM KSChosenTaskExecutes == KSSpec => []ChosenTaskExecutes
<1>1. KSInv => ChosenTaskExecutes
  <2> SUFFICES ASSUME KSInv, InUserMode \/ pc = "hlt"
               PROVE  {page, tss_esp0, sysenter_esp, cr3} = {cur}
    BY DEF ChosenTaskExecutes
  <2>1. page = cur /\ tss_esp0 = page /\ sysenter_esp = page /\ cr3 = page
    BY Current DEF InUserMode
  <2> QED
    BY <2>1
<1> QED
  BY <1>1, KSSpecSafety, PTL

\* iret gives back the registers, the stack and the place in the code that the
\* interrupt found, although any number of tasks has run in between and the task
\* itself was switched away and back.
THEOREM KSInterruptsInvisible == KSSpec => InterruptsInvisible
<1> DEFINE Seen == pc = "handler_end" =>
                     interrupted[page] = [pc |-> pc', regs |-> regs', ustack |-> ustack'[cr3']]
<1>1. ASSUME KSInv, [KSNext]_ksVars PROVE [Seen]_ksVars
  <2>1. SUFFICES ASSUME KSNext, pc = "handler_end" PROVE Seen
    BY <1>1
  <2>2. HandlerEnd
    BY <2>1 DEF KSNext, Kernel, SysenterEntry, SysenterFin, Routine, SysOther, SysUnblock,
                KeyboardWakes, SysFork, SysUnblockFails, KeyboardWakesNobody, SysForkFails,
                SysBlock, SysBlockNot, SysExit, ClockSwitches, ClockStays, Switch, TaskSwitch,
                InnerTaskSwitch, CambioPila, CEnd, TaskSwitchEnd, RetFromFork, CpuIdle, User,
                WrapperReturn, Program, Wrapper, Interrupt, InUserMode
  <2> QED
    BY <1>1, <2>2, HandlerEnds
<1>2. KSSpec => [][Seen]_ksVars
  BY <1>1, KSSpecSafety, PTL
<1> QED
  BY <1>2 DEF InterruptsInvisible

\* A wrapper returns to the program that called it with the registers a caller
\* may count on, the stack as it was and the result the kernel gave this call;
\* in a forked child, 0.
THEOREM KSCallsReturnToCaller == KSSpec => CallsReturnToCaller
<1> DEFINE Returned == pc # "program" /\ pc' = "program" /\ pc # "handler_end"
                         => caller[cur] # Nothing /\ AsCalled(caller[cur])
<1>1. ASSUME KSInv, [KSNext]_ksVars PROVE [Returned]_ksVars
  <2>1. SUFFICES ASSUME KSNext, pc # "program", pc' = "program", pc # "handler_end"
                 PROVE  caller[cur] # Nothing /\ AsCalled(caller[cur])
    BY <1>1
  <2>2. WrapperReturn
    <3>1. HandlerEnd => pc = "handler_end"
      BY DEF HandlerEnd
    <3> QED
      BY <1>1, <2>1, <3>1, ActionKeeps
  <2> QED
    BY <1>1, <2>2, WrapperReturns
<1>2. KSSpec => [][Returned]_ksVars
  BY <1>1, KSSpecSafety, PTL
<1> QED
  BY <1>2 DEF CallsReturnToCaller

\* The switches of stacks are those of the scheduler: the kernel with its stacks
\* is a client of it.
THEOREM KSClientOfScheduler == KSSpec => RRSafety
<1>1. KSInit => RRInit
  BY DEF KSInit
<1>2. KSInv /\ [KSNext]_ksVars => [RRNext]_rrVars
  BY StepOfScheduler
<1> QED
  BY <1>1, <1>2, KSSpecSafety, PTL DEF RRSafety

\* So the tasks that switch stacks get the CPU as the tasks of the scheduler do:
\* in turn, within a bounded number of ticks, for a whole quantum.
THEOREM KSFair == KSSpec => []OnePlace /\ NoOvertaking /\ BoundedWaiting /\ TurnHonoured
BY KSClientOfScheduler, RROnePlace, RRNoOvertaking, RRBoundedWaiting, RRTurnHonoured

===============================================================================
